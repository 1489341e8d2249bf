------------------------------ MODULE MCTickets ------------------------------
EXTENDS Tickets, TLC

\* Users, tasks and personas are interchangeable.
Symmetry == Permutations(Users) \cup Permutations(Tasks) \cup Permutations(Operators)
=============================================================================
