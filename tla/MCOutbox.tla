------------------------------ MODULE MCOutbox ------------------------------
(* Small instances of Outbox for TLC.                                      *)
EXTENDS Outbox, TLC

CONSTANT Rows     \* bound: how many messages are enqueued

MCIds == 1..Rows

\* Peers and random ids are only compared for equality.
Symmetry == Permutations(Peers) \cup Permutations(RandomIds)
=============================================================================
