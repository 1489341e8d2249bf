------------------------------- MODULE MCAuth -------------------------------
EXTENDS Auth, TLC

\* Rows and tabs are interchangeable; the keys differ in whether they count.
Symmetry == Permutations(Links) \cup Permutations(Challenges)
              \cup Permutations(Sessions) \cup Permutations(Tabs)
=============================================================================
