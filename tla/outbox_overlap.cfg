SPECIFICATION Spec
CONSTANTS
    Ids <- MCIds
    Rows = 2
    Peers = {u1}
    RandomIds = {r1, r2}
    Procs = {p1, p2}
    Null = Null
    MAX_ATTEMPTS = 2
    BatchLimit = 1
    MaxStarts = 2
    Faults = TRUE
    Overlap = TRUE
CHECK_DEADLOCK FALSE
SYMMETRY Symmetry
INVARIANTS
    AtMostOnce
