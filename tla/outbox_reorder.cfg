SPECIFICATION Spec
CONSTANTS
    Ids <- MCIds
    Rows = 2
    Peers = {u1}
    RandomIds = {r1, r2}
    Procs = {p1}
    Null = Null
    MAX_ATTEMPTS = 2
    BatchLimit = 2
    MaxStarts = 1
    Faults = FALSE
    Overlap = FALSE
CHECK_DEADLOCK FALSE
PROPERTIES
    DialogInOrder
