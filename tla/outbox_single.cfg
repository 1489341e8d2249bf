SPECIFICATION Spec
CONSTANTS
    Ids <- MCIds
    Rows = 2
    Peers = {u1, u2}
    RandomIds = {r1, r2}
    Procs = {p1}
    Null = Null
    MAX_ATTEMPTS = 3
    BatchLimit = 2
    MaxStarts = 3
    Faults = TRUE
    Overlap = FALSE
CHECK_DEADLOCK FALSE
SYMMETRY Symmetry
INVARIANTS
    TypeOK
    SentMeansDelivered
PROPERTIES
    ImplementsDelivery
