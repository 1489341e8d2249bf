SPECIFICATION FairSpec
CONSTANTS
    Ids <- MCIds
    Rows = 3
    Peers = {u1}
    RandomIds = {r1, r2, r3}
    Procs = {p1}
    Null = Null
    MAX_ATTEMPTS = 2
    BatchLimit = 2
    MaxStarts = 2
    Faults = FALSE
    Overlap = FALSE
CHECK_DEADLOCK FALSE
INVARIANTS
    DeniedPeersMarked
PROPERTIES
    OvertakenOnlyIfRefused
    EventuallySettled
