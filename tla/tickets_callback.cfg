SPECIFICATION Spec
CONSTANTS
    Users = {u1, u2}
    TicketIds = {1, 2}
    Msgs = {1, 2, 3}
    Operators = {o1, o2}
    Ratings = {5}
    Tasks = {k1, k2}
    Mode = "callback"
    Null = Null
    MaxRequests = 5
    Faults = TRUE
SYMMETRY Symmetry
CHECK_DEADLOCK FALSE
INVARIANTS
    TypeOK
    OneOpenTicketPerUser
    OneOperatorPerTicket
    UnreadNeverOvercounts
    RepliesAreInTheFeed
    StoredOnce
PROPERTIES
    ImplementsTicketLife
