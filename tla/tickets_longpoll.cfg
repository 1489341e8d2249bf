SPECIFICATION Spec
CONSTANTS
    Users = {u1}
    TicketIds = {1, 2}
    Msgs = {1, 2, 3}
    Operators = {o1}
    Ratings = {5}
    Tasks = {k1, k2, k3}
    Mode = "longpoll"
    Null = Null
    MaxRequests = 6
    Faults = FALSE
SYMMETRY Symmetry
CHECK_DEADLOCK FALSE
INVARIANTS
    FeedInOrder
    AwaitingMeansNoTicket
    NothingLost
PROPERTIES
    MenuOnlyWithoutTicket
