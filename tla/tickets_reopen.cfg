SPECIFICATION Spec
CONSTANTS
    Users = {u1}
    TicketIds = {1, 2}
    Msgs = {1, 2, 3}
    Operators = {o1}
    Ratings = {5}
    Tasks = {k1, k2}
    Mode = "longpoll"
    Null = Null
    MaxRequests = 5
    Faults = FALSE
SYMMETRY Symmetry
CHECK_DEADLOCK FALSE
PROPERTIES
    WritingReopens
