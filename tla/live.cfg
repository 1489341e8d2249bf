SPECIFICATION LiveSpec
CONSTANTS
    Dialogs = {d1, d2}
    Null = Null
    MaxMessages = 2
    Conns = {c1, c2}
    Devices = {p1, p2}
    MAX_QUEUE = 1
    MaxLeaks = 1
    Jobs = {1, 2}
    MaxFeed = 2
CHECK_DEADLOCK FALSE
INVARIANTS
    LiveTypeOK
    AcceptedIsSomewhere
    NothingShownTwice
    NoGhostBubble
PROPERTIES
    ImplementsChannel
    EventuallyAnnounced
