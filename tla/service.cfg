SPECIFICATION ServiceSpec
CONSTANTS
    Events = {e1, e2}
    Requests = {r1, r2}
    Null = Null
    MaxFailures = 2
    MaxLost = 2
    Callers = {c1, c2}
    RATE = 2
    CAPACITY = 2
    TicksPerSecond = 3
    MaxClock = 7
    FaqIds = {1, 2, 3, 4}
    Screens = {s1, s2}
    MAX_FAQ_ITEMS = 2
    VISIBLE_IN_BOT = 2
    Initially = 3
    MaxEdits = 3
    MaxUpsets = 1
    Downloads = {d1, d2}
    MaxItems = 2
    MaxEra = 3
    Directory = {1, 2, 3}
    Strays = {1}
    Starters = {p1, p2}
    MaxDeaths = 2
    MaxHour = 30
CHECK_DEADLOCK FALSE
INVARIANTS
    ServiceTypeOK
    HandledAtMostOnce
    WithinBudget
    SleeperWillFindToken
    LastReorderWins
    BadgesMatchBot
    ServedIsAsked
    MigratedOnce
    NoticeNamesOpening
PROPERTIES
    EventuallyHandled
    EventuallyMigrated
