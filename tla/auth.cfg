SPECIFICATION Spec
CONSTANTS
    Links = {l1, l2}
    Challenges = {c1, c2, c3}
    Keys = {k1, k2}
    Counting = {k1}
    Sessions = {s1}
    Tabs = {b1, b2}
    Null = Null
    MaxCount = 2
SYMMETRY Symmetry
CHECK_DEADLOCK FALSE
INVARIANTS
    TypeOK
    OneKeyPerLink
    OneSessionPerChallenge
    SessionHasKey
    LinkNeedsAnswer
