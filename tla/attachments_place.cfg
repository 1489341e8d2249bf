SPECIFICATION AttachmentSpec
CONSTANTS
    Downloads = {r1}
    MaxItems = 2
    MaxEra = 2
CHECK_DEADLOCK FALSE
INVARIANTS
    ReceivedIsKept
