SPECIFICATION ProtectionSpec
CONSTANTS
    Sizes = {1}
    MaxSegments = 0
    MaxEnds = 1
INVARIANTS
    NeverRetiredUnread
CHECK_DEADLOCK FALSE
