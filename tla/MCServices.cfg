SPECIFICATION MCSpec
CONSTANTS
    NumSteps = 2
    Network <- SameNetwork
    Overlapping = FALSE
    Windows = {"w"}
    MaxTxs = 3
    MaxCloses = 1
    Updates = {"u1", "u2"}
    Deletes = {"d"}
    MaxBuilds = 3
    Sizes = {2}
    MaxSegments = 1
    MaxEnds = 1
INVARIANTS
    
    
    
    RuntimesMatchAccount
    ShortBounded
    
    ClosedBeforeInactive
\* A plan that is over, and an account without requests left, rest.
CHECK_DEADLOCK FALSE
