SPECIFICATION FairSpec
CONSTANTS
    Size = 1
    MaxOids = 3
    MaxQueue = 1
    Mishaps = {"fault"}
    MaxMishaps = 1
    MaxRequests = 1
    MaxTroubles = 1
    Requests = {"cancel", "retarget", "exit"}
    Executions = {"whole"}
    Overlaps = {}
    MaxEntryRetries = 2
    MaxSlRetries = 2
INVARIANTS
    TypeOK
    ExposureBounded
    OneStopLoss
    QuietIsSaved
PROPERTIES
    
    
    CycleClosesPosition
    CancellationEnds
\* A hedge that is cancelled or in error stops.
CHECK_DEADLOCK FALSE
