SPECIFICATION FairSpec
CONSTANTS
    Size = 1
    MaxOids = 2
    MaxQueue = 1
    Mishaps = {"fault", "crash"}
    MaxMishaps = 1
    MaxRequests = 0
    MaxTroubles = 1
    Requests = {}
    Executions = {"whole"}
    Overlaps = {}
    MaxEntryRetries = 2
    MaxSlRetries = 2
PROPERTIES
    NakedPositionSettles
    TransitoryEnds
\* A hedge that is cancelled or in error stops.
CHECK_DEADLOCK FALSE
