SPECIFICATION Spec
CONSTANTS
    Size = 2
    MaxOids = 3
    MaxQueue = 1
    Mishaps = {"crash"}
    MaxMishaps = 1
    MaxRequests = 0
    MaxTroubles = 1
    Requests = {}
    Executions = {"whole", "partial", "split"}
    Overlaps = {}
    MaxEntryRetries = 2
    MaxSlRetries = 2
INVARIANTS
    ExposureBounded
    OneStopLoss
\* A hedge that is cancelled or in error stops.
CHECK_DEADLOCK FALSE
