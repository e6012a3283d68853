SPECIFICATION Spec
CONSTANTS
    Size = 1
    MaxOids = 2
    MaxQueue = 1
    Mishaps = {"fault"}
    MaxMishaps = 1
    MaxRequests = 1
    MaxTroubles = 2
    Requests = {"retarget", "exit"}
    Executions = {"whole"}
    Overlaps = {"list", "request"}
    MaxEntryRetries = 2
    MaxSlRetries = 2
PROPERTIES
    RescueReplacesDeadOrder
\* A hedge that is cancelled or in error stops.
CHECK_DEADLOCK FALSE
