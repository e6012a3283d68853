SPECIFICATION Spec
CONSTANTS
    Size = 1
    MaxOids = 3
    MaxQueue = 1
    Mishaps = {}
    MaxMishaps = 0
    MaxRequests = 0
    MaxTroubles = 0
    Requests = {}
    Executions = {"whole"}
    Overlaps = {"list"}
    MaxEntryRetries = 2
    MaxSlRetries = 2
INVARIANTS
    NeverOversized
\* A hedge that is cancelled or in error stops.
CHECK_DEADLOCK FALSE
