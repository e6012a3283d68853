SPECIFICATION Spec
CONSTANTS
    s1 = s1
    s2 = s2
    w1 = w1
    w2 = w2
    Senders = {s1, s2}
    Workers = {w1, w2}
    MaxBatches <- Batches32
    MaxBusy <- Busy21
SYMMETRY Symmetry
INVARIANTS
    NeverOversold
    ExposureExplained
    PostedOnce
    OnePilotEntry
PROPERTIES
    NoTpOnceExitAsked
\* With every batch used and every position closed the ledger rests.
CHECK_DEADLOCK FALSE
