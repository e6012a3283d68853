SPECIFICATION FairSpec
CONSTANTS
    Tasks = {t1, t2, t3, t4}
    Keys = {k1, k2, k3}
    Max = 2
    Waiters = {w1}
INVARIANTS
    IInv
    WorkConserving
    IdleTold
PROPERTIES
    EveryTaskStarts
    ImplementsLock
