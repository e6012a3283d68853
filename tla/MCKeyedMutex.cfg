SPECIFICATION FairSpec
CONSTANTS
    Calls = {c1, c2, c3, c4}
    Keys = {k1, k2}
    NoCall = NoCall
INVARIANTS
    IInv
    FirstComeFirstServed
PROPERTIES
    EveryCallServed
    ImplementsLock
