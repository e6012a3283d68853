SPECIFICATION FairSpec
CONSTANTS
    c1 = c1
    r1 = r1
    w1 = w1
    w2 = w2
    p1 = p1
    p2 = p2
    Commits = {c1}
    Retries = {r1}
    Claims = {w1, w2}
    Procs = {p1, p2}
    ProcOf <- MCProcOf
    NoCall = NoCall
    MaxMishaps = 1
INVARIANTS
    IInv
    OneCommitAtATime
    PiecesMatch
    OutcomeIsTrue
PROPERTIES
    DoneIsFinal
    CommitEnds
\* Requests are made once: when nothing is left to resume, the system rests.
CHECK_DEADLOCK FALSE
