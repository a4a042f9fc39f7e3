CONSTANTS
    Pods = {u1}
    Cycles = {c1, c2}
    Plugins = {k1, k2}
    u1 = u1
    c1 = c1
    c2 = c2
    k1 = k1
    k2 = k2
    MaxCalls = 1
    NoCycle = NoCycle
    Stalls = FALSE
CHECK_DEADLOCK FALSE
SPECIFICATION FairSpec
INVARIANTS
    AnswersRespected
    MapExact
    NoDeadWait
PROPERTY WaitEnds
