CONSTANTS
    c1 = c1
    c2 = c2
    c3 = c3
    Caller = {c1, c2, c3}
    MaxOps = 1
    MaxStatements = 2
SPECIFICATION Spec
INVARIANTS ConnectionShared SessionBeforeUse ShutdownIsFinal
PROPERTIES SessionIsKept EveryCallSettles
CHECK_DEADLOCK FALSE
