CONSTANTS
    c1 = c1
    c2 = c2
    Caller = {c1, c2}
    MaxOps = 2
    MaxStatements = 1
SPECIFICATION Spec
INVARIANTS ShutdownPreventsNewQueries
CHECK_DEADLOCK FALSE
