SPECIFICATION MetadataSpec
CONSTANTS
    Events = {e1, e2, e3}
    Keyspaces = {k1, k2}
    None = None
    MaxToken = 7
    Layouts <- MCLayouts
    Strategies <- MCStrategies
    RingSteps = 3
    Callers = {c1, c2}
    Refreshes = {r1}
    Settings <- MCSettings
    MaxVersion = 2
    Tables <- MCTables
    Queries = {q1, q2, q3}
    MaxPrepared = 2
    MaxInfos = 4
INVARIANTS
    CallbacksServed
    AnswerIsFresh
    RangesPartition
    ReplicasPlaced
    LoadsShared
    FreshAfterRefresh
    TableParsed
    PreparedBounded
PROPERTIES
    MetadataAnswered
CHECK_DEADLOCK FALSE
