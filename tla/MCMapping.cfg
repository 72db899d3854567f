CONSTANTS
    Tables <- MCTables
    Properties <- MCProperties
    Requests <- MCRequests
    Batches <- MCBatches
    Queries <- MCQueries
    TreeKeys <- MCTreeKeys
    MaxCalls = 2
    TreeLimit = 4
    MaxFailures = 1
SPECIFICATION Spec
INVARIANTS   IdempotentMeansRepeatable ResultsAdapted
PROPERTIES CachesAreMaps
CHECK_DEADLOCK FALSE
