CONSTANTS
    Tables <- MCTables
    Properties <- MCProperties
    Requests <- None
    Batches <- SameShape
    Queries <- MCQueries
    TreeKeys <- MCTreeKeys
    MaxCalls = 2
    TreeLimit = 4
    MaxFailures = 1
SPECIFICATION Spec
INVARIANTS OwnStatements
CHECK_DEADLOCK FALSE
