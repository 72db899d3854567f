CONSTANTS
    MaxRows = 7
    PageSize = 3
    MaxEmptyPages = 2
    HighWaterMark = 2
    MaxFailures = 2
    IteratorEmptyPages = 0
SPECIFICATION Spec
INVARIANTS FetchesOnce
PROPERTIES ImplementsDelivery ReadingEnds
CHECK_DEADLOCK FALSE
