CONSTANTS
    MaxRows = 4
    PageSize = 3
    MaxEmptyPages = 1
    HighWaterMark = 2
    MaxFailures = 1
    IteratorEmptyPages = 1
SPECIFICATION Spec
INVARIANTS DoneMeansAll
CHECK_DEADLOCK FALSE
