CONSTANTS
    s1 = s1
    s2 = s2
    Statement = {s1, s2}
    MaxItems = 5
    MaxLevel = 2
    DefaultLevel = 3
    MaxErrorsLimit = 1
    DefaultErrors = 2
SPECIFICATION Spec
INVARIANTS ItemsControlled FlowControlled AllAccounted
PROPERTIES PromiseSettles
CHECK_DEADLOCK FALSE
