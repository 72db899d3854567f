SPECIFICATION PoliciesSpec
CONSTANTS
    Clock <- MCClock
    MicrosPerMilli = 3
    MaxNumber = 8
    MaxSafeNumberDate = 2
    WarningThreshold = 2
    MinLogInterval = 2
    MaxCalls = 9
    Hosts <- SixHosts
    HostDc <- MCHostDc
    NoHost = NoHost
    Clusters <- MCClusters
    MaxIndex = 3
    MaxPlans = 2
    Askers = {c1, c2, c3}
    Answers <- MCAnswers
    Translations = {t1}
    MaxIp = 2
    MaxIps = 3
    PlanHosts = 3
    SpeculativeMax = 2
    BaseDelay = 20
    MaxDelay = 90
    MaxExponent = 4
    MaxAttempts = 6
    Undefined = Undefined
    UserOptions <- MCUserOptions
    ProfileLists <- MCProfileLists
    QueryOptionSets <- MCQueryOptionSets
    Requests = {q1}
INVARIANTS
    BoundedAhead
    PlansComplete
    ReplicasLead
    FailuresBounded
    OptionsServe
PROPERTIES
    StrictlyIncreasing
    AddressesAnswered
CHECK_DEADLOCK FALSE
