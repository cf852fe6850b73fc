SPECIFICATION FairSpec
CONSTANTS
    w1 = w1
    w2 = w2
    w3 = w3
    Workers <- Three
    Requests <- AllRequests
    InitialLimit = 3
    DefaultTimeout = FALSE
    Mixes <- FewOfKind
INVARIANTS
    CountersAgree
    SomeoneAwake
    PoolSurvives
PROPERTIES
    Served
    LimitIsReached
    ShutdownEnds
CHECK_DEADLOCK FALSE
