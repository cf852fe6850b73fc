SPECIFICATION Spec
CONSTANTS
    t1 = t1
    t2 = t2
    t3 = t3
    e1 = e1
    Threads <- MCThreads
    Expirers <- MCExpirers
    MaxRef = 8
    MaxRetry = 2
SYMMETRY Symmetric
INVARIANTS
    RefIsMapped
    OneMapper
    NrefCounts
    NmapsExact
CHECK_DEADLOCK FALSE
