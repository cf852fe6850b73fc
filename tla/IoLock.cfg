SPECIFICATION FairSpec
CONSTANTS
    t1 = t1
    t2 = t2
    t3 = t3
    p1 = p1
    p2 = p2
    Threads <- MCThreads
    Procs <- MCProcs
    ProcOf <- MCProcOf
    Timeouts <- MCTimeouts
    RcCheckInterval = 2
    LockModulus = 6
    MaxLeft = 2
INVARIANTS
    MutualExclusion
    TornDataIsFenced
    LockWordCounts
PROPERTY
    BoundedWait
