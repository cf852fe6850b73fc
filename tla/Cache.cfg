SPECIFICATION Spec
CONSTANTS
    k1 = k1
    k2 = k2
    r1 = r1
    r2 = r2
    v1 = v1
    Keys <- TwoKeys
    Readers <- TwoReaders
    Writers <- OneWriter
    Limits = {0, 1, 2, 3}
    InitialLimit = 3
    MaxClock = 3
    MaxVersion = 1
SYMMETRY Threads
INVARIANTS
    FreshHit
    ListMatchesHash
    WithinLimit
CHECK_DEADLOCK FALSE
