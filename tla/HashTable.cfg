SPECIFICATION Spec
CONSTANTS
    Keys <- MCManyKeys
    HashOf <- MCManyHash
    Values = {0}
    MaxId = 3
    MaxIndexSize = 16
    InitialIndexSize = 4
    InitialMaxOffset = 3
    VarSize = TRUE
    IsReference = FALSE
    SourceSize = 0
    NeedWal = FALSE
    CrashModes = {}
    CrashInFlush = FALSE
    MaxOps = 10
    MaxCrashes = 0
INVARIANTS
    SearchNeedsNoLock
    GarbageListIsExact
    KeyPlacesArePrivate
    SearchEnds
CHECK_DEADLOCK FALSE
