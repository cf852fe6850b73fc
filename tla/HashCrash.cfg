SPECIFICATION Spec
CONSTANTS
    Keys <- MCZeroKeys
    HashOf <- MCZeroHash
    Values = {0, 7}
    MaxId = 2
    MaxIndexSize = 8
    InitialIndexSize = 8
    InitialMaxOffset = 7
    VarSize = FALSE
    IsReference = FALSE
    SourceSize = 0
    NeedWal = TRUE
    CrashModes = {"application"}
    CrashInFlush = TRUE
    MaxOps = 4
    MaxCrashes = 2
INVARIANTS
    AcknowledgedSurvives
    ScanAgreesWithSearch
    GarbageListIsExact
    OnlyPartialBreaks
CHECK_DEADLOCK FALSE
