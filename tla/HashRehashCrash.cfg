SPECIFICATION Spec
CONSTANTS
    Keys <- MCFourSlotKeys
    HashOf <- MCFourSlotHash
    Values = {0}
    MaxId = 3
    MaxIndexSize = 8
    InitialIndexSize = 4
    InitialMaxOffset = 3
    VarSize = FALSE
    IsReference = FALSE
    SourceSize = 0
    NeedWal = TRUE
    CrashModes = {"application"}
    CrashInFlush = FALSE
    MaxOps = 4
    MaxCrashes = 1
INVARIANT
    AcknowledgedSurvives
CHECK_DEADLOCK FALSE
