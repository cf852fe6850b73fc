SPECIFICATION Spec
CONSTANTS
    Ids = {1, 2}
    LsegOf <- MCLseg
    NSegments = 6
    SegmentSize = 16
    IdSize = 2
    EinfoWidth = 1
    ChunkThreshold = 2
    GarbagesInSegment = 2
    GarbageThreshold = 1
    Writers = {w1, w2}
    Workloads <- MCWorkloads
    AppendSizes = {13}
    MaxAppended <- MCMaxAppended
    MaxPuts <- MCMaxPuts
SYMMETRY MCSymmetry
INVARIANTS
    SpacesAreDisjoint
    SegmentsFit
    NothingLeaks
    GarbageIsExact
    ChunksAreReused
CHECK_DEADLOCK FALSE
