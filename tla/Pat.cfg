SPECIFICATION Spec
CONSTANTS
    Bits = 2
    Keys <- MCKeys
    EmbeddableSize = 1
    Rings = {4, 8}
    MaxId = 5
    MaxDeletes <- MCMaxDeletes
    MaxNodes <- MCMaxNodes
INVARIANTS
    AddSucceeds
    RangesAreExact
    PrefixesAreExact
    NodesArePartitioned
PROPERTY
    IsTable
