\* Two-block segments; caches that never replace.
SPECIFICATION Spec
CONSTANTS
    NidCount = 3
    NidsPerBlock = 8
    SegCount = 6
    SegsPerBlock = 8
    BlocksPerSegment = 2
    NatCacheSize = 4
    SitCacheSize = 4
    MaxOps = 4
    MaxTx = 4
INVARIANT SegmentListsIntact
CHECK_DEADLOCK FALSE
