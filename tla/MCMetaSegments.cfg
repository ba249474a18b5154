\* Two-block segments that fill up and run out; caches that never replace.
SPECIFICATION Spec
CONSTANTS
    NidCount = 3
    NidsPerBlock = 8
    SegCount = 4
    SegsPerBlock = 8
    BlocksPerSegment = 2
    NatCacheSize = 4
    SitCacheSize = 4
    MaxOps = 4
    MaxTx = 3
INVARIANTS
    SegmentsPartitioned
    BlocksAccounted
CHECK_DEADLOCK FALSE
