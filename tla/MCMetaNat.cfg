\* Nothing is ever replaced.
SPECIFICATION Spec
CONSTANTS
    NidCount = 3
    NidsPerBlock = 2
    SegCount = 4
    SegsPerBlock = 2
    BlocksPerSegment = 20
    NatCacheSize = 4
    SitCacheSize = 4
    MaxOps = 2
    MaxTx = 2
INVARIANT NatCoherent
CHECK_DEADLOCK FALSE
