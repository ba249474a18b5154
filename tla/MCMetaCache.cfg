\* Caches of one block, segments that never fill.
SPECIFICATION Spec
CONSTANTS
    NidCount = 4
    NidsPerBlock = 2
    SegCount = 4
    SegsPerBlock = 2
    BlocksPerSegment = 20
    NatCacheSize = 1
    SitCacheSize = 1
    MaxOps = 4
    MaxTx = 3
INVARIANTS
    AssertionsHold
    SitCoherent
    SSDConsistent
CHECK_DEADLOCK FALSE
