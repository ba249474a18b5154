\* Two-block segments and a SIT cache of one block.
SPECIFICATION Spec
CONSTANTS
    NidCount = 3
    NidsPerBlock = 2
    SegCount = 6
    SegsPerBlock = 2
    BlocksPerSegment = 2
    NatCacheSize = 4
    SitCacheSize = 1
    MaxOps = 4
    MaxTx = 4
INVARIANT SitCoherent
CHECK_DEADLOCK FALSE
