\* A path that goes down and up again.
SPECIFICATION Spec
CONSTANTS
    Names = {"a", "b", "c"}
    Hash <- MCHash
    SLOTS <- MCSlots
    NR_DENTRY_IN_BLOCK = 2
    BITS_PER_LONG = 2
    UINT_BITS = 2
    HALF_DEPTH = 2
    NumNids = 8
    Paths <- MCDotPaths
    file_expect_size = 1
    MaxOps = 3
INVARIANT MissesOnlySSD
CHECK_DEADLOCK FALSE
