\* Two directories that may get the same node id, one after the other.
SPECIFICATION Spec
CONSTANTS
    Names = {"a", "b", "c"}
    Hash <- MCHash
    SLOTS <- MCSlots
    NR_DENTRY_IN_BLOCK = 2
    BITS_PER_LONG = 2
    UINT_BITS = 2
    HALF_DEPTH = 2
    NumNids = 8
    Paths <- MCTwoDirPaths
    file_expect_size = 1
    MaxOps = 6
INVARIANT ParentsHold
CHECK_DEADLOCK FALSE
