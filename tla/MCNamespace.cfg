SPECIFICATION Spec
CONSTANTS
    Names = {"a", "b", "c"}
    Hash <- MCHash
    SLOTS <- MCSlots
    NR_DENTRY_IN_BLOCK = 2
    BITS_PER_LONG = 2
    UINT_BITS = 2
    HALF_DEPTH = 2
    NumNids = 8
    Paths <- MCPaths
    file_expect_size = 1
    MaxOps = 5
INVARIANTS AssertsHold ViewsWhole OpenFilesKept LookupsTrue
CHECK_DEADLOCK FALSE
