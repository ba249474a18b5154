\* Blocks and bitmap words of four slots, of which 1U << off reaches two.
SPECIFICATION Spec
CONSTANTS
    Names = {"a", "b", "c"}
    Hash <- MCHash
    SLOTS <- MCSlots
    NR_DENTRY_IN_BLOCK = 4
    BITS_PER_LONG = 4
    UINT_BITS = 2
    HALF_DEPTH = 2
    NumNids = 8
    Paths <- MCFlatPaths
    file_expect_size = 1
    MaxOps = 4
INVARIANT BitmapAssertsHold
CHECK_DEADLOCK FALSE
