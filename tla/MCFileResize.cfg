\* A cut that begins past the first index node.
SPECIFICATION Spec
CONSTANTS
    ADDRS_PER_INODE = 1
    ADDRS_PER_BLOCK = 2
    NIDS_PER_BLOCK = 2
    node_expect_size = 2
    NumNids = 40
    Sizes = {0, 12, 42}
    Pages = {1, 20}
    MaxOps = 5
    MaxRecords = 2
    ENTRIES_IN_SUM = 4
INVARIANT ResizeAssertsHold
CHECK_DEADLOCK FALSE
