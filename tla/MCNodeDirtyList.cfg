\* One file, written back, changed again and deleted.
SPECIFICATION Spec
CONSTANTS
    ADDRS_PER_INODE = 1
    ADDRS_PER_BLOCK = 2
    NIDS_PER_BLOCK = 2
    node_expect_size = 2
    NumNids = 40
    Sizes = {2}
    Pages = {0}
    MaxOps = 5
    MaxRecords = 2
    ENTRIES_IN_SUM = 4
INVARIANT DirtyListExact
CHECK_DEADLOCK FALSE
