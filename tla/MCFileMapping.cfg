SPECIFICATION Spec
CONSTANTS
    ADDRS_PER_INODE = 1
    ADDRS_PER_BLOCK = 2
    NIDS_PER_BLOCK = 2
    node_expect_size = 2
    NumNids = 40
    Sizes = {2, 3, 4, 12, 38}
    Pages = {2, 18}
    MaxOps = 5
    MaxRecords = 2
    ENTRIES_IN_SUM = 4
INVARIANTS AssertsHold TreeMatchesSize BlocksFound RefsAccounted NothingLeaks CleanMeansSaved
CHECK_DEADLOCK FALSE
