SPECIFICATION Spec
CONSTANTS
    Threads = {t1, t2}
    Fds = {f, g}
    AppendFds = {g}
    ReadOnlyFds = {}
    NoThread = nobody
    NumBlocks = 3
    MaxCount = 2
    MaxOps = 3
    expect_size = 1
INVARIANTS HeldPagesStay WrittenIsKept FsyncSaves ReadsDoNotTear AppendsNeverOverwrite
PROPERTY CallsReturn
CHECK_DEADLOCK FALSE
