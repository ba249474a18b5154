\* Two threads reading one file, its cache over its size.
SPECIFICATION Spec
CONSTANTS
    Threads = {t1, t2}
    Fds = {f, g}
    AppendFds = {}
    ReadOnlyFds = {f, g}
    NoThread = nobody
    NumBlocks = 3
    MaxCount = 2
    MaxOps = 3
    expect_size = 1
INVARIANT NoFreedPageUsed
CHECK_DEADLOCK FALSE
