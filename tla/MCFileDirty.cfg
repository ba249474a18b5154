\* Two threads on a file, one writing back.
SPECIFICATION Spec
CONSTANTS
    Threads = {t1, t2}
    Fds = {f, g}
    AppendFds = {g}
    ReadOnlyFds = {g}
    NoThread = nobody
    NumBlocks = 2
    MaxCount = 1
    MaxOps = 3
    expect_size = 2
INVARIANT DirtyFilesAgree
CHECK_DEADLOCK FALSE
