\* One thread that writes, truncates and writes back.
SPECIFICATION Spec
CONSTANTS
    Threads = {t1}
    Fds = {f}
    AppendFds = {}
    ReadOnlyFds = {}
    NoThread = nobody
    NumBlocks = 2
    MaxCount = 1
    MaxOps = 3
    expect_size = 2
INVARIANT AddressAssertsHold
CHECK_DEADLOCK FALSE
