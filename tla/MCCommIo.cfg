\* Two I/O commands on one channel, one waited for; every driver call may fail.
CONSTANTS
    io1 = io1  io2 = io2  long1 = long1  long2 = long2
    Cmds = {io1, io2}
    Sync = {io1}
    Io = {io1, io2}
    Long = {}
    Query = Query
    ChannelNum = 1
    PerPoll = 1
    CqeErrors <- IoErrors
    Faults <- IoFaults
SPECIFICATION Spec
CHECK_DEADLOCK FALSE
INVARIANTS
    QueuesHoldLiveContexts
    ChannelsBalanced
PROPERTIES
    SessionFiniReturns
    ImplementsCommandService
