\* One long command, which the SSD may refuse to start.
CONSTANTS
    io1 = io1  io2 = io2  long1 = long1  long2 = long2
    Cmds = {long1}
    Sync = {long1}
    Io = {}
    Long = {long1}
    Query = Query
    ChannelNum = 1
    PerPoll = 1
    CqeErrors <- LongErrors
    Faults = {}
SPECIFICATION Spec
CHECK_DEADLOCK FALSE
INVARIANT RefusedLongLeaves
