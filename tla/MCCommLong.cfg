\* Two long commands, one waited for, one task id per query; the first may be refused
\* and the queries may fail.
CONSTANTS
    io1 = io1  io2 = io2  long1 = long1  long2 = long2
    Cmds = {long1, long2}
    Sync = {long1}
    Io = {}
    Long = {long1, long2}
    Query = Query
    ChannelNum = 1
    PerPoll = 1
    CqeErrors <- LongErrors
    Faults <- LongFaults
SPECIFICATION Spec
CHECK_DEADLOCK FALSE
INVARIANTS
    NoAnswerInFlight
    QueryOutstandingOnce
PROPERTIES
    ImplementsCommandService
