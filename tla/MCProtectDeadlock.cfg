\* Three transactions outstanding: the waiting thread, the server thread and
\* the journal thread wait for one another.
CONSTANTS
    a1 = a1
    Api = {a1}
    MaxTx = 5
    MaxOutstanding = 3
SPECIFICATION Spec
PROPERTY
    WaitReturns
CHECK_DEADLOCK FALSE
