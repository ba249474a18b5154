\* Three API transactions, at most two of them outstanding at a time.
CONSTANTS
    a1 = a1
    a2 = a2
    Api = {a1, a2}
    MaxTx = 5
    MaxOutstanding = 2
SPECIFICATION Spec
INVARIANTS
    ProtectionAccounted
    SearchSeesAppliedJournals
    FiniLeavesNothing
PROPERTIES
    WaitReturns
    FiniReturns
