\* A ring of 4 blocks whose head may be seen inside a transaction.
CONSTANTS
    StartLpa = 1
    EndLpa = 5
    Sizes = {1, 2, 3}
    MaxTx = 4
    MaxCrash = 1
SPECIFICATION Spec
INVARIANTS
    SpaceAccounting
    RingHoldsJournals
    NotifyOnlyApplied
    CommitOrder
PROPERTY
    WritesOnlyFreeBlocks
