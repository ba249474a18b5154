\* A ring of 3 blocks whose head may be seen inside a transaction.
CONSTANTS
    StartLpa = 1
    EndLpa = 4
    Sizes = {1, 2}
    MaxTx = 2
    MaxCrash = 0
SPECIFICATION Spec
INVARIANT IdleMeansReported
