CONSTANTS
    plain = plain
    open = open
    Steps <- MCSteps
    Workers = {w1, w2}
    Handled <- MCOpen
    Pausing <- MCOpen
    Reusable <- MCOpen
    Metered <- MCOpen
    Lease = 1
    Timeout = 1
    Horizon = 4
SYMMETRY Symmetry
SPECIFICATION Spec
INVARIANT LedgerInv
INVARIANT MutualExclusion
INVARIANT PassedFinished
PROPERTY FinishedForGood
PROPERTY ImplementsStepOnce
CHECK_DEADLOCK FALSE
