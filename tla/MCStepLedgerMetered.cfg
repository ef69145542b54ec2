CONSTANTS
    plain = plain
    open = open
    Steps <- MCSteps
    Workers = {w1, w2}
    Handled <- MCOpen
    Pausing <- MCOpen
    Reusable <- MCOpen
    Metered <- MCSteps
    Lease = 1
    Timeout = 1
    Horizon = 4
SPECIFICATION Spec
PROPERTY FinishedIsDeduped
CHECK_DEADLOCK FALSE
