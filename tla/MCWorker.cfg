CONSTANTS
    Workers = {w1, w2}
    Flows <- MCFlows
    Steps <- MCSteps
    FlowOf <- MCFlowOf
    Chain <- MCChain
    Kind <- MCKind
    Bodies <- MCBodies
    Policy <- MCPolicy
    Recovery <- MCRecovery
    Stopping <- MCStopping
    Failing <- MCFailing
    Attempts <- MCAttempts
    Switchable = {}
    Cancellable = {}
    MaxReceive = 2
    Hops = 1
    MaxSends = 1
    MaxFaults = 1
SPECIFICATION FairSpec
INVARIANT WorkerInv
INVARIANT HistoryTells
INVARIANT NothingLost
INVARIANT NothingParked
INVARIANT InOrder
PROPERTY ImplementsStepOnce
PROPERTY Drains
CHECK_DEADLOCK FALSE
