CONSTANTS
    Workers = {w1, w2}
    Flows <- MCFlows
    Steps <- MCSteps
    FlowOf <- MCFlowOf
    Chain <- MCChain
    Kind <- MCKind
    Bodies <- MCBodies
    Policy <- MCPolicy
    Recovery <- MCRecovery
    Stopping = {}
    Failing <- MCFailing
    Attempts <- MCAttempts
    Root <- MCRoot
    Switchable = {"wait"}
    Cancellable = {"wait"}
    MaxReceive = 2
    Hops = 0
    MaxSends = 2
    MaxFaults = 0
SYMMETRY Symmetry
SPECIFICATION Spec
INVARIANT CarriedOn
INVARIANT NothingParked
INVARIANT NothingLost
PROPERTY RowKeepsUp
CHECK_DEADLOCK FALSE
