CONSTANTS
    Workers = {w1, w2}
    Flows <- MCPost
    Steps <- MCSteps
    FlowOf <- MCFlowOf
    Chain <- MCChain
    Kind <- MCKind
    Bodies <- MCBodies
    Policy <- MCPolicy
    Recovery <- MCRecovery
    Stopping <- MCStopping
    Failing <- MCFailing
    Attempts <- MCAttempts
    Switchable = {}
    Cancellable = {}
    MaxReceive = 2
    Hops = 0
    MaxSends = 1
    MaxFaults = 0
SPECIFICATION Spec
INVARIANT InboxTells
CHECK_DEADLOCK FALSE
