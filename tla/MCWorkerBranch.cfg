CONSTANTS
    Workers = {w1}
    Flows <- MCFlows
    Steps <- MCSteps
    FlowOf <- MCFlowOf
    Chain <- MCChain
    Kind <- MCKind
    Bodies <- MCBodies
    Policy <- MCPolicy
    Recovery <- MCNoBodies
    Stopping <- MCStopping
    Failing = {}
    Attempts <- MCAttempts
    Switchable = {}
    Cancellable = {}
    MaxReceive = 2
    Hops = 0
    MaxSends = 1
    MaxFaults = 1
SPECIFICATION Spec
INVARIANT StopsHold
CHECK_DEADLOCK FALSE
