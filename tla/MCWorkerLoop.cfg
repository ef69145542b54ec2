CONSTANTS
    Workers = {w1}
    Flows <- MCLoopFlows
    Steps <- MCSteps
    FlowOf <- MCFlowOf
    Chain <- MCChain
    Kind <- MCKind
    Bodies <- MCBodies
    Policy <- MCPolicy
    Recovery <- MCNoBodies
    Stopping <- MCStopping
    Failing = {}
    Attempts <- MCAttempts
    Switchable = {}
    Cancellable = {}
    MaxReceive = 2
    Hops = 0
    MaxSends = 1
    MaxFaults = 0
SPECIFICATION Spec
INVARIANT EveryItemWalked
CHECK_DEADLOCK FALSE
