CONSTANTS
    Workers = {w1, w2}
    Flows <- MCFlows
    Steps <- MCSteps
    FlowOf <- MCFlowOf
    Chain <- MCChain
    Kind <- MCKind
    Bodies <- MCBodies
    Policy <- MCPolicy
    Recovery <- MCRecoveries
    Stopping <- MCStopping
    Failing <- MCFailing
    Attempts <- MCAttempts
    Switchable = {}
    Cancellable = {}
    MaxReceive = 2
    Hops = 0
    MaxSends = 2
    MaxFaults = 0
SPECIFICATION Spec
INVARIANT BusyIsNotSkipped
CHECK_DEADLOCK FALSE
