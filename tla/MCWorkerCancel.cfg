CONSTANTS
    Workers = {w1, w2}
    Flows <- MCFlows
    Steps <- MCSteps
    FlowOf <- MCFlowOf
    Chain <- MCChain
    Kind <- MCKind
    Bodies <- MCBodies
    Policy <- MCPolicy
    Recovery <- MCRecovery
    Stopping <- MCStopping
    Failing <- MCFailing
    Attempts <- MCAttempts
    Switchable = {}
    Cancellable <- MCCancellable
    MaxReceive = 3
    Hops = 0
    MaxSends = 1
    MaxFaults = 0
SPECIFICATION Spec
PROPERTY OneSideWins
CHECK_DEADLOCK FALSE
