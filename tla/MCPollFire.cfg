CONSTANTS
    Fires = {f1, f2}
    Scheduled = f1
    Items = 3
    PageSize = 2
    Recycled = 1
    MaxItems = 1
    WorkflowOf <- MCFlows
    Stopping = {1}
    MaxFaults = 1
    MaxOps = 1
SPECIFICATION PollSpec
INVARIANT PollInv
INVARIANT NothingSkipped
PROPERTY EveryItemRuns
