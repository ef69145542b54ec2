CONSTANTS
    Fires = {f1, f2}
    Scheduled = f1
    Items = 1
    PageSize = 1
    Recycled = 0
    MaxItems = 1
    WorkflowOf <- MCFilterFlows
    Stopping = {1}
    MaxFaults = 1
    MaxOps = 0
SPECIFICATION PollSpec
INVARIANT FilterHolds
