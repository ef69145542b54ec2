CONSTANTS
    Browsers = {p1, p2}
    Clients = {p1, p2}
    Bearers = {t1, t2, t3}
    Budget = 2
    Keys = {p1, p2}
    Requests = {p1, p2}
    WrapperOf <- MCWrapperOf
    MaxTries = 2
    MaxHookFaults = 2
    Refreshers = {p1, p2}
    MaxIssued = 3
    MaxVersion = 2
    MaxEnds = 1
    MaxConsents = 1
    MaxLost = 1
    Editors = {p1, p2}
    Failers = {p1, p2}
    Threshold = 2
    KeptVersions = 2
    MaxRevision = 3
    MaxFails = 3
    MaxCalls = 3
    MaxKills = 1
    Slots = 3
    Shift = 1
    Offsets <- MCOffsets
    LastMoment = 8
    Files = {a, b}
    Resolvers = {p1, p2}
    DeltaSize = 1
    MaxChanges = 3
    MaxResets = 1
    MaxBreaks = 1
    Callers = {p1, p2}
    Expressions = {hourly, daily}
    MaxCommands = 4
    MaxOutages = 2
    Hands = {p1, p2}
    Cap = 2
    MaxAdds = 5
    MaxFlushes = 2
    MaxBroken = 1
    FailedRuns = {t1, t2, t3}
    Parked = {t2, t3}
    NoKey = NoKey
    Reporters = {p1, p2}
    MaxReports = 3
    MaxMishaps = 2
SYMMETRY Symmetry
SPECIFICATION Spec
INVARIANT ControlTypeOK
INVARIANT GrantInv
INVARIANT OneHeir
INVARIANT OwnedByApprover
INVARIANT EffectOnce
INVARIANT AcceptedIsServed
INVARIANT FailedIsRetryable
INVARIANT RevokedStaysEmpty
INVARIANT StoredTokenWorks
INVARIANT SwitchHolds
INVARIANT VersionsKept
INVARIANT StreakCountsEvents
INVARIANT DaysMatch
INVARIANT FiresInOrder
INVARIANT PassedIsPublished
INVARIANT StoredFires
INVARIANT NothingDropped
INVARIANT CapHolds
INVARIANT OneMail
INVARIANT FailedIsTold
PROPERTY DecisionStands
CHECK_DEADLOCK FALSE
