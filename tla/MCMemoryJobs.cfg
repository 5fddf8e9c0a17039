CONSTANTS
    Rollout = {1, 2}
    Input = {1, 2}
    Note = {1}
    Caller = {c1, c2}
    Limit = {0}
    LeaseSeconds = {1}
    Retention <- MCRetention
    UsageId = {u1, u2}
    Used <- MCUsed
    AllowRestart = TRUE
    TransactionChanges = 9
    MaxTokens = 3
    MaxTime = 2
    MaxClears = 1
    u1 = u1
    u2 = u2
    NoJob = NoJob
    NoSelection = NoSelection
    Idle = Idle
SPECIFICATION Spec
CONSTRAINT Followed
SYMMETRY MCCallers
CHECK_DEADLOCK FALSE
INVARIANTS
    TypeOK
    PairsMoveTogether
    OutputMatchesInput
    NoLostWakeup
    NoLostUsage
PROPERTIES
    OutputsNeverRegress
    FreshUnlessClaimed
    ClearFencesWorkers
