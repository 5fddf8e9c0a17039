CONSTANTS
    Rollout = {1}
    Input = {1, 2}
    Note = {1}
    Caller = {c1}
    Limit = {0}
    LeaseSeconds = {1}
    Retention <- MCNoRetention
    UsageId = {}
    Used <- MCNoUsed
    AllowRestart = FALSE
    TransactionChanges = 9
    MaxTokens = 3
    MaxTime = 2
    MaxClears = 0
    u1 = u1
    u2 = u2
    NoJob = NoJob
    NoSelection = NoSelection
    Idle = Idle
SPECIFICATION Spec
CHECK_DEADLOCK FALSE
PROPERTY ConsolidationFresh
