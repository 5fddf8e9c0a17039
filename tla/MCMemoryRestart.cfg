CONSTANTS
    Rollout = {1}
    Input = {1, 2}
    Note = {}
    Caller = {c1}
    Limit = {0}
    LeaseSeconds = {1}
    Retention <- MCNoRetention
    UsageId = {}
    Used <- MCNoUsed
    AllowRestart = TRUE
    TransactionChanges = 9
    MaxTokens = 3
    MaxTime = 2
    MaxClears = 0
    u1 = u1
    u2 = u2
    NoJob = NoJob
    NoSelection = NoSelection
    Idle = Idle
SPECIFICATION Spec
SYMMETRY MCCallers
CHECK_DEADLOCK FALSE
INVARIANT RestartRecovers
