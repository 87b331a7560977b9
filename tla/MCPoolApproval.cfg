CONSTANTS
    a = a
    b = b
    v = v
    w = w
    NoKey = NoKey
    Items <- MCItems
    Workers <- MCOneWorker
    DedupKey <- MCDedupKey
    Priority <- MCPriority
    MaxAttempts = 2
    LeaseTime = 1
    BackoffBase = 1
    BackoffCap = 1
    MaxCrashes = 0
    MaxErrors = 0
SPECIFICATION FairPoolSpec
PROPERTIES
    ApprovedIsReclaimed
CHECK_DEADLOCK FALSE
