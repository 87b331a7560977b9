CONSTANTS
    p = p
    q = q
    t = t
    NoTask = NoTask
    NoAction = NoAction
    Actions <- MCActions
    Tasks <- MCTasks
    Enterprise <- MCEnterprise
    MaxTries = 1
    MaxMints = 2
    MaxRestarts = 1
    MaxAttempts = 2
    MaxRequests = 2
    MaxRows = 2
SPECIFICATION MCSpec
INVARIANTS
    GateSafe
    RemoteSafe
PROPERTIES
    LiveApprovalStands
    BreakerIsFinal
CHECK_DEADLOCK FALSE
