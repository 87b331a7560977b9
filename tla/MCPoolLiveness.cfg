CONSTANTS
    a = a
    b = b
    v = v
    w = w
    NoKey = NoKey
    Items <- MCItems
    Workers <- MCOneWorker
    DedupKey <- MCDedupKey
    Priority <- MCPriority
    MaxAttempts = 2
    LeaseTime = 1
    BackoffBase = 1
    BackoffCap = 1
    MaxCrashes = 1
    MaxErrors = 0
    Requests = {request}
    Results = {}
    NoMessage = NoMessage
    MaxPairings = 2
    MaxLost = 1
    r1 = r1
    r2 = r2
    Order <- MCOrder
    Dead = {r1}
    SendLimit = 1
    MaxSequence = 2
    MaxMoves = 2
    MaxMisses = 1
    Timers = {t1}
    NoTimer = NoTimer
    Crons = {"a", "b", "*"}
    Wildcard = "*"
    Slots <- MCSlots
    MaxTime = 4
    MaxEdits = 2
    MaxSlips = 1
    Events = {e1, e2}
    Payers = {pa, pb}
    Unpaired = Unpaired
    MaxSwaps = 3
    MaxUnread = 2
SPECIFICATION MCSpec
INVARIANTS
    DelegationSafe
    
    UsageSafe
PROPERTIES
    
    ClaimedIsSettled
    RequestSurfaces
    AnswerReturns
    EndIsTold
    
    UsageArrives
CHECK_DEADLOCK FALSE
