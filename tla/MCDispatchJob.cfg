CONSTANTS
    p = p
    q = q
    chat = chat
    talk = talk
    job = job
    NoTask = NoTask
    NoAction = NoAction
    Actions <- MCTwoActions
    Tasks <- MCOneJob
    Chats <- MCNone
    Risky <- MCOneAction
    Enterprise <- MCNone
    MaxTries = 2
    MaxMints = 2
    MaxRestarts = 1
    MaxAttempts = 3
    MaxTodo = 1
    MaxFailures = 1
    Browsers = {page}
    Buffer = 3
    MaxReplay = 3
    MaxTurns = 2
    MaxDeltas = 1
    MaxDrops = 1
    MaxEras = 1
    Hosts <- MCHosts
    Companions = {TRUE}
    Codes = {"daemon"}
    MaxAttemptIds = 2
    MaxChecks = 1
    MaxTroubles = 1
    Timers = {t1, t2}
    NoTimer = NoTimer
    Crons = {"a", "b", "*"}
    Wildcard = "*"
    Slots <- MCSlots
    MaxTime = 3
    MaxEdits = 1
    MaxSlips = 1
SPECIFICATION MCSpec
INVARIANTS
    AtMostOnceUntilFailure
    ExecutedIsTrue
    EffectsNeedApprovals
    StreamSafe
    
    
CHECK_DEADLOCK FALSE
