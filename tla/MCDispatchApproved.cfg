SPECIFICATION DispatchSpec
CONSTANTS
    p = p
    q = q
    chat = chat
    talk = talk
    job = job
    NoTask = NoTask
    NoAction = NoAction
    Actions <- MCOneAction
    Tasks <- MCOneJob
    Chats <- MCNone
    Risky <- MCOneAction
    Enterprise <- MCNone
    MaxTries = 2
    MaxMints = 1
    MaxRestarts = 0
    MaxAttempts = 2
    MaxTodo = 1
    MaxFailures = 0
INVARIANTS
    ApprovedIsNotTurnedAway
CHECK_DEADLOCK FALSE
