SPECIFICATION DispatchSpec
CONSTANTS
    p = p
    q = q
    chat = chat
    talk = talk
    job = job
    NoTask = NoTask
    NoAction = NoAction
    Actions <- MCTwoActions
    Tasks <- MCOneJob
    Chats <- MCNone
    Risky <- MCOneAction
    Enterprise <- MCNone
    MaxTries = 2
    MaxMints = 1
    MaxRestarts = 1
    MaxAttempts = 2
    MaxTodo = 1
    MaxFailures = 1
INVARIANTS
    AtMostOnce
CHECK_DEADLOCK FALSE
