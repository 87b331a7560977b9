CONSTANTS
    p = p
    q = q
    t = t
    NoTask = NoTask
    NoAction = NoAction
    Actions <- MCActions
    Tasks <- MCTasks
    Enterprise <- MCEnterprise
    MaxTries = 2
    MaxMints = 1
    MaxRestarts = 0
SPECIFICATION GateSpec
INVARIANT
    CardReappears
CHECK_DEADLOCK FALSE
