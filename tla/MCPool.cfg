CONSTANTS
    a = a
    b = b
    v = v
    w = w
    NoKey = NoKey
    Items <- MCItems
    Workers <- MCWorkers
    DedupKey <- MCDedupKey
    Priority <- MCPriority
    MaxAttempts = 2
    LeaseTime = 1
    BackoffBase = 1
    BackoffCap = 1
    MaxCrashes = 1
    MaxErrors = 1
    Callers = {w1, w2}
    SshThreads = {ssh}
    MaxEntries = 4
    MaxMishaps = 2
    va = va
    vb = vb
    Frames = {f1, f2}
    Argvs = {va, vb}
    NoArgv = NoArgv
    NoFrame = NoFrame
    Seed = va
    VerdictOf <- MCVerdictOf
    MaxClients = 4
    MaxCalls = 3
    MaxMcpFaults = 1
SPECIFICATION MCSpec
SYMMETRY WorkerSymmetry
INVARIANTS
    PoolSafe
    
    
    
PROPERTIES
    ImplementsQueue
CHECK_DEADLOCK FALSE
