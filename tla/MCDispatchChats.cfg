CONSTANTS
    p = p
    q = q
    chat = chat
    talk = talk
    job = job
    NoTask = NoTask
    NoAction = NoAction
    Actions <- MCOneAction
    Tasks <- MCTwoChats
    Chats <- MCTwoChats
    Risky <- MCOneAction
    Enterprise <- MCNone
    MaxTries = 2
    MaxMints = 1
    MaxRestarts = 0
    MaxAttempts = 1
    MaxTodo = 1
    MaxFailures = 0
    Threads = {thread}
    Pairings <- MCPairings
    NoPairing = NoPairing
    NoPolicy = NoPolicy
    MaxVersion = 2
    MaxGeneration = 4
    MaxFaults = 1
    ta = ta
    tb = tb
    Tenants = {ta, tb}
    NoTenant = NoTenant
    CloudAgents = {"a1", "a2"}
    Servers = {"ok", "bad"}
    Domains = {"d1", "d2"}
    Verdict <- MCVerdict
    Bundle <- MCBundle
    MaxPairs = 2
    MaxLosses = 1
    Requests = {request}
    Results = {result}
    NoMessage = NoMessage
    MaxPairings = 1
    MaxLost = 1
SPECIFICATION MCSpec
INVARIANTS
    DispatchSafe
    NoLostApproval
    AuthoritySafe
    
    DelegationSafe
PROPERTIES
    LossIsFinal
CHECK_DEADLOCK FALSE
