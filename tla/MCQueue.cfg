CONSTANTS
    a = a
    b = b
    c = c
    NoKey = NoKey
    Items <- MCItems
    DedupKey <- MCDedupKey
    Priority <- MCPriority
    MaxAttempts = 2
    LeaseTime = 1
    BackoffBase = 1
    BackoffCap = 2
    Browsers = {page}
    Buffer = 2
    MaxReplay = 3
    MaxTurns = 2
    MaxDeltas = 0
    MaxDrops = 1
    MaxEras = 0
    Hosts <- MCHosts
    Companions = {TRUE, FALSE}
    Codes = {"daemon"}
    MaxAttemptIds = 1
    MaxChecks = 0
    MaxTroubles = 1
    Threads = {thread}
    Pairings <- MCPairings
    NoPairing = NoPairing
    NoPolicy = NoPolicy
    MaxVersion = 2
    MaxGeneration = 3
    MaxFaults = 1
    ta = ta
    tb = tb
    Tenants = {ta, tb}
    NoTenant = NoTenant
    CloudAgents = {"a1", "a2"}
    Servers = {"ok", "bad"}
    Domains = {"d1", "d2"}
    Verdict <- MCVerdict
    Bundle <- MCBundle
    MaxPairs = 1
    MaxLosses = 1
SPECIFICATION MCSpec
INVARIANTS
    QueueSafe
PROPERTIES
    LeaseProtectsOwner
    
    PageFinishes
    
    DaemonSettles
    
CHECK_DEADLOCK FALSE
