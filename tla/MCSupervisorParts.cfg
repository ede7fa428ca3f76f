SPECIFICATION PartsSpec
CONSTANTS
    k1 = k1
    k2 = k2
    a1 = a1
    a2 = a2
    a3 = a3
    c1 = c1
    Configurer = Configurer
    InitActor = InitActor
    None = None
    Keys <- OneKey
    Addrs <- TwoAddrs
    Callers <- OneCaller
    Policies <- AllPolicies
    MaxRetries = 1
    ClosesMailbox = TRUE
    MultiThread = TRUE
    Resizes = FALSE
    MaxConfigs = 1
INVARIANTS
    OneRunning
    OneThreadKeysOwned
    
    OneThreadTerminationSound
