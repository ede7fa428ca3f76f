SPECIFICATION FairSpec
CONSTANTS
    k1 = k1
    k2 = k2
    a1 = a1
    a2 = a2
    a3 = a3
    c1 = c1
    Configurer = Configurer
    InitActor = InitActor
    None = None
    Keys <- OneKey
    Addrs <- TwoAddrs
    Callers <- OneCaller
    Policies <- NoRestarts
    MaxRetries = 1
    ClosesMailbox = FALSE
    MultiThread = TRUE
    Resizes = TRUE
    MaxConfigs = 2
CHECK_DEADLOCK FALSE
PROPERTY CallEnds
