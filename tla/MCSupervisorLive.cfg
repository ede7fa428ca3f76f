SPECIFICATION FairSpec
CONSTANTS
    k1 = k1
    k2 = k2
    a1 = a1
    a2 = a2
    a3 = a3
    c1 = c1
    Configurer = Configurer
    InitActor = InitActor
    None = None
    Keys <- OneKey
    Addrs <- ThreeAddrs
    Callers <- OneCaller
    Policies <- AllPolicies
    MaxRetries = 1
    ClosesMailbox = FALSE
    MultiThread = FALSE
    Resizes = TRUE
    MaxConfigs = 2
PROPERTIES
    AllEnds
