SPECIFICATION MessagingSpec
CONSTANTS
    Predefined = {"t1"}
    Listened = {"t2"}
    ThisGroups <- MCThisGroups
    PeerGroups <- MCPeerGroups
    MaxConns = 3
    Interval = 1
    MaxTicks = 1
    WorkerBox = 1
    Prefix = 2
    Bodies = {1, 4}
    Blocks = {2, 5}
    Payloads <- MCPayloads
    Capacity = 4
    Threshold = 5
    MaxEnvelopes = 3
    Reqs = {1, 2}
    CollectAll = {1}
    Fanout = 2
    SlotBits = 1
    GenBits = 2
    GroupBits = 2
    NodeBits = 2
    Launches = {22, 29}
    HandleWorkers = {11, 12}
    RemoteGroup <- MCRemoteGroup
    LocalGroup = 2
    NetworkGroup = 1
    Routes <- MCRoutes
    Recipients = {"a", "b", "c"}
    Types = {"A", "B"}
    RawBlocks = {"p", "q", "r"}
    SlotIds = {1, 2, 3}
    MaxData = 3
    PingInterval = 2
    IdleTimeout = 5
    ControlInterval = 2
    ControlTimeout = 4
    MaxDelay = 1
    MaxSent = 1
    EndOfTime = 9
    Handlers = {"h1", "h2"}
    ActorKeys = {"x"}
    MaxCalls = 4
INVARIANTS
    ConnOwned
    RetryScheduled
    BufferSound
    
    
    
    SendOutcome
    MemorySound
    TokensCounted
    
    RoutesCurrent
PROPERTY
    FramesImplementChannel
CHECK_DEADLOCK FALSE
