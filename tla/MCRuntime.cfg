SPECIFICATION RuntimeSpec
CONSTANTS
    Sources = {1, 2}
    SourceKinds <- MCSources
    Periods = {1, 2}
    MaxLag = 1
    BoxSize = 1
    Mails = {"message", "Ping", "Terminate", "UpdateConfig"}
    Actors = {"a", "b"}
    Tasks = {"t", "u"}
    Subscribers = {"x"}
    Statuses = {"Initializing", "Normal", "Terminated"}
    MaxSets = 2
    Groups = {"a", "configurers"}
    StopOrder <- MCStopOrder
    Configurers = "configurers"
    Contents = {"x", "y"}
    MaxWrites = 1
    Shards = {1, 2}
    PartCapacity = 2
    Capacities = {1, 4}
    ChunkSize = 1
    MaxDumps = 2
    MaxFailures = 1
    Meters = {1, 2}
    Values = {5}
    MaxUpdates = 2
    Threads = {"t", "u"}
    PoolIds = {"i", "j"}
    Spans = {1}
    Texts <- MCTexts
    Meta <- MCMeta
    Fields <- MCFields
    MarkerSize = 2
    ChannelSize = 1
    LineSizes = {1, 6}
    MaxEvents = 2
    MaxText = 3
    Limits <- MCLimits
    Acquirers = {1, 2}
    MinStep = 2
    MaxStep = 3
    MaxPeriod = 3
    Disabled = 99
    Horizon = 2
    Names = {"big", "bad"}
    DumpShapes <- MCDumpShapes
    RuleLists <- MCRuleLists
    ThisClass = "c"
    ChunkLimit = 5
    MaxTaken = 4
    Checkers = {"k1", "k2"}
    Classes = {"c1"}
    LogLevels = {0, 1}
    SystemConfigs <- MCSystemConfigs
    TargetLevels = {0, 1}
    MaxConfigs = 2
    Generators = {"t", "u"}
    CounterMax = 2
    ChunkCount = 2
    TimeMod = 4
    NodeMod = 2
    ThisNode = 1
    StartTimes = {5}
    MaxTime = 8
    MaxChunks = 3
    Pollers = {1, 2, 3}
    TlsSlots = {1, 2}
    Polled = {"a"}
    MaxCount = 1
    EpochMod = 3
    MaxPolls = 3
    Locals <- MCLocals
    Self = "pingers"
    MaxTicks = 10
INVARIANTS
    NoLostTick
    StatusTold
    
    
    DumpsKept
    MetricsExact
    LogConserved
    
    RateBounded
    VerdictCurrent
    
    
    AlarmTrue
    DumpsReported
CHECK_DEADLOCK FALSE
