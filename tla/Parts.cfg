SPECIFICATION PartsSpec
SYMMETRY Symmetry
CONSTANTS
    r1 = r1
    r2 = r2
    r3 = r3
    None = None
    Req = {r1, r2, r3}
    First = None
    Uploads = {r1}
    Limits = {1}
    MaxPending = 2
    CmdCap = 1
    FrameKinds = {"settings", "window_update", "reset"}
    N = 2
    Body <- Bodies
    DefaultWindow = 2
    MaxWindow = 4
    InitialSizes = {0, 1, 3}
    Increments = {0, 2}
    NumProxies = 2
    u1 = u1
    u2 = u2
    Users = {u1, u2}
    SessionUsers = {u1}
    Direct = Direct
    MaxProxies = 2
    FailureThreshold = 2
    MaxCooldowns = 2
    Flaky = {1}
    MaxReports = 3
    NumAddresses = 4
    Delay = 2
    MaxSerial = 3
    Timeouts = {7, 20}
    Latency = 2
    Ways <- Chains
    MaxHops = 3
    StaticTable <- Static
    Weight <- Weights
    DefaultTable = 2
    FieldLists <- Lists
    TableSizes = {0, 1, 3}
    Policies <- Indexings
    FrameSize = 2
    PriorityRoom = 1
    MaxSettings = 2
    MaxBlocks = 3
    HeaderStreams = {1, 3}
    ProfileTables = {1, 3}
    MaxHeaderBlock = 3
    MaxContinuations = 1
    MaxHeaderList = 3
    CutSets = {{}, {1}, {1, 2}}
    MaxAnswers = 3
    MaxUnread = 1
    Reads = {rd1, rd2}
    Others = {x}
    Kinds = {"preconnect", "proxy", "probe"}
    Sleepers = {w}
    Nobody = Nobody
    MaxOutstanding = 2
    Chunks = 1
CHECK_DEADLOCK FALSE
INVARIANTS
    QueueSound
    UploadSound
    ConnWindowExact
    HeadersReadRight
    ProxiesAccounted
    DialSound
    TunnelSound
    OutstandingExact
    SleepersWillWake
    ReadsSound
PROPERTIES
    ProxyChosenWell
    SettledOnce
