SPECIFICATION SessionSpec
CONSTANTS
    Foci = {"handshake"}
    Configs <- MCConfigs
    MaxRecords = 4
    MaxInbox = 2
    MaxExtras = 0
    MaxServerRecords = 3
    MaxWrites = 3
    MaxWriteBuf = 2
    Hosts = {h1, h2}
    MaxTickets = 2
    MaxStored = 4
    asker = asker
    forcer = forcer
    Tasks = {asker, forcer}
    Wants <- WantsOf
    socks = socks
    socks5h = socks5h
    Routes = {socks, socks5h}
    Socks = {socks, socks5h}
    HttpProxies = {}
    Origins = {o}
    Enabled = TRUE
    MaxBroken = 1
    MaxBrokenRoutes = 1
    InitialCooldown = 1
    MaxCooldown = 2
    Threshold = 2
    RouteCooldown = 1
    AltSvcAge = 1
CHECK_DEADLOCK FALSE
INVARIANT
    DoneAnswered
