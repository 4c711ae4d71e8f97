SPECIFICATION ProxyPoolSpec
CONSTANTS
    NumProxies = 2
    u1 = u1
    u2 = u2
    Users = {u1, u2}
    SessionUsers = {u1}
    Direct = Direct
    MaxProxies = 2
    FailureThreshold = 2
    MaxCooldowns = 2
    Flaky = {1}
    MaxReports = 3
CHECK_DEADLOCK FALSE
PROPERTY
    DirectOnlyIfNone
