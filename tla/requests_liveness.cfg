SPECIFICATION FairSpec
CONSTANTS
    ReqIds = {2, 3}
    AsyncIds = {}
    BadIds = {}
    Concurrency = 1
    Timeout = TRUE
    Reconnect = TRUE
    RateLimit = 1
    RLimitAction = "drop"
    MaxPushes = 1
    MaxDials = 2
INVARIANTS
    RateLimited
PROPERTIES
    EventuallySettled
    CtxSettles
    CloseTerminates
    ShutdownCompletes
