SPECIFICATION Spec
CONSTANTS
    ReqIds = {2, 3, 4}
    AsyncIds = {2}
    BadIds = {4}
    Concurrency = 1
    Timeout = TRUE
    Reconnect = TRUE
    RateLimit = 1
    RLimitAction = "wait"
    MaxPushes = 1
    MaxDials = 2
CHECK_DEADLOCK FALSE
INVARIANTS
    SoleOwner
    NoLostFuture
    NoPanic
    CounterAccounting
    GracefulDrain
    AnsweredLeavesQueue
    UnusableQueueEmpty
