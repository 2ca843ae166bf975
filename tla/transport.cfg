SPECIFICATION FairSpec
CONSTANTS
    ReqIds = {2, 3}
    Concurrency = 1
    MaxDials = 2
CHECK_DEADLOCK FALSE
INVARIANTS
    ShardsAnnounced
    SentOnce
PROPERTIES
    EventuallyOut
