SPECIFICATION FairSpec
CONSTANTS
    InitAddrs <- MCInitAddrs
    Discovered <- MCDiscovered
    Reconnect = TRUE
    MaxFaults = 2
    MaxConns = 7
    MaxEvents = 2
    None = None
CHECK_DEADLOCK FALSE
INVARIANTS
    CurrentNotNil
    ConnectionsKept
PROPERTIES
    Settles
