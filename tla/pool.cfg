SPECIFICATION FairSpec
CONSTANTS
    Addrs = {"a1", "a2"}
    Watchers = {"wrw"}
    ModeOf <- MCModeOf
    Reconnect = TRUE
    Refuses = TRUE
    MaxFaults = 2
    None = None
CHECK_DEADLOCK FALSE
INVARIANTS
    HandlersPaired
    RoutedToDiscovered
    NoLeakedConnection
    WatchersFollow
PROPERTIES
    Settles
