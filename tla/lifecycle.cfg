SPECIFICATION FairSpec
CONSTANTS
    Users = {"u1"}
    ReconnectOpts = {TRUE, FALSE}
    MaxReconnects = 0
    Watchable = TRUE
    MayRefuse = TRUE
    MaxDials = 2
    MaxShutdowns = 1
INVARIANTS
    StateConsistent
    SomebodyReconnects
PROPERTIES
    CloseIsFinal
    ShutdownWakes
