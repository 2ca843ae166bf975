SPECIFICATION Spec
CONSTANTS
    Watchers = {w1, w2}
    w1 = w1
    w2 = w2
    None = None
    MaxVersion = 2
    MayRefuse = TRUE
    Overtakes = TRUE
    MaxDials = 2
    MaxBroadcasts = 1
SYMMETRY WatcherSymmetry
INVARIANTS
    WatchMapConsistent
