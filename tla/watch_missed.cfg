SPECIFICATION FairSpec
CONSTANTS
    Watchers = {w1, w2}
    w1 = w1
    w2 = w2
    None = None
    MaxVersion = 9
    MayRefuse = FALSE
    Overtakes = FALSE
    MaxDials = 1
    MaxBroadcasts = 1
PROPERTIES
    CalledWithLatest
