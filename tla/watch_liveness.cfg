SPECIFICATION FairSpec
CONSTANTS
    Watchers = {w1, w2}
    w1 = w1
    w2 = w2
    None = None
    MaxVersion = 9
    MayRefuse = FALSE
    Overtakes = FALSE
    MaxDials = 1
    MaxBroadcasts = 2
INVARIANTS
    Subscribed
PROPERTIES
    UnreadyEnds
    AloneCalledWithLatest
