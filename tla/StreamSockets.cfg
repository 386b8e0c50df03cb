SPECIFICATION FairSpec
CONSTANTS
    Sockets = {1, 2}
    Broadcasts = {1, 2}
    MaxVersion = 1
INVARIANTS
    ListIsServed
    BroadcastReachesAll
PROPERTIES
    GoneSocketsAreDropped
    LatestIsShown
