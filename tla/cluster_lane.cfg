SPECIFICATION Spec
CONSTANTS
    Peer <- Peers3
    Ordinal <- Ordinal3
    Shard <- TwoCollections
    Points <- EqualPoints
    SizeMinDelta = 2
    RF <- RFMixed
    MaxReplicas = 3
    InitReplicas = 2
    Placements <- AllPlacements
    Faults = {"unobservable", "rfUnread", "sizesUnread", "uriUnread", "listUnread", "updateFails", "callFails", "commandLost", "transferFails", "replicaDies", "crash"}
    MaxFaults = 2
    MaxEdits = 2
    MaxReshards = 1
INVARIANTS
    TypeOK
    CommandTracked
    SingleLane
    BackoffVisible
    NoShardLost
PROPERTIES
    DryRunInert
    ShrinkKeepsData
