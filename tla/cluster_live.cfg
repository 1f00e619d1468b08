SPECIFICATION FairSpec
CONSTANTS
    Peer <- Peers3
    Ordinal <- Ordinal3
    Shard <- ThreeAndOne
    Points <- OneLarge
    SizeMinDelta = 2
    RF <- RFTwo
    MaxReplicas = 3
    InitReplicas = 3
    Placements <- CrowdedPlacements
    Faults = {"unobservable", "partialObserve", "sizesUnread", "updateFails", "callFails", "responseLost", "commandLost", "lateStart", "transferFails", "crash"}
    MaxFaults = 2
    MaxEdits = 1
    MaxReshards = 0
INVARIANTS
    NoShardLost
PROPERTIES
    ScaleCompletes
    LaneFrees
    DeadDroppedLast
    RepairCompletes
    Rebalanced
    MoveFailedCleared
