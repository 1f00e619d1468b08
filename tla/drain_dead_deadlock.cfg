SPECIFICATION FairSpec
CONSTANTS
    Peer <- Peers3
    Ordinal <- Ordinal3
    Shard <- FourShards
    Points <- EqualPoints
    SizeMinDelta = 2
    RF <- RFTwo
    MaxReplicas = 3
    InitReplicas = 3
    Placements <- CrowdedPlacements
    Faults = {}
    MaxFaults = 0
    MaxEdits = 1
    MaxReshards = 0
PROPERTIES
    DeadRepaired
