SPECIFICATION FairSpec
CONSTANTS
    Peer <- Peers3
    Ordinal <- Ordinal3
    Shard <- TwoCollections
    Points <- EqualPoints
    SizeMinDelta = 2
    RF <- RFMixed
    MaxReplicas = 3
    InitReplicas = 2
    Placements <- AllPlacements
    Faults = {}
    MaxFaults = 0
    MaxEdits = 1
    MaxReshards = 1
PROPERTIES
    ScaleCompletes
