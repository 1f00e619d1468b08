SPECIFICATION FairSpec
CONSTANTS
    Peer <- Peers2
    Ordinal <- Ordinal2
    Shard <- FourShards
    Points <- SkewedPoints
    SizeMinDelta = 2
    RF <- RFOne
    MaxReplicas = 2
    InitReplicas = 2
    Placements <- SkewedPlacement
    Faults = {}
    MaxFaults = 0
    MaxEdits = 0
    MaxReshards = 0
PROPERTIES
    Rebalanced
