SPECIFICATION Spec
CONSTANTS
    Point <- Points3
    Batch = 2
    ShardNumber = {1, 2}
    InitColls <- PopulatedServer
    Faults = {"aliasCallFails"}
    MaxFaults = 1
    MaxEdits = 1
    MaxWrites = 0
    MaxMoves = 0
    EditPhases = {"None", "Preparing", "Copying", "Failed"}
    WritePhases = {"None", "Finalizing"}
PROPERTIES
    AliasKept
CHECK_DEADLOCK FALSE
