SPECIFICATION FairSpec
CONSTANTS
    Point <- Points3
    Batch = 2
    ShardNumber = {1, 2}
    InitColls <- UsedServer
    Faults = {"callFails", "aliasCallFails", "deleteFails", "updateFails"}
    MaxFaults = 2
    MaxEdits = 1
    MaxWrites = 1
    MaxMoves = 1
    EditPhases = {"None", "Preparing", "Copying", "Swapping", "Finalizing", "Failed", "Blocked"}
    WritePhases = {"None", "Finalizing"}
PROPERTIES
    Converges
    DeletionEnds
CHECK_DEADLOCK FALSE
