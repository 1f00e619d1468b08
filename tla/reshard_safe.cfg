SPECIFICATION Spec
CONSTANTS
    Point <- Points3
    Batch = 2
    ShardNumber = {1, 2}
    InitColls <- AnyServer
    Faults = {"callFails", "deleteFails", "updateFails", "clusterGone"}
    MaxFaults = 2
    MaxEdits = 1
    MaxWrites = 1
    MaxMoves = 1
    EditPhases = {"None", "Preparing", "Copying", "Failed"}
    WritePhases = {"None", "Preparing", "Finalizing"}
INVARIANTS
    TypeOK
PROPERTIES
    Implements
    AliasKept
CHECK_DEADLOCK FALSE
