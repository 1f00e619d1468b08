SPECIFICATION FairSpec
CONSTANTS
    MaxReplicas = 3
    InitSizes = {1, 3}
    Templates = 3
    BadTemplates = {3}
    Edits = {"replicas", "template", "guard", "delete"}
    Faults = {"nodeDown", "unobservable", "callFails", "cacheLag", "lateAnswer", "deadReplica"}
    MaxEvents = 2
    MaxMoves = 1
INVARIANTS
    TypeOK
PROPERTIES
    AdvanceGated
    NeverTruncated
    RolloutCompletes
    StrandedReplaced
    GaugeFollows
CHECK_DEADLOCK FALSE
