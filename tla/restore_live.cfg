SPECIFICATION RestoreFairSpec
CONSTANTS
    Listings <- OneListing
    Replicas = 2
    Keeps = {0}
    Schedules = {"none"}
    Faults = {"clusterMissing", "callFails", "responseLost", "updateFails", "snapshotLost", "slow"}
    MaxFaults = 2
    MaxEdits = 1
    MaxSnapshots = 8
    MaxGenerations = 1
    RestoreCollection = 1
    Sources <- NoSources
    StorageS3 = FALSE
    RestoreEarly = TRUE
PROPERTIES
    RestoreEnds
