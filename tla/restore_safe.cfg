SPECIFICATION RestoreSpec
CONSTANTS
    Listings <- TwoListed
    Replicas = 2
    Keeps = {0, 1}
    Schedules = {"none"}
    Faults = {"callFails", "pruneFails", "snapshotLost"}
    MaxFaults = 2
    MaxEdits = 1
    MaxSnapshots = 12
    MaxGenerations = 2
    RestoreCollection = 1
    Sources <- NoSources
    StorageS3 = FALSE
    RestoreEarly = FALSE
INVARIANTS
    RestoreTypeOK
    RestoreWhole
    RestoredOnce
    OneAtATime
    RecordedExist
PROPERTIES
    NothingWasted
