SPECIFICATION FairSpec
CONSTANTS
    Listings <- OneOrNone
    Replicas = 2
    Keeps = {0, 1}
    Schedules = {"none", "cron", "invalid"}
    Faults = {"clusterMissing", "callFails", "responseLost", "pruneFails", "updateFails", "snapshotLost", "slow", "foreign"}
    MaxFaults = 2
    MaxEdits = 1
    MaxSnapshots = 8
    MaxGenerations = 2
INVARIANTS
    TypeOK
PROPERTIES
    HonestSuccess
    GenerationEnds
    BackupMade
