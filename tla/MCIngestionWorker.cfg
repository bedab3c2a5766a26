SPECIFICATION Spec
CONSTANTS
    NumSources = 2
    Checkpointing <- MCCheckpointing
    HistorySize = 2
    CanaryAverage = 1
    MaxListings <- MCMaxListings
    MaxCycles = 2
    MaxCrashes = 1
INVARIANTS
    CheckpointCovered
    HealthyMeansCheckpointed
    FailuresAnnounced
    ZerosMatchHistory
PROPERTIES
    CycleEnds
    SyncSpec
CHECK_DEADLOCK FALSE
