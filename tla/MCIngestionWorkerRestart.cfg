SPECIFICATION Spec
CONSTANTS
    NumSources = 2
    Checkpointing <- MCCheckpointing
    HistorySize = 2
    CanaryAverage = 1
    MaxListings <- MCMaxListings
    MaxCycles = 2
    MaxCrashes = 1
PROPERTIES
    SuccessHistoryKept
CHECK_DEADLOCK FALSE
