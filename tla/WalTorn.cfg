CONSTANTS
    Batch = {b1}
    None = None
    FileSize = 2
    SyncEnabled = TRUE
    PowerLossPossible = FALSE
    MaxAcks = 2
    MaxFaults = 1
SPECIFICATION Spec
PROPERTIES
    CrashLeavesReplayable
