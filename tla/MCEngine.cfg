CONSTANTS
    Batch <- MCBatch
    None = None
    nan = nan
    NotFinite = {nan}
    FileSize = 1
    SyncEnabled = TRUE
    PowerLossPossible = FALSE
    MaxAcks = 3
    MaxFaults = 1
    MaxSize = 2
    MaxTssp = 4
    MaxDrops = 1
    MaxTsspFaults = 1
SPECIFICATION EngineSpec
INVARIANTS
    FreshRead
    NothingBeyondLog
    IndexCoversMem
    MetasAccurate
PROPERTIES
    LiveFilesImmutable
