CONSTANTS
    Batch <- PlainBatch
    None = None
    nan = nan
    NotFinite = {nan}
    FileSize = 2
    SyncEnabled = TRUE
    PowerLossPossible = FALSE
    MaxAcks = 2
    MaxFaults = 0
    MaxSize = 2
    MaxTssp = 4
    MaxDrops = 1
    MaxTsspFaults = 0
SPECIFICATION EngineSpec
PROPERTIES
    DeleteIsExact
