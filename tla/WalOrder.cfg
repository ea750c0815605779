CONSTANTS
    Batch = {b1}
    None = None
    FileSize = 1
    SyncEnabled = TRUE
    PowerLossPossible = FALSE
    MaxAcks = 4
    MaxFaults = 0
SPECIFICATION Spec
INVARIANTS
    ReplayInOrder
