CONSTANTS
    Batch = {b1, b2}
    None = None
    FileSize = 2
    SyncEnabled = TRUE
    PowerLossPossible = TRUE
    MaxAcks = 2
    MaxFaults = 2
SPECIFICATION LiveSpec
INVARIANTS
    TypeOK
    AckedInWal
    AckOrder
    WriterConsistent
PROPERTIES
    OnlyAppends
    Progress
    ImplementsAckedLog
