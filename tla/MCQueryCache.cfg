CONSTANTS
    Key <- MCKey
    Value <- MCValue
    Size <- MCSize
    None = None
    MaxEntries = 2
    MaxMemory = 3
    Ttl = 1
    MaxNow = 2
    MaxBytes = 5
SPECIFICATION Spec
INVARIANTS
    BytesCoverHeld
    WithinLimits
    HitsAreCurrent
    RecentlyUsedStay
