CONSTANTS
    n1 = n1
    n2 = n2
    n3 = n3
    Node <- MCNode
    Thread = {t1, t2}
    Quorum <- MCQuorum
    VoteRequest <- MCVoteRequest
    AppendRequest <- MCAppendRequest
    LogEntry <- MCLogEntry
    None = None
    MaxTerm = 2
    MaxOps = 4
SPECIFICATION Spec
INVARIANTS
    AtMostOneElected
PROPERTIES
    EntriesArrive
