SPECIFICATION ArbiterSpec
CONSTANTS
    Process = {p1, p2, p3}
    Caller = {c1, c2}
    Issued = {0, 1, 2}
    MaxLeases = 2
    NoOne = NoOne
SYMMETRY Symmetry
INVARIANTS
    OneCommander
    AuditCounts
    NoOrphanLock
CHECK_DEADLOCK FALSE
