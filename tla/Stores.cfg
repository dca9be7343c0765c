SPECIFICATION StoresSpec
CONSTANTS
    Threads = {t1, t2}
    Connections = {c1}
    MaxReviews = 2
    MaxCrashes = 1
    MaxAsks = 4
    MaxSessions = 2
    MaxHistory = 6
    Trigger = 4
    Keep = 2
    QaCap = 2
SYMMETRY ThreadSymmetry
CHECK_DEADLOCK FALSE
INVARIANTS
    ConnectorInv
    AtMostOnce
    AuditTruth
    OrphansVisible
    WithdrawalWins
    MemoryInv
PROPERTIES
    WriteSpec
    MemoGrows
    RollbackOnlyOwn
    EverySessionOrdered
