CONSTANTS
    Resetters = {r1, r2}
    MaxSubmits = 3
    MaxResets = 2
    MaxFaults = 1
    QaCap = 2
SPECIFICATION FairSpec
INVARIANTS
    IInv
    LogOrdered
    ClearedStaysClear
    NothingStranded
PROPERTIES
    OrderedSpec
    EverySeqSettles
CHECK_DEADLOCK FALSE
