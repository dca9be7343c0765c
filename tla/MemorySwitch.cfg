CONSTANTS
    MaxAsks = 4
    MaxSessions = 2
    MaxHistory = 6
    Trigger = 4
    Keep = 2
    QaCap = 2
SPECIFICATION MemorySpec
INVARIANTS
    AnswersWhereAsked
CHECK_DEADLOCK FALSE
