SPECIFICATION CaptureSpec
CONSTANTS
    Callers = {a, b}
    MaxCalls = 3
    MaxWorkers = 2
    MaxSegs = 2
    SegQueue = 1
    Hazards = {{"overlap"}}
CHECK_DEADLOCK FALSE
INVARIANT NoLockCycle
