CONSTANTS
    Resetters = {r1, r2}
    MaxSubmits = 3
    MaxResets = 2
    MaxFaults = 0
    QaCap = 2
SPECIFICATION Spec
INVARIANTS
    QueueAdvances
CHECK_DEADLOCK FALSE
