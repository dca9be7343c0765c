SPECIFICATION StateSpec
CONSTANTS
    Events = {e1, e2}
    Modes = {{"overlap"}}
    MaxAgain = 1
CHECK_DEADLOCK FALSE
INVARIANT StateIsFold
