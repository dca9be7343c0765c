SPECIFICATION Spec
CONSTANTS
    Threads = {t1, t2}
    Connections = {c1}
    MaxReviews = 1
    MaxCrashes = 0
CHECK_DEADLOCK FALSE
INVARIANT RevocationWins
