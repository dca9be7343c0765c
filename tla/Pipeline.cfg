CONSTANTS
    Resetters = {r1}
    QaCap = 1
    Models = {m1, m2}
    VisionModels = {m2}
    InterruptRunning = TRUE
    Dispatchers = {asr, d1}
    AsrThread = asr
    MaxSubmits = 2
    MaxResets = 0
    MaxFaults = 1
    MaxParallel = 2
    MaxClusters = 2
    MaxTails = 2
    MaxTurns = 2
    MaxHealth = 1
SPECIFICATION PipelineSpec
CONSTRAINT Scope
INVARIANTS
    PipelineInv
PROPERTIES
    JudgeExact
CHECK_DEADLOCK FALSE
