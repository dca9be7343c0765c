CONSTANTS
    Resetters = {r1}
    QaCap = 1
    Models = {m1}
    VisionModels = {}
    InterruptRunning = TRUE
    Dispatchers = {asr, d1}
    AsrThread = asr
    MaxSubmits = 2
    MaxResets = 1
    MaxFaults = 0
    MaxParallel = 1
    MaxClusters = 1
    MaxTails = 1
    MaxTurns = 1
    MaxHealth = 0
SPECIFICATION PipelineFairSpec
INVARIANTS
    PipelineInv
PROPERTIES
    EveryQuestionSettles
CHECK_DEADLOCK FALSE
