SPECIFICATION EdgesSpec
CONSTANTS
    Callers = {a, b}
    MaxCalls = 3
    MaxWorkers = 2
    MaxSegs = 2
    SegQueue = 1
    Hazards = {{}, {"race"}, {"device"}, {"stray"}, {"load", "crash", "stray"}, {"overlap"}, {"timeout"}}
    SyncThreads = {s1, s2}
    Spaces = {home, work}
    Targets = {"x", "y"}
    Objects <- AccountObjects
    Pulls <- AccountPulls
    Limit = 2
    PerPage = 1
    MaxPages = 2
    MaxEdits = 3
    MaxSyncs = 2
    Risks = {{}, {"overlap"}, {"places"}, {"shift"}}
    Executions = {e1, e2}
    MaxTries = 3
    MaxSaves = 2
    Dangers = {{}, {"window"}, {"mistake"}}
SYMMETRY EdgesSymmetry
CHECK_DEADLOCK FALSE
INVARIANTS
    CaptureInv
    SpeechKept
    CapturedIsTranscribed
    SyncInv
    MirrorAfterSync
    ProviderInv
