SPECIFICATION SyncSpec
CONSTANTS
    SyncThreads = {s1}
    Spaces = {home, work}
    Targets = {"x"}
    Objects <- RepositoryObjects
    Pulls = {}
    Limit = 2
    PerPage = 1
    MaxPages = 2
    MaxEdits = 2
    MaxSyncs = 2
    Risks = {{"places"}}
CHECK_DEADLOCK FALSE
INVARIANT EverySpaceMirrored
