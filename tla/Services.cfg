SPECIFICATION ServicesSpec
CONSTANTS
    Callers = {a, b}
    MaxCalls = 3
    MaxWorkers = 2
    MaxSegs = 2
    SegQueue = 1
    Hazards = {{}}
    Tabs = {1, 2}
    MaxActs = 5
    Tasks = {t1, t2, t3}
    LaneWorkers = {w}
    MaxPending = 1
    NoTask = none
    Jobs = {j1, j2}
    Stops = {1, 2}
    Threads = {1, 2, 3}
    QueueSize = 1
    Sentinel = none
    Events = {e1, e2, e3}
    Modes = {{}, {"reset"}, {"fail"}, {"reset", "fail"}, {"overlap"}}
    MaxAgain = 2
    Fragments = {f1, f2, f3}
    MaxCues = 2
    MaxStarts = 2
    Answers = {q}
    Clients = {c}
    BusSize = 3
    WireSize = 2
    MaxChunks = 1
    MaxEnds = 2
    Requests = {r1, r2}
    OpenQuestions = {s1}
    Decisions = {s2}
    Given <- GivenRows
    MaxItems = 2
    MaxOps = 4
    MaxPolicy = 1
    Exposures = {{}, {"die"}, {"overlap"}}
CHECK_DEADLOCK FALSE
INVARIANTS
    ElectionInv
    LaneInv
    WorkerInv
    StateInv
    QuestionInv
    ViewInv
    RecordsInv
PROPERTIES
    CallsReturn
    OneLeaderAtLast
    StopReturns
    CuesSettle
    FinalStays
    ViewsConverge
