SPECIFICATION Spec
CHECK_DEADLOCK FALSE
SYMMETRY Symmetry
CONSTANTS
    direct = direct
    job = job
    queued = queued
    w1 = w1
    w2 = w2
    a1 = a1
    NoAnswer = NoAnswer
    NoRun = NoRun
    NoWorker = NoWorker
    Unclaimed = Unclaimed
    Runs <- TwoRuns
    DirectRuns <- None
    QueuedRuns <- OneQueued
    Workers <- TwoWorkers
    Answers <- OneAnswer
    MaxActive = 2
    KeepSessions = 2
    MaxPasses = 1
    MaxFaults = 1
INVARIANTS
    TypeOK
    AdmissionHolds
    OneWorkerPerRun
    SessionTellsTheRow
    NoOrphanRows
