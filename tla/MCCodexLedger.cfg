SPECIFICATION FairSpec
CHECK_DEADLOCK FALSE
CONSTANTS
    direct = direct
    job = job
    queued = queued
    w1 = w1
    w2 = w2
    a1 = a1
    NoAnswer = NoAnswer
    NoRun = NoRun
    NoWorker = NoWorker
    Unclaimed = Unclaimed
    Runs <- DirectAndJob
    DirectRuns <- OneDirect
    QueuedRuns <- None
    Workers <- OneWorker
    Answers <- OneAnswer
    MaxActive = 1
    KeepSessions = 1
    MaxPasses = 2
    MaxFaults = 1
PROPERTIES
    ImplementsLedger
    EveryRunEnds
