SPECIFICATION FairSpec
CONSTANTS
    p1 = p1
    p2 = p2
    q1 = q1
    q2 = q2
    NoProc = NoProc
    NoRun = NoRun
    Procs <- TwoProcs
    Queues <- OneQueue
    CodexQueues <- NoQueue
    Positions <- OnePosition
    MaxAttempts = 1
    MaxLate = 1
    MaxFaults = 1
    LeaseCanDrop = FALSE
PROPERTIES
    EveryPositionSettles
