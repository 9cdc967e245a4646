SPECIFICATION Spec
CONSTANTS
    p1 = p1
    p2 = p2
    q1 = q1
    q2 = q2
    NoProc = NoProc
    NoRun = NoRun
    Procs <- TwoProcs
    Queues <- TwoQueues
    CodexQueues <- OneCodexQueue
    Positions <- OnePosition
    MaxAttempts = 1
    MaxLate = 1
    MaxFaults = 2
    LeaseCanDrop = TRUE
SYMMETRY Symmetry
INVARIANTS
    TypeOK
    OneActiveQueue
    CompletedIffGraded
PROPERTIES
    GradeIsFinal
    NoReplay
    AnswerIsKept
