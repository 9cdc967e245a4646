SPECIFICATION Spec
CHECK_DEADLOCK FALSE
CONSTANTS
    NoMove = NoMove
    NoId = NoId
    Plays <- SmallGame
    Over <- SmallOver
    Texts <- SmallTexts
    Spelling <- SmallSpelling
    Harnesses <- AllHarnesses
    Batches <- SomeBatches
    Steps <- SomeSteps
    MaxScratch = 2
    MaxModelCalls = 4
    MaxToolCalls = 5
    MaxFailedTools = 2
    MaxProtocolRetries = 1
    MaxForcedRetries = 1
INVARIANTS
    TypeOK
    TreeIsSound
    DecisionIsVerified
    TraceReplays
    HistoryIsAnswered
    LimitNeverReached
PROPERTIES
    ClosedPassStaysClosed
