SPECIFICATION Spec
CONSTANTS
    Settings <- MCSettings
    Deadline = 3
    Grace = 2
    SseTotal = 3
    SseBatch = 2
    SeqsPerConn = 2
    MaxDone = 3
    MaxEvents = 7
    MaxWorkers = 3
INVARIANTS
    
    AttemptsAccounted
    DiagnosisTruthful
    SitOutJustified
    BudgetSplit

    
CHECK_DEADLOCK FALSE
