SPECIFICATION Spec
CONSTANTS
    Sids = {1, 2}
    Urgency <- Levels
    Incremental = {2}
    MaxBytes <- Bodies
    Sizes = {1, 2}
    HighWater = 2
    MaxFrame = 2
    MaxWin = 2
    Grants = {2}
    InitWins = {0, 2}
    Rounds = 2
    MaxOut = 1
INVARIANTS
    TypeOK
    BodyInOrder
    NoIdleBacklog
    
PROPERTIES
    FlowControlled
CHECK_DEADLOCK FALSE
