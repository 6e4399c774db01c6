SPECIFICATION Spec
CONSTANTS
    w1 = w1
    w2 = w2
    l1 = l1
    Workers = {w1, w2}
    Loops = {l1}
    Cells <- MCCells
    Seconds = 2
    Settle = 2
    WatchSlack = 1
    Slack = 1
    Rounds = 2
    Tries = 2
    WarmConc = 2
    CanarySocks = 2
    CanaryTime = 5
    MaxLeak = 2
    MaxDead = 3
INVARIANTS
    NoFalseLeak
    PassMeansNoLeak
    ExitTruthful

    
CHECK_DEADLOCK FALSE
