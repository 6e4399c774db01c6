SPECIFICATION SafetySpec
CONSTANTS
    Fds = {f1}
    MaxGen = 1
    MaxReq = 1
    MaxTask = 0
    MaxOff = 0
    AnswerAndWork = FALSE
    PeerHalfCloses = FALSE
    MayDrain = TRUE
INVARIANT
    HalfCloseAfterResponse
CHECK_DEADLOCK FALSE
