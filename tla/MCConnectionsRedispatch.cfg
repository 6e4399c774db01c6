SPECIFICATION SafetySpec
CONSTANTS
    Fds = {f1}
    MaxGen = 1
    MaxReq = 2
    MaxTask = 1
    MaxOff = 0
    AnswerAndWork = FALSE
    PeerHalfCloses = FALSE
    MayDrain = FALSE
PROPERTY
    NoDispatchAfterHalfClose
CHECK_DEADLOCK FALSE
