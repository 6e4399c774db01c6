SPECIFICATION SafetySpec
CONSTANTS
    Fds = {f1}
    MaxGen = 2
    MaxReq = 2
    MaxTask = 1
    MaxOff = 1
    AnswerAndWork = TRUE
    PeerHalfCloses = TRUE
    MayDrain = TRUE
INVARIANTS
    TypeOK
    PinnedSlotHeld
    ResponsesMatchRequests
    NothingStranded
CHECK_DEADLOCK FALSE
