SPECIFICATION Spec
CONSTANTS
    NumStreams = 2
    MaxData <- DataBound
    Pieces = {1, 3}
    Chunks = 2
    BufCap = 1
INVARIANTS
    
    WholeOrError
    QueuesReclaimed
    
PROPERTIES
    WaitersFreed
CHECK_DEADLOCK FALSE
