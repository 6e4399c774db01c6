SPECIFICATION Spec
CONSTANTS
    Workers = {w1, w2}
    Loops = {l1, l2}
    HttpTasks = {h1, h2}
    WsTasks = {c1}
    WsStreamTasks = {s1}
    MaxQueue = 1
    HardTimeout = TRUE
INVARIANTS
    NoIdleSleep
    FreedAfterThreads
PROPERTIES
    AcceptedTasksFinish
    StopsCleanly
