SPECIFICATION Spec
CONSTANTS
    s1 = s1
    s2 = s2
    r1 = r1
    a1 = a1
    a2 = a2
    Servers = {s1, s2}
    Requests = {r1}
    Addrs = {a1, a2}
    Nil = Nil
    All = All
    NumSlots = 1
    MaxRequests = 1
INVARIANTS
    StopsOnlyItsServer
    NeverTouchesFreed
PROPERTIES
    StopReaches
    TeardownEnds
CHECK_DEADLOCK FALSE
