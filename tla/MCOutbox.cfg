SPECIFICATION OutboxSpec
CONSTANTS
    Producers = {p1, p2, p3}
    MaxPush = 2
INVARIANTS
    ExactlyOnceInOrder
    NoLostWakeup
PROPERTIES
    ImplementsChannel
