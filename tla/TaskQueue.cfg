SPECIFICATION TQSpec
CONSTANTS
    Tasks = {a, b, c, d}
    Threads = {t1, t2, t3, t4}
    NoTask = NoTask
    NoThread = NoThread
CHECK_DEADLOCK FALSE
INVARIANTS
    TQTypeOK
    SomebodyLooks
PROPERTIES
    ImplementsWorkQueue
    ShutdownEnds
