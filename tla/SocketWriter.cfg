SPECIFICATION WSpec
CONSTANTS
    Clients = {c1, c2}
    Tasks = {1, 2, 3}
    Limit = 2
    NoTask = NoTask
    Long = {1, 2, 3}
    MaxFaults = 2
CHECK_DEADLOCK FALSE
INVARIANTS
    WTypeOK
    ReorderNeedsTwoThreads
    StaleBufferNeedsRest
PROPERTIES
    ResponsesStayWhole
    ResponsesLeave
