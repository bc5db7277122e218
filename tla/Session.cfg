SPECIFICATION SSpec
CONSTANTS
    Sessions = {s1, s2}
    Kinds = {"reg"}
    NoBody = NoBody
    MaxSends = 2
    Tasks = {1, 2, 3, 4}
    PoolThreads = {t1, t2}
    Owner = Owner
    Nobody = Nobody
    NoTask = NoTask
CHECK_DEADLOCK FALSE
INVARIANTS
    STypeOK
    CallsWereSent
    OneRepeatAtMost
    NothingRunsAfterJoin
PROPERTIES
    EverySentIsRun
