SPECIFICATION GSpec
CONSTANTS
    Sessions = {s1, s2}
    Kinds = {"reg", "auth"}
    NoBody = NoBody
    MaxSends = 2
    Tasks = {1, 2, 3, 4}
    PoolThreads = {t1, t2}
    Owner = Owner
    Nobody = Nobody
    NoTask = NoTask
    Long = {}
    Logins = {alice}
    Passwords = {p1}
    Limit = 1
    Mismatched = {"auth"}
    MaxFaults = 1
CHECK_DEADLOCK FALSE
INVARIANTS
    LatestLoginIsBound
    RegisteredIsAccepted
PROPERTIES
    OneAnswerEach
    RequestsAreAnswered
