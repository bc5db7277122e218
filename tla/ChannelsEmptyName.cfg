SPECIFICATION CSpec
CONSTANTS
    Workers = {w1, w2}
    Sessions = {s1}
    Logins = {alice}
    Passwords = {p1}
    Names = {news, empty}
    EmptyName = empty
    Ids = {1, 2}
    NoWorker = NoWorker
    MaxCalls = 2
    MaxErrors = 0
    MaxCrashes = 0
CHECK_DEADLOCK FALSE
INVARIANTS
    StoredNamesAreValid
