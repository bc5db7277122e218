SPECIFICATION Spec
CONSTANTS
    Workers = {w1, w2, w3}
    Sessions = {s1, s2}
    Logins = {alice, bob}
    Passwords = {p1, p2}
    MaxCalls = 3
    MaxErrors = 1
    MaxCrashes = 1
SYMMETRY Symmetry
CHECK_DEADLOCK FALSE
INVARIANTS
    TypeOK
    ToldIdIsStored
    DuplicateLoginNeedsOverlap
    OnePasswordPerLogin
    BoundSessionIsTold
    ToldIdIsKnown
