SPECIFICATION Spec
CONSTANTS
    Workers = {w1, w2}
    Sessions = {s1, s2}
    Logins = {alice}
    Passwords = {p1, p2}
    MaxCalls = 2
    MaxErrors = 0
    MaxCrashes = 0
CHECK_DEADLOCK FALSE
INVARIANTS
    SecondRegistrationIsRefused
