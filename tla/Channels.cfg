SPECIFICATION CSpec
CONSTANTS
    Workers = {w1, w2}
    Sessions = {s1}
    Logins = {alice, bob}
    Passwords = {p1}
    Names = {news, tech}
    EmptyName = empty
    Ids = {1, 2}
    NoWorker = NoWorker
    MaxCalls = 4
    MaxErrors = 1
    MaxCrashes = 1
SYMMETRY CSymmetry
CHECK_DEADLOCK FALSE
INVARIANTS
    CTypeOK
    DuplicateChannelNeedsOverlap
    StoredMembersHear
    AckedMembersHear
    OnlyAskedAreMembers
    MembersAreClients
