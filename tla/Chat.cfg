SPECIFICATION ChattingSpec
CONSTANTS
    alice = alice
    bob = bob
    p1 = p1
    s1 = s1
    s2 = s2
    news = news
    Workers = {w1, w2}
    Sessions = {s1, s2}
    Logins = {alice, bob, carol}
    Passwords = {p1}
    Names = {news, tech}
    EmptyName = empty
    Ids = {1, 2}
    NoWorker = NoWorker
    Times = {1, 2}
    NoLogin = NoLogin
    NoSession = NoSession
    MaxCalls = 2
    MaxErrors = 1
    MaxCrashes = 1
SYMMETRY HSymmetry
CHECK_DEADLOCK FALSE
INVARIANTS
    HTypeOK
    OnlyMembersReceive
    HistoryIsAsSent
    ListedAreWritten
    TextsBelongToChannels
PROPERTIES
    ActsAsStorage
