SPECIFICATION ChattingSpec
CONSTANTS
    alice = alice
    bob = bob
    p1 = p1
    s1 = s1
    s2 = s2
    news = news
    Workers = {w1, w2}
    Sessions = {s1, s2}
    Logins = {alice, bob}
    Passwords = {p1}
    Names = {news, tech}
    EmptyName = empty
    Ids = {1, 2}
    NoWorker = NoWorker
    Times = {1}
    NoLogin = NoLogin
    NoSession = NoSession
    MaxCalls = 2
    MaxErrors = 1
    MaxCrashes = 0
CHECK_DEADLOCK FALSE
PROPERTIES
    EchoedIsStored
    ChannelCallsFinish
    JoinIsStored
    JoinIsAnswered
