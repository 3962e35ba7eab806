SPECIFICATION FairSpec
CONSTANTS
    Token = {t1}
    Corrupt = {}
    Sizes = {1}
    MaxMessages = 1
    MaxBytes = 1
    TTL = 1
    ScoreTick = 3
    Lag = 0
    MaxTime = 2
    MaxScore = 9
    Session = {s1, s2}
    MessageOnly = {s2}
    Handler = {h1, h2}
    NoSession = NoSession
    MaxRoutes = 2
PROPERTIES
    EventuallyDelivered
CHECK_DEADLOCK FALSE
