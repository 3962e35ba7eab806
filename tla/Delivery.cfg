SPECIFICATION Spec
CONSTANTS
    Token = {t1, t2}
    Corrupt = {t2}
    Sizes = {1}
    MaxMessages = 2
    MaxBytes = 2
    TTL = 1
    ScoreTick = 3
    Lag = 0
    MaxTime = 2
    MaxScore = 9
    Session = {s1, s2}
    MessageOnly = {s2}
    Handler = {h1, h2}
    NoSession = NoSession
    MaxRoutes = 3
SYMMETRY DeliverySymmetry
INVARIANTS
    TypeOK
    NoLostWakeup
    NoForgottenSocket
PROPERTIES
    LiveSessionKept
    ImplementsAtLeastOnce
CHECK_DEADLOCK FALSE
