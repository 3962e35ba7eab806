SPECIFICATION MCSpec
CONSTANTS
    A = A
    B = B
    C = C
    D = D
    n1 = n1
    n2 = n2
    h1 = h1
    h2 = h2
    h3 = h3
    User = {A, B, C, D}
    Number = {n1, n2}
    Handler = {h1, h2, h3}
    Frame = {f1}
    Existing <- Rows
    COOLDOWN = 1
    OTP_TTL = 2
    REGISTRATION_TOKEN_TTL = 1
    MAX_ATTEMPTS = 2
    TRANSIENT_PURGE_ATTEMPTS = 2
    MaxTime = 3
    MaxCodes = 3
    MaxPending = 2
    None = None
INVARIANT TypeOK
INVARIANT CodesPaced
INVARIANT GrantBuysOneAccount
INVARIANT CacheAgrees
PROPERTY ReachableKeepsNumber
PROPERTY DeletedFades
CHECK_DEADLOCK FALSE
