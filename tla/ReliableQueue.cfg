SPECIFICATION QueueSpec
CONSTANTS
    Token = {t1, t2, t3}
    Sizes = {1, 2}
    MaxMessages = 2
    MaxBytes = 3
    TTL = 2
    ScoreTick = 2
    Lag = 1
    Corrupt = {t3}
    MaxTime = 5
    MaxScore = 12
SYMMETRY TokenSymmetry
INVARIANTS
    QueueTypeOK
    LedgerCountsHeld
    BytesBounded
PROPERTIES
    HeldStaysListed
    NeverSacrificed
    OrderPreserved
