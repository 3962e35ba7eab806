SPECIFICATION MCSpec
CONSTANTS
    A = A
    B = B
    C = C
    c1 = c1
    a1 = a1
    a2 = a2
    b1 = b1
    b2 = b2
    b3 = b3
    User = {A, B, C}
    Socket = {a1, a2, b1, b2, b3, c1}
    Owner <- OwnerOf
    MessageOnly = {b2}
    OFFLINE_QUEUE_MAX_MESSAGES = 2
    MAX_PRESENCE_SUBSCRIPTIONS = 1
    MayFail = TRUE
    MaxFrames = 4
    None = None
INVARIANT TypeOK
INVARIANT NothingVanishes
INVARIANT StrandedOnlyByRace
INVARIANT CancelledStaysCancelled
INVARIANT PresenceKept
CHECK_DEADLOCK FALSE
