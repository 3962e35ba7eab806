SPECIFICATION Spec
CONSTANTS
    m1 = m1
    p1 = p1
    p2 = p2
    Msg = {m1}
    Peer = {p1}
    Circumstances <- RecipientDies
INVARIANTS
    SpentIsAnswerable
CHECK_DEADLOCK FALSE
