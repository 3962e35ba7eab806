SPECIFICATION FairSpec
CONSTANTS
    m1 = m1
    p1 = p1
    p2 = p2
    Msg = {m1}
    Peer = {p1}
    Circumstances <- LossyOnly
PROPERTIES
    EventuallyConfirmed
CHECK_DEADLOCK FALSE
