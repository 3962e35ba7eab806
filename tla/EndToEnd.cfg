SPECIFICATION Spec
CONSTANTS
    m1 = m1
    p1 = p1
    p2 = p2
    Msg = {m1}
    Peer = {p1, p2}
    Circumstances <- SafetyCircumstances
INVARIANTS
    TypeOK
    DeliveredIsStored
    NeverSilentlyLost
    ReceiptFreesRows
    SpentIsRemembered
PROPERTIES
    ReceiptsMonotone
CHECK_DEADLOCK FALSE
