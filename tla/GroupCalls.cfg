SPECIFICATION MCSpec
CONSTANTS
    A = A
    B = B
    C = C
    D = D
    a1 = a1
    b1 = b1
    c1 = c1
    d1 = d1
    g1 = g1
    g2 = g2
    Scenarios <- SafetyScenarios
    User = {A, B, C, D}
    Session = {a1, b1, c1, d1}
    Owner <- OwnerOf
    Capable = {a1, b1, c1, d1}
    Group = {g1, g2}
    CallId = {k1}
    MediaE2ee = {TRUE, FALSE}
    Hangers = {a1, b1, c1, d1}
    Droppers = {a1, b1, c1}
    MayExpire = TRUE
    MAX_PARTICIPANTS = 3
    MAX_INVITED = 4
    MAX_CALLS_PER_USER = 1
    MAX_ACTIVE_CALLS = 2
    MaxInstances = 2
    NoCall = NoCall
    None = None
CHECK_DEADLOCK FALSE
SYMMETRY Symmetry
INVARIANT TypeOK
INVARIANT EncryptedAndInvited
INVARIANT CapacityKept
INVARIANT NoLoneCall
PROPERTY ActsOnItsCall
