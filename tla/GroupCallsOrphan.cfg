SPECIFICATION MCSpec
CONSTANTS
    A = A
    B = B
    C = C
    D = D
    a1 = a1
    b1 = b1
    c1 = c1
    d1 = d1
    g1 = g1
    g2 = g2
    Scenarios <- OrphanScenarios
    User = {A, B, C, D}
    Session = {a1, b1, c1, d1}
    Owner <- OwnerOf
    Capable = {a1, b1, c1, d1}
    Group = {g1}
    CallId = {k1}
    MediaE2ee = {TRUE}
    Hangers = {}
    Droppers = {a1, b1}
    MayExpire = FALSE
    MAX_PARTICIPANTS = 4
    MAX_INVITED = 4
    MAX_CALLS_PER_USER = 1
    MAX_ACTIVE_CALLS = 2
    MaxInstances = 1
    NoCall = NoCall
    None = None
CHECK_DEADLOCK FALSE
INVARIANT CoordinatorJoined
