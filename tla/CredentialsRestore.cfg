SPECIFICATION MCSpec
CONSTANTS
    Instance = {i1}
    Request = {r1, r2, r3}
    Kind = {"access", "logout"}
    TTL = 2
    MayFail = FALSE
    MayCrash = FALSE
    MaxTime = 0
    MaxValue = 4
SYMMETRY Symmetry
CHECK_DEADLOCK FALSE
INVARIANT SameInstanceImmediate
