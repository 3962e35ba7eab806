SPECIFICATION MCSpec
CONSTANTS
    Instance = {i1, i2}
    Request = {r1, r2}
    Kind = {"access", "refresh", "reauth", "logout", "delete", "recover"}
    TTL = 1
    MayFail = TRUE
    MayCrash = TRUE
    MaxTime = 1
    MaxValue = 5
SYMMETRY Symmetry
CHECK_DEADLOCK FALSE
INVARIANT TypeOK
INVARIANT NoIssueAcrossRevoke
INVARIANT BoundedStaleness
PROPERTY RedeemedOnce
PROPERTY SupersededEndsNothing
