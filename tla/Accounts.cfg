SPECIFICATION Spec
CONSTANTS
    Users = {u1, u2}
    Roles = {"admin", "viewer"}
    Sessions = {s1, s2}
    Requests = {r1, r2}
    None = None
    MaxAttempts = 1
    CodeCount = 2
    MaxSecrets = 2
    MaxRequests = 3
    MaxLapses = 1
SYMMETRY AccountSymmetry
INVARIANTS
    AdminRemains
    ActsWithinRights
    SecondFactorWorks
    LockoutHolds
PROPERTY SessionsStayDead
CHECK_DEADLOCK FALSE
