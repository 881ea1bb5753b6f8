SPECIFICATION FairSpec
CONSTANTS
    Jobs = {j1, j2}
    Workers = {w1}
    Requests = {r1, r2}
    Kinds = {collect, extract}
    Registered = {collect, extract}
    Guarded = {collect}
    Routes <- PairRoute
    None = None
    collect = collect
    extract = extract
    DbMayFail = FALSE
    RequestsMayFail = FALSE
    MaxRestarts = 1
INVARIANT NoLostWakeup
PROPERTIES
    ClaimsInOrder
    EveryJobSettles
CHECK_DEADLOCK FALSE
