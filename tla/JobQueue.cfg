SPECIFICATION Spec
CONSTANTS
    Jobs = {j1, j2}
    Workers = {w1, w2}
    Requests = {r1}
    Kinds = {collect, extract}
    Registered = {collect}
    Guarded = {collect}
    Routes <- AnyRoute
    None = None
    collect = collect
    extract = extract
    DbMayFail = TRUE
    RequestsMayFail = TRUE
    MaxRestarts = 1
SYMMETRY JobSymmetry
INVARIANTS
    NoDoubleClaim
    RunningIsOwned
PROPERTIES
    NoResurrection
    ImplementsWorkQueue
CHECK_DEADLOCK FALSE
