SPECIFICATION Spec
CONSTANTS
    Jobs = {j1, j2}
    Workers = {w1}
    Requests = {r1}
    Kinds = {collect}
    Registered = {collect}
    Guarded = {collect}
    Routes <- SingleRoute
    None = None
    collect = collect
    extract = extract
    DbMayFail = FALSE
    RequestsMayFail = FALSE
    MaxRestarts = 0
PROPERTY TerminalIsFinal
CHECK_DEADLOCK FALSE
