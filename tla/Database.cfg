SPECIFICATION Spec
CONSTANTS
    Handlers = {h1, h2}
    Rules = {r1, r2}
    Collections = {c1, c2}
    Scripts = 2
    Statements = 2
    MaxBeats = 2
    MaxCrashes = 2
INVARIANTS
    RulesFailSafe
    ReportedWritesLast
PROPERTIES
    OnlyCleanupsStarve
    StartsAgain
CHECK_DEADLOCK FALSE
