SPECIFICATION Spec
CONSTANTS
    MaxJobs = 5
    Requests = {r1}
    RuleSets = {on}
    Stored = 1
    MaxMishaps = 0
INVARIANT PackagesMasked
CHECK_DEADLOCK FALSE
