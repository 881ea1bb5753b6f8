SPECIFICATION Spec
CONSTANTS
    MaxJobs = 5
    Requests = {r1, r2}
    RuleSets = {on, fewer}
    Stored = 1
    MaxMishaps = 1
SYMMETRY ChainSymmetry
INVARIANTS
    NeverEarly
    CompleteChainPackages
    FreshPackagesMasked
PROPERTY PackagesAreWhole
CHECK_DEADLOCK FALSE
