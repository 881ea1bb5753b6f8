SPECIFICATION FairSpec
CONSTANTS
    Requests = {r1}
    Checkers = {daily}
    Updates = {u1, u2}
    None = None
    MaxImages = 2
    MaxMishaps = 1
INVARIANTS
    OutcomeReported
    NeverStranded
PROPERTIES
    SuccessIsEarned
    UpdateEnds
    OfferIsWithdrawn
CHECK_DEADLOCK FALSE
