SPECIFICATION Spec
CONSTANTS
    Names = {a, b}
    Ruled = {a}
    Noise = {b}
    Family <- MCFamily
    Pools = {p, q}
    Totals = {t}
    None = None
    Window = 3
    Stale = 1
    EchoWindow = 1
    Times <- MCTimes
    Dates = {2}
    Now = 4
    MaxTrouble = 2
SYMMETRY FindingsSymmetry
INVARIANTS
    FailuresReported
    UnreadIsSaid
    EchoesPair
CHECK_DEADLOCK FALSE
