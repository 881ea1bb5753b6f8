SPECIFICATION Spec
CONSTANTS
    Jobs = {1, 2}
    Artifacts = {a1, a2}
    Requests = {r1, r2}
    None = None
    KeepCount = 1
    MaxRestarts = 1
SYMMETRY StoreSymmetry
INVARIANTS
    FilesReclaimable
    RowsHaveBodies
    KeepsNewest
PROPERTY ActiveFilesStay
CHECK_DEADLOCK FALSE
