SPECIFICATION FairSpec
CONSTANTS
    Logs <- MCLogs
    Trail <- MCTrail
    Forms <- MCForms
    MaxFiles = 3
    DayLength = 2
    YearLength = 8
    Now = 11
    ProgressEvery = 2
    None = None
INVARIANTS
    SalvagesWholeFiles
    NothingHalfWritten
    ReportsCount
    AskedLinesKept
PROPERTY JobEnds
CHECK_DEADLOCK FALSE
