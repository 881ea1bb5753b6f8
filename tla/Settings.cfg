SPECIFICATION SettingsSpec
CONSTANTS
    Credentials = {c1, c2}
    Testers = {t1, t2}
    NoRow = NoRow
    Pairs = {p1, p2}
    OwnPair = own
    Missing = Missing
    Broken = Broken
    MaxUploads = 3
    MaxStops = 2
INVARIANTS
    ResultsAreCurrent
    ReportedPairStays
PROPERTIES
    ServesWhatIsStored
