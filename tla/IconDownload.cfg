SPECIFICATION Spec
CONSTANTS
    Process = {p1, p2}
    Ranked <- Candidates
    NameOf <- SharedName
    MaxSuffix = 3
    None = None
INVARIANTS
    TypeOK
    ReportedFilesAreKept
    NoEmptyFileLeft
    BestThatCouldBeHad
CHECK_DEADLOCK FALSE
