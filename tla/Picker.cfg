\* Two batches, of two candidates and of one; two generations, so that tasks
\* of the first page resume while the second is on show or being read.
SPECIFICATION Spec
CONSTANTS
    MaxGen = 2
    MaxIcons = 3
    BatchSize = 2
    Converted = {"png"}
    Slot = {t1, t2}
    None = None
INVARIANTS
    TypeOK
    IconsOfShownPage
    BusyWhileOneTaskWorks
    FormatIsOffered
    ExportsWhatIsShown
    FailedNotLoaded
    LoadedIconIsSelected
PROPERTIES
    StaleTasksAreSilent
    ImplementsPanel
    ResultsKeptUntilPageRead
CHECK_DEADLOCK FALSE
