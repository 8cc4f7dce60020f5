SPECIFICATION FairSpec
CONSTANTS
    NItems = 2
    Solos = {9}
    NoRun = 0
    Steps = 2
    Concurrency = 1
INVARIANTS
    ReportsTrue
    StopsAtStep
PROPERTIES
    RunsEnd
CHECK_DEADLOCK FALSE
