SPECIFICATION FairSpec
CONSTANTS
    NoId = NoId
    Ids = {s1}
    Jobs = {j1, j2, j3}
    Period = 4
    Grace = 1
    CatchUp = {s1}
INVARIANTS
    NoOverlap
    AckedChangeKept
    ArmedAtRest
    OneRunPerSlot
PROPERTIES
    KeepsRunning
