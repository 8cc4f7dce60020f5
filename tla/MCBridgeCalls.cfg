SPECIFICATION FairSpec
CONSTANTS
    p1 = p1
    p2 = p2
    c1 = c1
    c2 = c2
    NoProc = NoProc
    NoCall = NoCall
    Procs = {p1, p2}
    Calls = {c1, c2}
    Home <- TwoHomes
    First = p1
    MaxDrops = 1
    MaxKills = 1
    MaxCrashes = 1
    MaxFaults = 2
INVARIANTS
    OwnResult
    NoAbandonedWork
    StartedOnce
PROPERTIES
    StaysCancellable
    Answered
