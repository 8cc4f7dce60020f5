SPECIFICATION FairSpec
CONSTANTS
    NoCall = NoCall
    NoRun = NoRun
    Runs = {r1, s}
    Unattended = {s}
    Calls = {c1, c2, c3}
    MaxSuspended = 2
    Lifetime = 2
    Timeout = 1
    Parallel = TRUE
INVARIANTS
    RanOnce
    ClockStands
PROPERTIES
    RunEnds
