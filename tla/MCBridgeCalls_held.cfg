SPECIFICATION Spec
CONSTANTS
    p1 = p1
    p2 = p2
    c1 = c1
    c2 = c2
    NoProc = NoProc
    NoCall = NoCall
    Procs = {p1, p2}
    Calls = {c1, c2}
    Home <- AtSecondary
    First = p1
    MaxDrops = 1
    MaxKills = 0
    MaxCrashes = 0
    MaxFaults = 1
PROPERTIES
    CancelledNotSent
