SPECIFICATION FairSpec
CONSTANTS
    a = a
    b = b
    b1 = b1
    b2 = b2
    x = x
    NoCall = NoCall
    Calls <- BatchCalls
    Keys = {2, 3}
    Need <- BatchNeed
    Exclusive = {x}
    Parent <- BatchParent
    Abortable = {b}
    Timed = {b, x}
    Impatient = {b1}
INVARIANTS
    LaneInv
    LaneExclusion
    LocksSound
PROPERTIES
    NoLateStart
    WaitersMoveOn
