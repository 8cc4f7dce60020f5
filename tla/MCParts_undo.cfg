SPECIFICATION Spec
CONSTANTS
    Workflows = {"w1", "w2"}
    Replays = {"r1", "r2", "r3"}
    Healing = {"r1"}
    Editors = {"u", "d"}
    Deleting = {"d"}
    Reports = {x, y, z}
    NoList = NoList
    Calls = {c}
    DayLen = 4
    ShiftAt = 22
    Horizon = 50
    Steps = {1, 2, 3, 5}
    Messages = 4
    Restarts = 1
    Servers = {a, b, d}
    NoProc = NoProc
    Rounds = 2
    MaxTries = 1
    MaxEnds = 1
INVARIANTS
    UndoKept
CHECK_DEADLOCK FALSE
