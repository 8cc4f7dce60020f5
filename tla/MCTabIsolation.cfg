SPECIFICATION TabsSpec
CONSTANTS
    NoClient = NoClient
    NoTab = NoTab
    NoObj = NoObj
    UserWin = w1
    Clients = {a, b}
    Tabs = {u, t1, t2}
    UserTabs = {u}
    CalmTabs = {t1, t2}
    WildTabs = {t1}
    Wins = {w1}
    Objs = {1, 2, 3}
    Jobs = {j1, j2}
    MaxOps = 5
SYMMETRY Symmetry
INVARIANTS
    TabsTracked
PROPERTIES
    UserTabSafe
