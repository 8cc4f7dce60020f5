SPECIFICATION MCSpec
CONSTANTS
    a = a
    b = b
    NoCall = NoCall
    NoRun = NoRun
    Runs = {r1, r2, s}
    Unattended = {s}
    Calls = {c1, c2, c3}
    MaxSuspended = 1
    Lifetime = 2
    Timeout = 2
    Parallel = FALSE
    Agents = {"v", "q", "s"}
    NoAgent = NoAgent
    Scheduled = {"s"}
    PanelOf <- OnePanel
    Path <- ThreePaths
    MaxTurns = 2
    MaxActs = 2
    Sites = {"s1", "s2"}
    Acts = {"m1", "d", "m2"}
    SiteOf <- TwoSites
    Destructive = {"d"}
    Shown = {"s1"}
    MaxRestarts = 1
    MaxDrops = 1
    MaxKills = 1
    Kinds = {"agent", "direct", "ide"}
SYMMETRY Symmetry
INVARIANTS
    TypeOK
    PausedBound
    LanesOrdered
    UserDecides
    HandleTrue
    ChatTrue
PROPERTIES
    HoldOpen
    StopObeyed
