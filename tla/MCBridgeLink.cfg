SPECIFICATION FairSpec
CONSTANTS
    Ports = {1, 2}
    NoPort = 0
    Default = 1
    Socks = {1, 2, 3, 4}
    NoSock = 0
    Calm = TRUE
    MaxCommands = 3
    MaxKills = 1
    MaxTroubles = 2
INVARIANTS
    LinkTrue
PROPERTIES
    Reconnects
CHECK_DEADLOCK FALSE
