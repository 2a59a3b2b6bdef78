SPECIFICATION BaselineSpec
CONSTANTS
    x1 = x1
    x2 = x2
    SsiClients <- NoClients
    X509Clients <- TwoX509
    Rounds = 3
    Reconnects = 1
    Backlog = 2
    MaxConnections = 7
    MaxCuts = 1
    Qualities = {"good"}
    Trust = {TRUE, FALSE}
INVARIANTS
    TypeOK
    NeverWaitsForTheGone
PROPERTIES
    AllRoundsRun
CHECK_DEADLOCK FALSE
