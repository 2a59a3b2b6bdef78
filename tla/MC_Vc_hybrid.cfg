SPECIFICATION FairSpec
CONSTANTS
    s1 = s1
    x1 = x1
    SsiClients <- OneSsi
    X509Clients <- OneX509
    Rounds = 2
    Reconnects = 1
    Backlog = 2
    MaxConnections = 4
    MaxCuts = 1
    Qualities <- AllQualities
    Trust = {TRUE, FALSE}
INVARIANTS
    TypeOK
    MutualAuth
    CountedWasServed
    KindServed
PROPERTIES
    ServerReturns
    SsiReturns
CHECK_DEADLOCK FALSE
