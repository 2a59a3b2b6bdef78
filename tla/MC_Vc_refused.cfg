SPECIFICATION Spec
CONSTANTS
    s1 = s1
    x1 = x1
    SsiClients <- OneSsi
    X509Clients <- NoClients
    Rounds = 1
    Reconnects = 1
    Backlog = 1
    MaxConnections = 2
    MaxCuts = 0
    Qualities <- AllQualities
    Trust = {TRUE}
INVARIANTS
    RefusedNotCounted
CHECK_DEADLOCK FALSE
