SPECIFICATION Spec
CONSTANTS
    ClientConfigs <- PlainClients
    ServerConfigs <- VcServers
    Retry = {FALSE}
    MaxStalls = 0
    Deadline = FALSE
INVARIANTS
    PlainClientServed
CHECK_DEADLOCK FALSE
