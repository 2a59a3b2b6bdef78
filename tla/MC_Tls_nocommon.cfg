SPECIFICATION Spec
CONSTANTS
    ClientConfigs <- RpkClients
    ServerConfigs <- VcServers
    Retry = {FALSE}
    MaxStalls = 0
    Deadline = FALSE
INVARIANTS
    NoCommonTypeStops
CHECK_DEADLOCK FALSE
