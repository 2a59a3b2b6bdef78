SPECIFICATION Spec
CONSTANTS
    ClientConfigs <- SketchClients
    ServerConfigs <- SketchServers
    Retry = {FALSE}
    MaxStalls = 0
    Deadline = TRUE
INVARIANTS
    NoKeyLeak
CHECK_DEADLOCK FALSE
