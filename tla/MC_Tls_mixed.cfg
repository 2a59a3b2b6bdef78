SPECIFICATION FairSpec
CONSTANTS
    ClientConfigs <- MixedClients
    ServerConfigs <- MixedServers
    Retry = {TRUE, FALSE}
    MaxStalls = 1
    Deadline = TRUE
INVARIANTS
    TypeOK
    SigningKeyReady
    KeyFreedAfterSuccess
    FlightsInOrder
    NoSuccessAlone
    PeerAuthenticated
PROPERTIES
    ClientWaitsForServer
    SessionAgreed
    Terminates
    ClientSucceeds
CHECK_DEADLOCK FALSE
