SPECIFICATION FairSpec
CONSTANTS
    TOTAL_ROUNDS = 4
    MaxSamples = 2
    Backlog = 3
    MaxFaults = 5
INVARIANTS
    TypeOK
    ServerNeverAhead
    StatsOfAllRounds
PROPERTIES
    ClientHalts
CHECK_DEADLOCK FALSE
