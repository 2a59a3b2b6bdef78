SPECIFICATION FairSpec
CONSTANTS
    RecHdr = 2
    HsHdr = 2
    CertHdr = 1
    PadSz = 2
    MaxFragment = 6
    StaticLen = 2
    ReadSizes = {2, 4}
    Sessions <- ConnSessions
INVARIANTS
    TypeOK
    OneRecord
    RecordsOpen
    SentInOrder
PROPERTIES
    IsChannel
    Arrives
    NotForever
CHECK_DEADLOCK FALSE
