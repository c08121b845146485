SPECIFICATION FairSpec
CONSTANTS
    ReadCap = 6
    WriteCap = 2
    MaxRecv = 2
    MaxLine = 6
    LineLen = 3
    PacketLen = 2
    MaxWire = 3
    MaxConn = 2
INVARIANTS
    ReadFraming
    StaleOnlyFirst
    WriteFraming
    ReportedOnce
PROPERTY
    DeadPeerNoticed
