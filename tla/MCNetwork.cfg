CONSTANTS
    Conns = {c1, c2}
    Matching = {c1}
    RecordLen = 3
    HandshakeLen = 2
    SizeByte = 1
    BufLen = 4
    WireCap = 3
    MaxRecords = 2
SPECIFICATION FairSpec
INVARIANTS RecordsIntact OnlyMatchingClients StreamConserved RoomToRead
PROPERTIES Delivered
CHECK_DEADLOCK FALSE
