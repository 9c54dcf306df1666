SPECIFICATION FairSpec
CONSTANTS
    Ids = {5, 7}
    FirstId = 5
    MaxIncoming = 1
    MaxOutgoing = 2
    AvailableMultiplier = 1
    RequestChunks = 1
    ResponseChunks = 2
    Unknown = Unknown
INVARIANTS
    CountersConsistent
    ServerCountsNoMore
    NoStreamIdError
    EndIsAnnounced
    OneLogLinePerStream
PROPERTIES
    ClosedStaysClosed
    RequestsEnd
CHECK_DEADLOCK FALSE
