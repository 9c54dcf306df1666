SPECIFICATION FairSpec
CONSTANTS
    Streams = {s1, s2}
    s1 = s1
    s2 = s2
    Conn = Conn
    NoOffset = NoOffset
    StreamWindow = 2
    SessionWindow = 2
    StreamLimit = 4
    SessionLimit = 6
    Length = 2
    AutoTune = FALSE
    FinAlone = FALSE
PROPERTY WritesAreSent
CHECK_DEADLOCK FALSE
