SPECIFICATION Spec
CONSTANTS
    Streams = {s1, s2}
    s1 = s1
    s2 = s2
    Conn = Conn
    NoOffset = NoOffset
    StreamWindow = 2
    SessionWindow = 3
    StreamLimit = 4
    SessionLimit = 6
    Length = 3
    AutoTune = FALSE
    FinAlone = TRUE
SYMMETRY StreamSymmetry
INVARIANT AccountsAgree
CHECK_DEADLOCK FALSE
