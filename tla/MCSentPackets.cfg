SPECIFICATION Spec
CONSTANTS
    Chunks = {c, a}
    Crypto = {c}
    Plain = {c}
    Resettable = {a}
    MaxPackets = 4
INVARIANTS
    CountsAgree
    RetransmissionsSound
    NoDataLost
    
CHECK_DEADLOCK FALSE
