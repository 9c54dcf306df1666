SPECIFICATION FairSpec
CONSTANTS
    Capacity = 7
    BlockSize = 3
    MaxGaps = 3
    Infinity = 99
    NoBlock = NoBlock
    Garbage = Garbage
    NoOffset = NoOffset
    Length = 10
    Frames <- AllFrames
    Cut <- CutFrames
INVARIANTS
    BlocksHoldUnread
    GapsAndCountsAgree
    FittingFramesKept
    ReadInOrder
PROPERTY FinIsRead
CHECK_DEADLOCK FALSE
