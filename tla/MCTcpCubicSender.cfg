SPECIFICATION Spec
CONSTANTS
    MSS = 2
    Sizes <- OneByte
    InitialWindow = 2
    MaxWindow = 4
    MaxResumption = 3
    LowWindow = 3
    InitialWindows <- FourPackets
    Curve <- CurveWindow
    Estimates <- SmallEstimate
    OptionSets <- BothSenders
    StreamCounts <- ThreeStreams
    Disturbances <- Everything
    Wrap = 100
    MaxPackets = 5
    CalmAfter = 2
INVARIANTS
    WindowSound
    OneCutPerFlight
    SendsWhenIdle
    RecoveryBounded
CHECK_DEADLOCK FALSE
