SPECIFICATION FairSpec
CONSTANTS
    StartTime = 1
    MaxTime = 7
    SmallDelay = 2
    Granularities = {0, 2}
    Calls = {"set", "cancel"}
    Uids = {1, 2}
PROPERTY
    AlarmGoesOff
CHECK_DEADLOCK FALSE
