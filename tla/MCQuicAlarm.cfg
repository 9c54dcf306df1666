SPECIFICATION AlarmSpec
CONSTANTS
    StartTime = 1
    MaxTime = 7
    SmallDelay = 2
    Granularities = {0, 2}
    Calls = {"set", "cancel", "earlier", "later"}
    Uids = {1, 2}
INVARIANTS
    OneTask
    FiresOnTime
CHECK_DEADLOCK FALSE
