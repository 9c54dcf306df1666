SPECIFICATION FairSpec
CONSTANTS
    Ips = {a, b}
    Clusters = {c, d}
    MaxLines = 3
    MaxLength = 2
    IpSize = 2
    ClusterNum = 1
    IpFiles <- SmallIpFiles
    StatsFiles <- SmallStatsFiles
    Missing = Missing
    NoStats = NoStats
INVARIANTS LoadsLastLines AnswersFollowFiles
PROPERTY InitializeEnds
CHECK_DEADLOCK FALSE
