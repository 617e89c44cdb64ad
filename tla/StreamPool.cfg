SPECIFICATION StreamSpec
CONSTANTS
    here = here
    there = there
    Symbols <- Two
    Doubtful <- None
    Trading <- First
    MaxLoads = 1
    MaxTrouble = 3
    LastMinute = 3
    DayLength = 2
    BarLimit = 2
    QueueSize = 1
    CacheGap = 1
    MaxPushes = 2
    MaxUpsets = 1
    Streamers = {here, there}
    Ttl = 3
    LastTick = 8
INVARIANTS
    WarmupMatches
    StreamIsSound
    ClosedCandlesAreKept
    OverlapIsOverdue
CHECK_DEADLOCK FALSE
