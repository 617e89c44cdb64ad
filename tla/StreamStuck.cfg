SPECIFICATION FairSpec
CONSTANTS
    Symbols <- Two
    Doubtful <- First
    Trading <- None
    MaxLoads = 1
    MaxTrouble = 1
PROPERTIES
    PoolFollowsWatchList
CHECK_DEADLOCK FALSE
