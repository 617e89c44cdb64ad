SPECIFICATION FairSpec
CONSTANTS
    Symbols <- Two
    Doubtful <- First
    Trading <- First
    MaxLoads = 1
    MaxTrouble = 2
PROPERTIES
    Settles
    StopConcludes
CHECK_DEADLOCK FALSE
