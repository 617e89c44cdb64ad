SPECIFICATION Spec
CONSTANTS
    Symbols <- First
    Doubtful <- None
    Trading <- First
    MaxLoads = 1
    MaxTrouble = 1
INVARIANTS
    ActiveHasBars
CHECK_DEADLOCK FALSE
