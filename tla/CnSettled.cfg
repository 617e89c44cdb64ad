SPECIFICATION CnSpec
CONSTANTS
    Symbols = {a}
    LastBar = 2
    BatchSize = 1
    MaxReconciles = 3
    MaxCnFaults = 0
INVARIANT SettledHasFinalBar
CHECK_DEADLOCK FALSE
