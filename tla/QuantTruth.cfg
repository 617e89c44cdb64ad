SPECIFICATION DailyFairSpec
CONSTANTS
    e1 = e1
    Execs <- One
    Faulty <- One
    MaxRetries = 1
PROPERTY TaskStatusIsTruth
CHECK_DEADLOCK FALSE
