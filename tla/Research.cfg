SPECIFICATION ResearchSpec
CONSTANTS
    r1 = r1
    r2 = r2
    o1 = o1
    o2 = o2
    c1 = c1
    c2 = c2
    StrategyRuns <- Runs
    OutlookRounds <- Refreshes
    LastDay = 3
    MaxCatchup = 2
    MaxRunFaults = 2
    ReleaseSlots = {3, 4}
    Quarters = {"q1"}
    NearDays = 1
    LookAhead = 2
    LastTick = 3
    MaxExtra = 1
    MaxChanges = 2
    MaxMoves = 2
    Checkers <- Checks
    Nominating = {1, 2}
    BucketCount = 2
    MaxMishaps = 1
INVARIANTS
    ResearchTypeOK
    LedgerIsWhole
    SignalIsOne
PROPERTIES
    EverySessionSettles
    
CHECK_DEADLOCK FALSE
