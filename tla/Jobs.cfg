SPECIFICATION JobsSpec
CONSTANTS
    cs = cs
    ts = ts
    beat = beat
    byHand = byHand
    n1 = n1
    Runs <- Pair
    TrainRetries = 1
    MaxTrainFaults = 1
    TrendRuns <- Workers
    Beat = beat
    TrendPeriods <- OneChain
    LastDate = 4
    TradingDates = {1, 3, 4}
    AskedDates = {1, 2}
    Rows <- FirstDayTells
    MaxRevisions = 1
    MaxTrendFaults = 1
    SnapshotWriters <- Workers
    PageRequests = {n1}
    CacheTtl = 2
    LastHour = 4
    MaxWrites = 2
    MaxOutages = 1
INVARIANTS
    RebuildsAreWhole
    HitsAreFresh
PROPERTIES
    ConclusionStays
    TrainingConcludes
    CatchesUp
CHECK_DEADLOCK FALSE
