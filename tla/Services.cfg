SPECIFICATION ServicesSpec
CONSTANTS
    a = a
    b = b
    lk = lk
    e1 = e1
    e2 = e2
    cs1 = cs1
    cs2 = cs2
    ts1 = ts1
    ts2 = ts2
    n1 = n1
    n2 = n2
    dk = dk
    ck = ck
    b1 = b1
    b1x = b1x
    b1y = b1y
    b2 = b2
    s1 = s1
    s2 = s2
    Tasks <- PairTasks
    Locks = {lk}
    LockOf <- LockNames
    RetryLimit <- NoRetries
    OutcomeTasks <- WithOutcomes
    Deferring = {}
    Manual = {}
    Expiring = {}
    Execs = {e1, e2}
    Faulty = {}
    MaxRetries = 0
    CrossSection <- CrossRuns
    TimeSeries <- TimeRuns
    Readers = {e1}
    Senders = {a, b}
    Messages = {n1, n2}
    DedupKey <- SameDedup
    CooldownKey <- SameCooldown
    Muted = {}
    Channels = {"telegram"}
    DedupTTL = 3
    Cooldown = 1
    InFlight = 2
    MinutesPerDay = 10
    QuietFrom = 4
    QuietTo = 5
    MaxTime = 5
    Symbols = {a, b}
    LastBar = 2
    BatchSize = 2
    MaxReconciles = 3
    MaxCnFaults = 1
    Txns <- Requests
    OperationId <- Ids
    Kind <- Kinds
    Quantity <- Quantities
    When <- Times
    Positions = {1, 2}
    LastSession = 4
    RefreshDays = 3
    ScaleMinDates = 2
    MaxBases = 2
    MaxSyncs = 2
    Evaluators = {a, b}
    LastMinuteBar = 2
    StableEvaluations = 2
    StableSpan = 1
    ObservationGap = 2
    MaxBarAge = 1
    ClockSkew <- Skews
    MaxRevision = 4
    MaxEvalFaults = 1
    Publishers = {a, b}
    Viewers = {n1}
    Stocks = {s1}
    SessionLength = 2
    LastTime = 2
    Backends = {"cli", "api"}
    LLMRetries = 2
INVARIANTS
    ServicesTypeOK
    NoOverlap
    OneLivePerDate
    ReleasesAreKept
    NoiseIsControlled
    WindowsAreOwned
    LedgerAgrees
    DocumentIsHistory
    OnePublication
    FallsBackInOrder
PROPERTIES
    SerialLedger
    HistoryIsSound
CHECK_DEADLOCK FALSE
