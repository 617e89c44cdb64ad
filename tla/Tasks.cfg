SPECIFICATION TasksSpec
CONSTANTS
    m = m
    q = q
    lk = lk
    e1 = e1
    Tasks <- Administered
    Locks = {lk}
    LockOf <- LockNames
    RetryLimit <- Retries2
    OutcomeTasks = {m}
    Deferring <- Parents
    Manual <- Administered
    Expiring <- Administered
    Execs <- OneExecution
    Faulty <- OneExecution
    MaxRetries = 2
INVARIANTS
    TasksTypeOK
    TruthAtRest
    RetryFollowsReportedFailure
    RowCoherent
    InputOutlivesReader
    ParentAgrees
PROPERTIES
    StatusNeverMovesBack
    EveryMessageConcludes
    LockReleased
    FinishedStays
    ExecutionConcludes
    InputReclaimed
CHECK_DEADLOCK FALSE
