SPECIFICATION StoresSpec
CONSTANTS
    m1 = m1
    w1 = w1
    w2 = w2
    None = None
    Messages = {m1}
    Workers = {w1, w2}
    Undecodable = {m1}
    Lease = 1
    Delays = {0, 1}
    Lifetimes = {None, 1}
    BatchSize = 2
    PurgeBatchSize = 1
    PublishedRetention = 0
    DeadRetention = 1
    AttemptsLimit = 2
    MaxStale = 1
    MaxTime = 4
    MaxSequence = 1
    MaxInjected = 2
SYMMETRY WorkerSymmetry
INVARIANTS
    CheckConstraints
    LeaseOnlyOnPending
    StatsAgree
PROPERTIES
    PublishedIsFinal
    LiveLeaseIsExclusive
    AttemptsOnlyReset
    NothingPendingIsLost
    ImplementsOutbox
    SameAsSql
    InjectedFailureChangesNothing
CHECK_DEADLOCK FALSE
