SPECIFICATION StartedSpec
CONSTANTS
    m1 = m1
    m2 = m2
    w1 = w1
    w2 = w2
    t1 = t1
    t2 = t2
    t3 = t3
    None = None
    Messages = {m1, m2}
    Workers = {w1}
    TaskIds = {t1, t2}
    AttemptsLimit = 3
    MaxInFlight = 2
    BatchSize = 2
    MaxAttempts = 2
    PublishOutcomes = {"published"}
    FailInOneTx = FALSE
    Undecodable = {}
    Expiries = {"never"}
    DrainTimeouts = {"positive"}
    Faults = {"cancel"}
    MaxLate = 0
SYMMETRY Symmetry
PROPERTY DeliveredRowsKeepLease
CHECK_DEADLOCK FALSE
