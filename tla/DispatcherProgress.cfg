SPECIFICATION ProgressSpec
CONSTANTS
    m1 = m1
    m2 = m2
    w1 = w1
    w2 = w2
    t1 = t1
    t2 = t2
    t3 = t3
    None = None
    Messages = {m1}
    Workers = {w1, w2}
    TaskIds = {t1}
    AttemptsLimit = 3
    MaxInFlight = 1
    BatchSize = 1
    MaxAttempts = 2
    PublishOutcomes = {"published", "transient", "permanent", "panicked"}
    FailInOneTx = FALSE
    Undecodable = {}
    Expiries = {"never"}
    DrainTimeouts = {"positive"}
    Faults = {"crash", "error", "permanent", "cancel"}
    MaxLate = 0
PROPERTIES
    EveryMessageSettles
    CancelledRunReturns
    PermanentErrorSurfaces
CHECK_DEADLOCK FALSE
