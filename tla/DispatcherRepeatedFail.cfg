SPECIFICATION Spec
CONSTANTS
    m1 = m1
    m2 = m2
    w1 = w1
    w2 = w2
    t1 = t1
    t2 = t2
    t3 = t3
    None = None
    Messages = {m1, m2}
    Workers = {w1, w2}
    TaskIds = {t1, t2, t3}
    AttemptsLimit = 3
    MaxInFlight = 3
    BatchSize = 2
    MaxAttempts = 3
    PublishOutcomes = {"published", "transient", "permanent", "panicked"}
    FailInOneTx = FALSE
    Undecodable = {}
    Expiries = {"never"}
    DrainTimeouts = {"positive"}
    Faults = {"error"}
    MaxLate = 0
SYMMETRY Symmetry
INVARIANT DuplicatesOnlyInWindows
CHECK_DEADLOCK FALSE
