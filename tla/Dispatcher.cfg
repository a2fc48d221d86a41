SPECIFICATION Spec
CONSTANTS
    m1 = m1
    m2 = m2
    w1 = w1
    w2 = w2
    t1 = t1
    t2 = t2
    t3 = t3
    None = None
    Messages = {m1}
    Workers = {w1, w2}
    TaskIds = {t1, t2}
    AttemptsLimit = 3
    MaxInFlight = 1
    BatchSize = 1
    MaxAttempts = 2
    PublishOutcomes = {"published", "transient", "permanent", "panicked"}
    FailInOneTx = TRUE
    Undecodable = {}
    Expiries = {"later"}
    DrainTimeouts = {"zero", "positive"}
    Faults = {"crash", "lapse", "error", "permanent", "revive", "cancel"}
    MaxLate = 0
SYMMETRY Symmetry
INVARIANTS
    PublishedImpliesAccepted
    DuplicatesOnlyInWindows
CHECK_DEADLOCK FALSE
