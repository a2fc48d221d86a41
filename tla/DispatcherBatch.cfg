SPECIFICATION Spec
CONSTANTS
    m1 = m1
    m2 = m2
    w1 = w1
    w2 = w2
    t1 = t1
    t2 = t2
    t3 = t3
    None = None
    Messages = {m1, m2}
    Workers = {w1}
    TaskIds = {t1, t2, t3}
    AttemptsLimit = 3
    MaxInFlight = 2
    BatchSize = 2
    MaxAttempts = 2
    PublishOutcomes = {"published", "transient", "panicked"}
    FailInOneTx = FALSE
    Undecodable = {m2}
    Expiries = {"never"}
    DrainTimeouts = {"zero", "positive"}
    Faults = {"lapse", "error", "permanent"}
    MaxLate = 1
SYMMETRY Symmetry
INVARIANTS
    ClaimGate
    ExhaustedOnlyAtLimit
CHECK_DEADLOCK FALSE
