SPECIFICATION Spec
CONSTANTS
    m1 = m1
    m2 = m2
    m3 = m3
    None = None
    Messages = {m1, m2, m3}
    Poisoned = {m3}
    Limit = 3
    MaxListDeadLimit = 2
    Queries <- MCQueries
    BatchSize = 2
    MaxRevivals = 1
INVARIANTS
    WalkIsExact
    CompleteMeansDrained
PROPERTIES
    WalkEnds
    PurgeLoopEnds
    StaleSnapshotIsHarmless
