SPECIFICATION TimersSpec
CONSTANTS
    Null = Null
    MaxInFlight = 1
    ClaimSize = 1
    Lease = 6
    StoreTimeout = 2
    PollInterval = 1
    IdlePollInterval = 1
    StatsInterval = 0
    MaxTime = 26
INVARIANTS
    GivenUpInTime
CHECK_DEADLOCK FALSE
