SPECIFICATION TimersSpec
CONSTANTS
    Null = Null
    MaxInFlight = 2
    ClaimSize = 2
    Lease = 22
    StoreTimeout = 2
    PollInterval = 2
    IdlePollInterval = 3
    StatsInterval = 17
    MaxTime = 1000
VIEW Relative
INVARIANTS
    RenewedWithinLease
    GivenUpInTime
CHECK_DEADLOCK FALSE
