SPECIFICATION Spec
CONSTANTS
    None = None
    Plain = {"tenant_id", "conversation_id", "sent_at", "expires_at",
             "destination"}
    Trace = {"traceparent"}
    Promoted = {"tenant_id", "conversation_id", "expires_at"}
    Addresses = {"destination"}
    StoreContent = "json"
    Calls <- MCCalls
    Depth = 2
    MaxRounds = 2
    MaxAgain = 2
INVARIANTS
    TypeOK
    Positional
    PermanentIsNotStored
    AckedInTimeCounts
    StoredOnce
    StoredDecodes
    SameOnEveryRoute
PROPERTY BatchReturns
CHECK_DEADLOCK FALSE
