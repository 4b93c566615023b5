SPECIFICATION FairPublicationSpec
CONSTANTS
    a = a
    b = b
    u1 = u1
    u2 = u2
    d = d
    s1 = s1
    s2 = s2
    Rows <- TwoRows
    Runs <- TwoRuns
    MaxRetries = 1
    ConcurrencyLimit = 2
    Devices <- OneDevice
    DevicesOf <- BothList
    SystemOf <- TwoSenders
    PoolSize = 2
    MaxCount = 3
CHECK_DEADLOCK FALSE
INVARIANTS
    GivesUpExhausted
    ChargesBounded
    TakenWhole
PROPERTIES
    ImplementsOutbox
    EventuallyFinal
    EventuallyAnswered
