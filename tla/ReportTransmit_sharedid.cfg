SPECIFICATION Spec
CONSTANTS
    a = a
    b = b
    u1 = u1
    t1 = t1
    t2 = t2
    Rows <- TwoRows
    LateRows <- None
    ResultRows <- TwoRows
    OutboundId <- SharedId
    Runs <- OneRun
    Tasks <- OneTask
    MaxRetries = 0
    ConcurrencyLimit = 1
    MaxWire = 1
INVARIANTS
    SuccessIsItsOwn
