SPECIFICATION FairSpec
CONSTANTS
    a = a
    b = b
    u1 = u1
    t1 = t1
    t2 = t2
    Rows <- TwoRows
    LateRows <- Second
    ResultRows <- TwoRows
    OutboundId <- SharedId
    Runs <- OneRun
    Tasks <- TwoTasks
    MaxRetries = 1
    ConcurrencyLimit = 1
    MaxWire = 1
INVARIANTS
    TypeOK
    SuccessMeansAccepted
    OvershootBounded
PROPERTIES
    GivesUpOnlyWhenExhausted
    FinalStaysFinal
    EventuallyFinal
