SPECIFICATION FairSpec
CONSTANTS
    a = a
    sys1 = sys1
    u1 = u1
    u2 = u2
    Rows <- OneRow
    Systems <- OneSystem
    SystemOf <- AllToOne
    Runs <- TwoRuns
    MaxRetries = 1
    ConcurrencyLimit = 2
INVARIANTS
    SuccessMeansAcknowledged
    FailedMeansExhausted
PROPERTIES
    FinalStaysFinal
    EventuallyFinal
