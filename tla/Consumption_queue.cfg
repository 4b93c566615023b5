SPECIFICATION FairConsumptionSpec
CONSTANTS
    m1 = m1
    s1 = s1
    s2 = s2
    Messages <- OneMessage
    Systems <- TwoSystems
    Steady <- OneSystem
    MaxRetries = 1
    MaxCopies = 4
    MaxLosses = 1
CHECK_DEADLOCK FALSE
INVARIANTS
    NoMessageLost
    AcksAreOwn
    SuccessHasRow
    FanOutIsWhole
PROPERTIES
    EventuallyEmpty
