SPECIFICATION DeliverySpec
CONSTANTS
    d1 = d1
    s1 = s1
    s2 = s2
    Messages <- OneDisaster
    Systems <- TwoSystems
    Steady <- OneSystem
    MaxRetries = 1
    MaxCopies = 4
    MaxLosses = 1
CHECK_DEADLOCK FALSE
INVARIANTS
    DeadLettersAreKept
