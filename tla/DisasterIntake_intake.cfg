SPECIFICATION Spec
CONSTANTS
    m1 = m1
    m2 = m2
    m3 = m3
    id1 = id1
    id2 = id2
    c1 = c1
    c2 = c2
    None = None
    Messages <- ThreeMessages
    Identifiers <- TwoIdentifiers
    IdentifierOf <- SecondAlone
    Invalid <- LastMessage
    Calls <- TwoCalls
SYMMETRY Interchangeable
INVARIANTS
    OneCallPerMessage
    AcceptedIsStored
    InboxTellsOutcome
