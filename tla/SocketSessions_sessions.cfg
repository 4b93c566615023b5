SPECIFICATION Spec
CONSTANTS
    s1 = s1
    s2 = s2
    s3 = s3
    s4 = s4
    s5 = s5
    sys1 = sys1
    sys2 = sys2
    None = None
    Sockets <- FiveSockets
    Systems <- TwoSystems
    SystemOf <- LastToOther
SYMMETRY Interchangeable
INVARIANTS
    RegistryMatchesSockets
PROPERTIES
    RegistrationsAreKept
