SPECIFICATION Spec
CONSTANTS
    ResponseTimeout = 2
    SessionCheckInterval = 6
    ReconnectInterval = 12
    EndTimeout = 1
    Chunks <- OneOrTwo
INVARIANTS
    AlwaysAWayBack
