SPECIFICATION FairSpec
CONSTANTS
    Services <- BothServices
    MaxStarts = 3
    MaxCalls = 3
    MaxClients = 1
CHECK_DEADLOCK FALSE
INVARIANTS
    OneConsumer
PROPERTIES
    EventuallyConsumes
    EventuallyExits
