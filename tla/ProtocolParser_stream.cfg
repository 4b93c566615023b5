SPECIFICATION ParserSpec
CONSTANTS
    Magic = 3
    Frames <- AllKinds
    MaxBody = 2
    MaxFrames = 3
CHECK_DEADLOCK FALSE
INVARIANTS
    CuttingDoesNotShow
    ErrorsAreLocal
    BufferBounded
