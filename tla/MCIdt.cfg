\* A processor that lost its way does nothing more here.
CHECK_DEADLOCK FALSE
SPECIFICATION IdtSpec
CONSTANTS
    Vectors <- Raised
    Numbers <- Registered
    ErrorCodes <- WithErrorCode
    Gdts <- Loaders
    Length = 2
INVARIANTS
    ProgramUndisturbed
    StackAgreed
PROPERTIES
    RepairedRepeatedOrReset
