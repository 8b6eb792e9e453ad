SPECIFICATION Spec
CONSTANTS
    PageSize = 2
    LowMem = 4
    MaxPhys = 38
    Memmaps <- MCMemmaps
INVARIANTS
    FreeCountExact
    Conservation
    IInv
PROPERTY
    ImplementsFrameAllocator
CHECK_DEADLOCK FALSE
