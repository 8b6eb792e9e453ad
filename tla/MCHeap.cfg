SPECIFICATION Spec
CONSTANTS
    PageSize = 12
    LowMem = 36
    MaxPhys = 120
    Hdr = 2
    Word = 2
    SizeMod = 64
    CounterMod = 32
    VmmFrames = 1
    Top = 96
    Memmaps <- MCMemmaps
    Requests <- MCRequests
    Arrays <- MCArrays
INVARIANTS
    TypeOK
    FullyCoalesced
    Accounting
    LiveExact
    InsideOwnFrames
PROPERTIES
    RefusedOnlyWhenFull
    ImplementsMemoryPool
