SPECIFICATION Spec
CONSTANTS
    PageSize = 12
    LowMem = 36
    MaxPhys = 120
    Hdr = 2
    Word = 2
    SizeMod = 64
    CounterMod = 26
    VmmFrames = 1
    Top = 96
    Memmaps <- MCHoleMemmaps
    Requests <- MCRequests
    Arrays <- MCArrays
INVARIANT
    InsideOwnFrames
