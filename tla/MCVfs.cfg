SPECIFICATION VfsSpec
CONSTANTS
    PageSize = 12
    LowMem = 36
    MaxPhys = 360
    Hdr = 2
    Word = 2
    SizeMod = 1024
    CounterMod = 1024
    VmmFrames = 1
    Top = 96
    Memmap <- MCMemmap
    VFS_MAX_NODES = 8
    RAM0_SIZE = 3
    UintMod = 256
    Byte = {0, 1}
    Extra <- MCExtra
    Offsets = {0, 2, 3}
    Contents <- MCContents
INVARIANT
    VfsTypeOK
PROPERTIES
    ResolutionStable
    ImplementsBlockDevice
