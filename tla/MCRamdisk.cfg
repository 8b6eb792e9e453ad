SPECIFICATION Spec
CONSTANTS
    PageSize = 12
    LowMem = 36
    MaxPhys = 120
    Hdr = 2
    Word = 2
    SizeMod = 64
    CounterMod = 1024
    fileA = fileA
    fileB = fileB
    fileC = fileC
    NoName = NoName
    Top = 84
    VmmFrames = 1
    RAM0_SIZE = 40
    Memmap <- MCMemmap
    MaxFiles = 2
    Names = {fileA, fileB, fileC}
    Texts <- MCTexts
    TestSizes <- MCTestSizes
    MaxFailures = 2
SYMMETRY Files
INVARIANTS
    BlocksAccounted
    DataFits
    CountAccounted
PROPERTY
    ImplementsFileStore
