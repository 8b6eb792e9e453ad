\* A caught fault stops the machine.
CHECK_DEADLOCK FALSE
SPECIFICATION Spec
CONSTANTS
    PageSize = 4
    LowMem = 8
    MaxPhys = 80
    FrameCount = 14
    Memmap <- MachineMemmap
    FanOut = 2
    Hhdm = 88
    HugePages = 2
    Handed <- AnyCaller
    Starts <- LastOfTable
    Targets <- OneTarget
    Flags <- UserFlags
    MaxMaps = 2
INVARIANTS
    NoFrameLost
    DirectMapEverywhere
PROPERTIES
    ImplementsAddressSpace
