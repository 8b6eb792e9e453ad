\* The shell stops at MaxNow.
CHECK_DEADLOCK FALSE
SPECIFICATION Spec
CONSTANTS
    Reload = 18
    TickHz = 10
    Rates = {1, 3}
    Slack = 1
    Stall = 2
    Lead = 6
    Dates <- MCDates
    High = 12
    Span = 8
    MsPerS = 16
    MinHz = 9
    DefaultHz = 42
    Mod = 512
    Naps = {1, 12}
    MaxNow = 24
    Horizon = 60
INVARIANTS
    CalibrationBounded
PROPERTIES
    SleepBounded
    UptimeTrue
    ReadingWhole
    ReturnsToShell
