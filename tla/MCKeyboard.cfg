\* The shell stops reading after MaxLines lines.
CHECK_DEADLOCK FALSE
SPECIFICATION KeyboardSpec
CONSTANTS
    Width = 4
    Height = 8
    Codes <- ScanCodes
    Lo <- Table
    Up <- Table
    Nul = "none"
    LineMax = 5
    HistMax = 2
    Prompt <- Dollar
    Outputs <- Answers
    MaxLines = 4
INVARIANTS
    ScreenShowsLine
    OneCursor
PROPERTIES
    ImplementsLineEditor
