SPECIFICATION Spec
CONSTANTS
    FP_ONE = 4
    Quarter = 2
    SinTable <- Sines
    MOVE_SPEED = 2
    TURN_SPEED = 1
    FOV = 2
    MAP_W = 5
    MAP_H = 4
    Walls <- Maze
    StartX = 2
    StartY = 2
    NearAxis = 2
    Far = 100
    MAX_STEPS = 8
    Keys <- GameKeys
    MaxDown = 1
    QueueMax = 2
INVARIANTS
    TypeOK
    StaysInRoom
    RayMeetsWall
PROPERTIES
    OnlyLostCodesMakeStale
    EscapeLeaves
