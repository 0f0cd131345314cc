SPECIFICATION FramesSpec
CONSTANTS
    MaxPitch = 1
    MaxZoom = 2
    SetupTime = 1
    MaxTime = 3
    Positions <- MCPositions
    MaxMix = 2
INVARIANTS
    FramesTypeOK
    CallsInContext
    NothingLeft
    ReadyToDraw
    DrawsComplete
    Steered
CHECK_DEADLOCK FALSE
