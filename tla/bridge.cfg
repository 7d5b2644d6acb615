SPECIFICATION FairSpec
CONSTANTS
    Takeover = FALSE
    ReplayFrames = 1
    WindowTries = 2
    MaxOutput = 3
    MaxGenerations = 2
    MaxFaults = 2
    MaxCrashes = 1
CHECK_DEADLOCK FALSE
INVARIANTS
    ShownInOrder
    CursorShown
PROPERTIES
    CatchesUp
