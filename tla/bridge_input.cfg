SPECIFICATION FairSpec
CONSTANTS
    Takeover = TRUE
    InputCapacity = 1
    ResizeCapacity = 1
    MaxChunks = 3
    MaxSizes = 2
    MaxConnections = 2
CHECK_DEADLOCK FALSE
INVARIANTS
    InputInOrder
PROPERTIES
    InputArrives
    SizeSettles
