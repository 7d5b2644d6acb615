SPECIFICATION FairSpec
CONSTANTS
    a1 = a1
    a2 = a2
    None = None
    Attachments = {a1}
    Controllers = {a1}
    SubscriberBuffer = 1
    MaxBytes = 2
    MaxFrames = 2
    Sizes = {1, 2}
    MaxOutput = 3
    MaxLeases = 2
    MaxStops = 1
CHECK_DEADLOCK FALSE
INVARIANTS
    OutputContiguous
    ExitOnceAndLast
    ReplayExact
PROPERTIES
    StopReturns
    ExitDelivered
    DisconnectReleases
