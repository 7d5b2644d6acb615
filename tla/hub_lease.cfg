SPECIFICATION Spec
CONSTANTS
    a1 = a1
    a2 = a2
    None = None
    Attachments = {a1, a2}
    Controllers = {a1, a2}
    SubscriberBuffer = 1
    MaxBytes = 2
    MaxFrames = 2
    Sizes = {1}
    MaxOutput = 1
    MaxLeases = 2
    MaxStops = 0
SYMMETRY Symmetry
CHECK_DEADLOCK FALSE
INVARIANTS
    TypeOK
    WriteFenced
    LeaseAgreement
    HolderKnowsLease
PROPERTIES
    RevocationTold
