SPECIFICATION FairSpec
CONSTANTS
    c1 = c1
    Clients = {c1}
    Retain = TRUE
    MaxGen = 2
    MaxRequests = 4
    MaxErrors = 1
    MaxMarks = 1
CHECK_DEADLOCK FALSE
INVARIANTS
    TypeOK
    NoOrphanClaim
    WorkspaceKept
PROPERTIES
    RequestsComplete
