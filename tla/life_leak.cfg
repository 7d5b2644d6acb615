SPECIFICATION Spec
CONSTANTS
    c1 = c1
    Clients = {c1}
    Retain = FALSE
    MaxGen = 2
    MaxRequests = 3
    MaxErrors = 0
    MaxMarks = 0
CHECK_DEADLOCK FALSE
INVARIANTS
    DeleteRemovesAll
