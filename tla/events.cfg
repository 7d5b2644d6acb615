SPECIFICATION FairSpec
CONSTANTS
    a = a
    b = b
    o = o
    p = p
    c = c
    h1 = h1
    h2 = h2
    None = None
    Agents = {a, b}
    Owners = {o, p}
    Owner <- MCOwner
    Clients = {c}
    Principal <- MCPrincipal
    Handlers = {h1, h2}
    Capacity = 2
    ChannelCapacity = 1
    MaxEvents = 3
    MaxFaults = 1
    MaxRestarts = 1
CHECK_DEADLOCK FALSE
INVARIANTS
    TypeOK
    ChannelsSafe
    GoneAnnounced
PROPERTIES
    ImplementsFeed
    Delivered
