SPECIFICATION FairSpec
CONSTANTS
    c1 = c1
    c2 = c2
    a = a
    None = None
    Elsewhere = Elsewhere
    Conns = {c1, c2}
    Agents = {a}
    AgentOf <- MCAgentOf
    CanControl = {c1}
    MaxConnections = 2
    MaxConnectionsPerAgent = 1
    MaxFrames = 1
CHECK_DEADLOCK FALSE
INVARIANTS
    SlotsExact
    TakeoversBacked
PROPERTIES
    EndsTogether
    ThreadsEnd

