SPECIFICATION FairSpec
CONSTANTS
    i1 = i1
    i2 = i2
    w1 = w1
    w2 = w2
    loop = loop
    g1 = g1
    NoAgent = NoAgent
    Agents = {i1}
    Workers = {w1, w2}
    Callers = {loop, g1}
    ResyncLoop = loop
    QueueCap = 1
    MaxRetries = 1
    MaxChanges = 3
    MaxFailures = 3
    MaxRestarts = 1
    MaxTimers = 2
PROPERTIES
    ResyncSafetyNet
    FailedRecovers
