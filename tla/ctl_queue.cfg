SPECIFICATION Spec
CONSTANTS
    i1 = i1
    i2 = i2
    w1 = w1
    w2 = w2
    loop = loop
    g1 = g1
    NoAgent = NoAgent
    Agents = {i1, i2}
    Workers = {w1, w2}
    Callers = {loop, g1}
    ResyncLoop = loop
    QueueCap = 1
    MaxRetries = 1
    MaxChanges = 2
    MaxFailures = 2
    MaxRestarts = 1
    MaxTimers = 1
SYMMETRY Symmetry
INVARIANTS
    TypeOK
    OneReconcilePerAgent
    PendingExact
    NoLostWakeup
