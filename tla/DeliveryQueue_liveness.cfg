SPECIFICATION FairSpec
CONSTANTS
    e1 = e1
    e2 = e2
    g1 = g1
    g2 = g2
    None = None
    Executions <- TwoExecutions
    Gateways <- TwoGateways
    Pid <- SamePids
    StartKnown <- TwoGateways
    MaxTerminal = 1
    DrainLimit = 2
    MaxRequests = 1
PROPERTIES
    ImplementsAtMostOnce
    QueueIsServed
    WorkerIsAnswered
CHECK_DEADLOCK FALSE
