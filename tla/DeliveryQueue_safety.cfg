SPECIFICATION Spec
CONSTANTS
    e1 = e1
    e2 = e2
    g1 = g1
    g2 = g2
    None = None
    Executions <- TwoExecutions
    Gateways <- TwoGateways
    Pid <- DistinctPids
    StartKnown <- OnlyFirst
    MaxTerminal = 1
    DrainLimit = 1
    MaxRequests = 2
SYMMETRY ExecutionsAlike
INVARIANTS
    SendsAreRationed
PROPERTIES
    OutcomeIsFinal
    SuccessIsHonest
CHECK_DEADLOCK FALSE
