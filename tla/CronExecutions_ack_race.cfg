SPECIFICATION Spec
CONSTANTS
    e1 = e1
    g1 = g1
    g2 = g2
    g3 = g3
    w = w
    Worker = w
    None = None
    Executions <- OneExecution
    Gateways <- OneGateway
    Managed <- OneGateway
    StartKnown = {}
    Survivor = None
    MaxTerminal = 1
INVARIANTS
    DispatchFailureIsHonest
CHECK_DEADLOCK FALSE
