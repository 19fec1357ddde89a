SPECIFICATION FairSpec
CONSTANTS
    e1 = e1
    g1 = g1
    g2 = g2
    g3 = g3
    w = w
    Worker = w
    None = None
    Executions <- OneExecution
    Gateways <- ThreeGateways
    Managed <- FirstAndThird
    StartKnown <- AllButSecond
    Survivor = g2
    MaxTerminal = 1
INVARIANTS
    RunnersOwnTheirRow
    LedgerIsHonest
PROPERTIES
    TerminalIsFinal
    EveryAttemptEnds
    DispatcherIsAnswered
CHECK_DEADLOCK FALSE
