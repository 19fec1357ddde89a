SPECIFICATION FairSpec
CONSTANTS
  o1 = o1
  Obligations = {o1}
  MaxGateways = 3
  Pid <- OwnPids
  MaxAttempts = 2
  MaxLinks = 2
  LedgerFails = TRUE
  None = None
INVARIANTS TypeOK SendsAreBudgeted OneGatewayPerRow KnownSendsAreFlagged
 
CHECK_DEADLOCK FALSE
