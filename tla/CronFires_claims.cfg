SPECIFICATION Spec
CONSTANTS
  p1 = p1
  p2 = p2
  t1 = t1
  t2 = t2
  f1 = f1
  m1 = m1
  None = None
  Processes <- TwoProcesses
  Ticked <- TwoTicks
  Fired <- OneFired
  Manual <- Nobody
  Crowded <- Nobody
  Timely = TRUE
  Finite = FALSE
SYMMETRY Symmetry
INVARIANT OneRunAtATime
INVARIANT LiveRunKeepsClaim
CHECK_DEADLOCK FALSE
