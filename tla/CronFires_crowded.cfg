SPECIFICATION Spec
CONSTANTS
  p1 = p1
  p2 = p2
  t1 = t1
  t2 = t2
  f1 = f1
  m1 = m1
  None = None
  Processes <- OneProcess
  Ticked <- OneTick
  Fired <- OneFired
  Manual <- OneManual
  Crowded <- OneManual
  Timely = TRUE
  Finite = FALSE
INVARIANT OneRunAtATime
CHECK_DEADLOCK FALSE
