SPECIFICATION FairSpec
CONSTANTS
  p1 = p1
  p2 = p2
  t1 = t1
  t2 = t2
  f1 = f1
  m1 = m1
  None = None
  Processes <- OneProcess
  Ticked <- TwoTicks
  Fired <- Nobody
  Manual <- OneManual
  Crowded <- Nobody
  Timely = FALSE
  Finite = FALSE
INVARIANT DeliveryIsFenced
INVARIANT OneRunPerProcess
PROPERTY GuardIsReleased
CHECK_DEADLOCK FALSE
