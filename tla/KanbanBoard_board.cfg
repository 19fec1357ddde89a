SPECIFICATION FairSpec
CONSTANTS
  parent = parent
  child = child
  Tasks = {parent, child}
  Parents <- Chain
  Reviewing = {parent}
  Hand = Hand
  None = None
  MaxRuns = 2
  FailureLimit = 1
  DefaultLimit = 2
  SystemicLimit = 1
  ViolationLimit = 2
  RecurrenceLimit = 2
  MaxUpsets = 1
INVARIANTS TypeOK RunsAreBooked ParentsComeFirst ReviewStaysReview BreakerHolds
PROPERTIES SweepsLeaveNobody OnlyPeopleRevive EveryRunEnds LanesAreServed
CHECK_DEADLOCK FALSE
