SPECIFICATION FairSpec
CONSTANTS
  p1 = p1
  p2 = p2
  Processes = {p1, p2}
  Times = 1
  Upsets <- Anything
  MaxUpsets = 3
  None = None
INVARIANTS TypeOK AtMostTimes RecordedOnce LiveRunKeepsRecord
PROPERTIES RecordsItsOccurrence DueIsSettled
CHECK_DEADLOCK FALSE
