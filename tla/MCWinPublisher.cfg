SPECIFICATION Spec
CONSTANTS
  r1 = r1
  r2 = r2
  d1 = d1
  d2 = d2
  v1 = v1
  v2 = v2
  None = None
  Runs = {r1, r2}
  Displays = {d1, d2}
  Rates = {v1}
  MaxSets = 2
CHECK_DEADLOCK FALSE
INVARIANT OneAtATime
INVARIANT SenderIsOwn
INVARIANT StaleIsFlagged
PROPERTY RetunesApply
PROPERTY StopEnds
PROPERTY DroppedReceiverEnds
