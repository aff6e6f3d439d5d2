SPECIFICATION Spec
CONSTANTS
  c1 = c1
  c2 = c2
  d1 = d1
  None = None
  Tcp = {c1, c2}
  Ws = {d1}
CHECK_DEADLOCK FALSE
INVARIANT NoWaiterDropped
