SPECIFICATION Spec
CONSTANTS
  w1 = w1
  t1 = t1
  t2 = t2
  u1 = u1
  i1 = i1
  None = None
  Ws = {w1}
  Tcp = {t1}
  Addr = {}
  Id = {i1}
  Requester = {t1}
  MaxPunch = 1
  MaxOutbox = 1
CHECK_DEADLOCK FALSE
INVARIANT AckAnswersRequester
