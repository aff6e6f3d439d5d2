SPECIFICATION Spec
CONSTANTS
  u1 = u1
  u2 = u2
  c1 = c1
  c2 = c2
  c3 = c3
  i1 = i1
  i2 = i2
  e1 = e1
  None = None
  Users = {u1, u2}
  Ids = {i1, i2}
  Calls = {c1, c2, c3}
  UserOf <- TwoForOne
  Events = {e1}
  MaxTries = 2
CHECK_DEADLOCK FALSE
INVARIANT BoundStaysAnswered
INVARIANT AuditIsTruthful
PROPERTY ImplementsPeerBinding
PROPERTY BindsEnd
