SPECIFICATION Spec
CONSTANTS
  b1 = b1
  b2 = b2
  w1 = w1
  w2 = w2
  g1 = g1
  g2 = g2
  p1 = p1
  p2 = p2
  Jobs = {g1, g2}
  KindOf <- MCGets
  Deployments = {{"get"}}
  Digests = 2
  MaxVerdicts = 2
  MaxFaults = 1
  MaxDays = 1
  AtOnce = 2
  MaxCalls = 2
INVARIANTS
  NoPartialReads
CHECK_DEADLOCK FALSE
