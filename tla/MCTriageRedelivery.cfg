SPECIFICATION Spec
CONSTANTS
  a = a
  b = b
  c = c
  None = None
  Items = {a}
  Unknown = {}
  OffTopic = {}
  Near <- MCNear
  Handlers = {h1, h2}
  Threads = {z1}
  MaxFaults = 1
PROPERTY
  RedeliveryHarmless
CHECK_DEADLOCK FALSE
