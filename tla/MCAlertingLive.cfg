SPECIFICATION FairSpec
CONSTANTS
  a = a
  b = b
  t1 = t1
  t2 = t2
  None = None
  Items = {a, b}
  Missing = {b}
  Triggers = {t1, t2}
  Refs <- MCRefs
  Handlers = {h1, h2}
  TTL = 2
  ShortWindow = 1
  ShortCap = 1
  LongWindow = 2
  LongCap = 1
  Attempts = 2
  MaxClock = 1
  MaxFaults = 1
PROPERTIES
  TriggersDrain
  SuppressedIsResolved
CHECK_DEADLOCK FALSE
