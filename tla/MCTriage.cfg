SPECIFICATION FairSpec
CONSTANTS
  a = a
  b = b
  c = c
  None = None
  Items = {a, b}
  Unknown = {}
  OffTopic = {b}
  Near <- MCNearBoth
  Handlers = {h1, h2}
  Threads = {z1}
  MaxFaults = 1
INVARIANTS
  TypeOK
  NoSilentVerdict
  VerdictIsStored
  DuplicateHasSource
PROPERTY QueueDrains
CHECK_DEADLOCK FALSE
