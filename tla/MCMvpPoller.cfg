SPECIFICATION FairSpec
CONSTANTS
  flash = flash
  bad = bad
  plain = plain
  late = late
  Items = {flash, bad, plain, late}
  ItemOf <- MCItemOf
  CatI = {flash, late}
  Poison = {bad}
  PageSize = 2
  Cap = 1
  Attempts = 2
  None = None
  MaxFaults = 2
INVARIANTS
  PushedOnce
  NoSilentGap
PROPERTIES
  EveryItemHandled
CHECK_DEADLOCK FALSE
