SPECIFICATION Spec
CONSTANTS
  flash = flash
  bad = bad
  plain = plain
  late = late
  Items = {flash, bad, plain, late}
  ItemOf <- MCItemOf
  CatI = {flash, late}
  Poison = {}
  PageSize = 2
  Cap = 1
  Attempts = 2
  None = None
  MaxFaults = 1
INVARIANTS
  FailedIsRefetched
CHECK_DEADLOCK FALSE
