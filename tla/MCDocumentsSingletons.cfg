SPECIFICATION Spec
CONSTANTS
  p = p
  s = s
  u = u
  Order <- MCOrder
  NoCcir = NoCcir
  Unlisted = {u}
  Scores = {7, 9}
  Vectors <- MCVectors
  NoVector = NoVector
  SectionCap = 1
  RowCaps <- MCRowCaps
  MaxRows = 3
INVARIANTS
  SingletonsStaySingle
CHECK_DEADLOCK FALSE
