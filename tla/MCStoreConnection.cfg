SPECIFICATION FairSpec
CONSTANTS
  loop = loop
  thread = thread
  item1 = item1
  item2 = item2
  list1 = list1
  row1 = row1
  mark1 = mark1
  NoCall = NoCall
  NoAnswer = NoAnswer
  Callers = {loop, thread}
  Calls <- MCCalls
  Owner <- MCOwner
  Statements <- MCStatements
  Reads = {list1, row1}
  Cursors = {row1}
  Rescuers = {loop}
  MaxErrors = 2
INVARIANTS
  TypeOK
  PairsTogether
  LostOnlyToRollback
PROPERTIES
  ImplementsStore
  RescueHeals
CHECK_DEADLOCK FALSE
