SPECIFICATION FairSpec
CONSTANTS
  x = x
  y = y
  s1 = s1
  s2 = s2
  s3 = s3
  i1 = i1
  i2 = i2
  i3 = i3
  garbled = garbled
  torn = torn
  bad = bad
  worse = worse
  None = None
  Adapters = {x, y}
  Scheduled = {x, y}
  NewestFirst = {y}
  Lenient = {y}
  Sources = {s1, s2, s3}
  SourcesOf <- MCSourcesOf
  Down = {}
  Items = {i1, i2, i3, garbled, torn, bad, worse}
  Mail <- MCMail
  Unreadable = {garbled, torn}
  Unstorable = {bad, worse}
  Window = 2
  Tasks = {r1, r2}
  MaxFaults = 2
INVARIANTS
  TypeOK
  LockMatchesRun
  AnnouncedAtMostOnce
  NoSilentItem
PROPERTIES
  MailIsStored
