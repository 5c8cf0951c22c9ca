SPECIFICATION FairSpec
CONSTANTS
  x = x
  y = y
  s1 = s1
  s2 = s2
  s3 = s3
  i1 = i1
  i2 = i2
  i3 = i3
  garbled = garbled
  torn = torn
  bad = bad
  worse = worse
  None = None
  Adapters = {x}
  Scheduled = {x}
  NewestFirst = {}
  Lenient = {}
  Sources = {s1, s2}
  SourcesOf <- MCOutageSources
  Down = {s1}
  Items = {i2}
  Mail <- MCOutageMail
  Unreadable = {}
  Unstorable = {}
  Window = 2
  Tasks = {r1, r2}
  MaxFaults = 0
PROPERTIES
  OutageIsLocal
