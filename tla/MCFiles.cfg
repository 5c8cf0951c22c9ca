SPECIFICATION FairSpec
CONSTANTS
  b1 = b1
  b2 = b2
  w1 = w1
  w2 = w2
  g1 = g1
  g2 = g2
  p1 = p1
  p2 = p2
  Jobs = {b1, b2, w1, w2, g1, g2, p1, p2}
  KindOf <- MCKindOf
  Deployments <- MCDeployments
  Digests = 2
  MaxVerdicts = 2
  MaxFaults = 2
  MaxDays = 1
  AtOnce = 2
  MaxCalls = 2
INVARIANTS
  TornOnlyByOverlap
  AnnouncedIsShown
PROPERTIES
  EveryVerdictShows
CHECK_DEADLOCK FALSE
