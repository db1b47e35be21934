SPECIFICATION FairSpec
CONSTANTS
  s1 = s1
  s2 = s2
  i1 = i1
  r1 = r1
  r2 = r2
  NoRead = NoRead
  Subs = {s1, s2}
  Ids = {i1}
  IdOf <- MCIdOf
  Reads = {r1, r2}
  MaxAttempts = 2
  Interval = 1
  Spacing = 1
  MaxUpdates = 1
INVARIANTS
  ResumesOnlyWhenGranted
  SlotsAreSpaced
  FlappingIsBounded
PROPERTIES
  ReadsArePaced
  RemovalIsNewer
  ResumesOrEnds
CHECK_DEADLOCK FALSE
