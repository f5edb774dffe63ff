SPECIFICATION IterFairSpec
CONSTANTS
  None = None
  NoPath = NoPath
  Root = Root
  k1 = k1
  k2 = k2
  t1 = t1
  odd = odd
  d1 = d1
  d2 = d2
  Keys = {k1, k2}
  Names = {t1}
  Others = {odd}
  Prefixes = {d1, d2}
  Streams = {s1, s2}
  Paths <- MCPaths
  DirOf <- MCDirOf
  Length <- MCLength
  NameLength = 38
  PrefixLength = 2
INVARIANTS TypeOK WalkOK AnswersCurrent OwnUntouched VisitsStored NoneMissed
PROPERTIES VisitedOnce CountEnds
