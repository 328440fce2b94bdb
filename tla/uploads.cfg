SPECIFICATION FairSpec
CONSTANTS
  u1 = u1
  u2 = u2
  p = p
  r1 = r1
  r2 = r2
  Uploads = {u1, u2}
  Completers <- TwoCompletions
  Cancelling = {u1}
  Total <- TwoAndOne
  Target <- SamePath
  None = None
  MaxTries <- TwoAndOne
  MaxLingering = 1
  MaxMishaps = 1
INVARIANTS PublishedFullLength NoPlaceholderLeft
PROPERTIES NeverOverwritten PathsKept TmpReclaimed
CHECK_DEADLOCK FALSE
