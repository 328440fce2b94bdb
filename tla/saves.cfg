SPECIFICATION FairSpec
CONSTANTS
  Devices = {d1, d2}
  d1 = d1
  d2 = d2
  Confirming = {d2}
  None = None
  Limit = 2
  Env <- Overlapping
  MaxPlays = 2
  MaxMishaps = 1
INVARIANTS SeenBeforeReplaced RowHasFile
PROPERTIES NewestStays Converges
CHECK_DEADLOCK FALSE
