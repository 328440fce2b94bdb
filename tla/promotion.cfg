SPECIFICATION PromotionSpec
CONSTANTS
  Requests = {r1, r2, r3}
  r1 = r1
  r2 = r2
  r3 = r3
  Situations <- Withstood
  MaxFailures = 1
INVARIANTS NothingLost RowMatchesDisk
CHECK_DEADLOCK FALSE
