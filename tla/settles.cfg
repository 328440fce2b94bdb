SPECIFICATION FairSpec
CONSTANTS
  c1 = c1
  c2 = c2
  Containers = {c1}
  Pool <- OneContainer
  Claims = {k1, k2}
  Desktops = {k2}
  None = None
  Tasks = {t1}
  Ops = {o1}
  CardSync = FALSE
  Env <- Settling
  MaxCrashes = 1
PROPERTIES NothingWedged DrainEnds ClaimAnswered
CHECK_DEADLOCK FALSE
