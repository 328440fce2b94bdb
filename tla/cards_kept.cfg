SPECIFICATION CardSpec
CONSTANTS
  c1 = c1
  c2 = c2
  returner = returner
  Containers = {c1, c2}
  Pool <- TwoContainers
  Claims = {k1, k2, k3}
  Player <- Returning
  Foreign = Foreign
  Desktops = {}
  None = None
  Tasks = {t1}
  Ops = {}
  CardSync = TRUE
  Env <- Both
  Faults <- Nothing
  Reverts = FALSE
  MaxWrites = 1
  MaxCrashes = 0
SYMMETRY SameClaims
PROPERTIES ProgressKept ResumesLastPlayed PreexistingKept
CHECK_DEADLOCK FALSE
