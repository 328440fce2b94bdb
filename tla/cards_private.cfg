SPECIFICATION CardSpec
CONSTANTS
  c1 = c1
  c2 = c2
  returner = returner
  Containers = {c1}
  Pool <- OneContainer
  Claims = {k1, k2, k3}
  Player <- Strangers
  Foreign = Foreign
  Desktops = {}
  None = None
  Tasks = {t1, t2}
  Ops = {}
  CardSync = TRUE
  Env <- Releases
  Faults <- AnyButStop
  Reverts = TRUE
  MaxWrites = 2
  MaxCrashes = 0
SYMMETRY Interchangeable
INVARIANTS CardStaysPrivate
PROPERTIES BootsOwnCard
CHECK_DEADLOCK FALSE
