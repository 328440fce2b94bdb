SPECIFICATION BrokerSpec
CONSTANTS
  c1 = c1
  Containers = {c1}
  Pool <- OneContainer
  Claims = {k1, k2, k3}
  Desktops = {}
  None = None
  Tasks = {t1, t2}
  Ops = {o1}
  CardSync = FALSE
  Env <- Launched
  MaxCrashes = 0
SYMMETRY Interchangeable
INVARIANTS LaunchHoldsClaim FiledForItsPlayer
PROPERTIES StopsOwnGame ExitStateCollected
CHECK_DEADLOCK FALSE
