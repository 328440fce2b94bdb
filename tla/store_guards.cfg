SPECIFICATION Spec
CONSTANTS
  c1 = c1
  c2 = c2
  Containers = {c1}
  Pool <- OneContainer
  Claims = {k1, k2}
  Desktops = {}
  None = None
  Tasks = {t1, t2}
  Ops = {o1}
  CardSync = FALSE
  Env <- StoreMix
  MaxCrashes = 0
SYMMETRY Interchangeable
INVARIANTS TypeOK ReservationHeld OwnDataOnly MarkerStaysShort
PROPERTIES FreshClaimKept LeaseImplemented
CHECK_DEADLOCK FALSE
