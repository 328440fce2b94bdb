SPECIFICATION FairSpec
CONSTANTS
  Platforms = {gba, snes}
  gba = gba
  snes = snes
  Known = {gba, snes}
  Asked = {"quick", "roms"}
  Env = {}
  MaxChanges = 2
  MaxAsked = 1
  MaxStops = 1
  MaxFailures = 1
INVARIANTS Accounted
PROPERTIES EveryChangeSeen StopEndsNoLaterScan
CHECK_DEADLOCK FALSE
