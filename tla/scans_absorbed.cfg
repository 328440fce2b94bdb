SPECIFICATION FairSpec
CONSTANTS
  Platforms = {gba, snes}
  gba = gba
  snes = snes
  Known = {gba}
  Asked = {}
  Env = {"folders"}
  MaxChanges = 1
  MaxAsked = 0
  MaxStops = 0
  MaxFailures = 0

PROPERTIES EveryChangeSeen
CHECK_DEADLOCK FALSE
