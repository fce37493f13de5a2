CONSTANTS
  p1 = p1
  p2 = p2
  e1 = e1
  Entrances = {e1}
  Plates = {p1, p2}
  Permitted = {p1, p2}
  NoPlate = NoPlate
  LEVELS = 1
SPECIFICATION EvacSpec
INVARIANT
  SpawnLevelExists
CHECK_DEADLOCK FALSE
