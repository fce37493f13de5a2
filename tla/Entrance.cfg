CONSTANTS
  p1 = p1
  p2 = p2
  p3 = p3
  e1 = e1
  e2 = e2
  Entrances = {e1, e2}
  Plates = {p1, p2}
  Permitted = {p1, p2}
  NoPlate = NoPlate
  LEVELS = 1
SPECIFICATION Spec
INVARIANTS
  TypeOK
  SpawnMatchesDecision
  OneCarPerPlate
SYMMETRY Symmetry
CHECK_DEADLOCK FALSE
