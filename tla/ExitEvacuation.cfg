CONSTANTS
  e1 = e1
  p1 = p1
  x1 = x1
  Entrances = {e1}
  Exits = {x1}
  Plates = {p1}
  NoPlate = NoPlate
  NoExit = NoExit
  MaxVisits = 2
SPECIFICATION EvacFairSpec
INVARIANTS
  EvacTypeOK
  AbandonedGateIsOpen
  BilledCarIsTimed
PROPERTIES
  AlarmOpensGates
  MovementsEnd
CHECK_DEADLOCK FALSE
