CONSTANTS
  e1 = e1
  e2 = e2
  p1 = p1
  p2 = p2
  x1 = x1
  x2 = x2
  Entrances = {e1, e2}
  Exits = {x1, x2}
  Plates = {p1, p2}
  NoPlate = NoPlate
  NoExit = NoExit
  MaxVisits = 2
SPECIFICATION FairSpec
INVARIANTS
  TypeOK
  RevenueMatchesBills
  BilledCarIsTimed
  LoneCarIsReset
PROPERTIES
  GateProtocol
  LPRIsCleared
CHECK_DEADLOCK FALSE
