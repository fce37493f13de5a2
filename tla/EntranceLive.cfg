CONSTANTS
  p1 = p1
  p2 = p2
  p3 = p3
  e1 = e1
  e2 = e2
  Entrances = {e1}
  Plates = {p1, p2, p3}
  Permitted = {p1, p2}
  NoPlate = NoPlate
  LEVELS = 1
SPECIFICATION FairSpec
PROPERTIES
  GateProtocol
  QueuedCarReachesLPR
  LPRIsCleared
CHECK_DEADLOCK FALSE
