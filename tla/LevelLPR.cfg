CONSTANTS
  e1 = e1
  e2 = e2
  p1 = p1
  p2 = p2
  LEVELS = 2
  NUM_SPOTS_LVL = 1
  Entrances = {e1, e2}
  Plates = {p1, p2}
  NoPlate = NoPlate
  MaxVisits <- OneComesBack
SPECIFICATION LprFairSpec
INVARIANTS
  TypeOK
  FullNotStale
  SpotIsLowestFree
  LprTypeOK
  ClassifiedRight
  CountsExact
PROPERTIES
  EveryCarLeaves
CHECK_DEADLOCK FALSE
