CONSTANTS
  p1 = p1
  p2 = p2
  p3 = p3
  Plates = {p1, p2, p3}
  NoPlate = NoPlate
  MaxNodes = 3
SPECIFICATION Spec
INVARIANTS
  TypeOK
  NewPlateIsAbsent
  LinksAreLive
PROPERTIES
  StoresImplemented
CHECK_DEADLOCK FALSE
