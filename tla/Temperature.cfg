CONSTANTS
  MEDIAN_WINDOW = 3
  TEMPCHANGE_WINDOW = 2
  Modes = {"N", "F", "R", "other"}
  NormalUnits = {1}
SPECIFICATION Spec
INVARIANTS
  TypeOK
  FireDetected
  NoFalseAlarm
