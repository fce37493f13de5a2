CONSTANTS
  MEDIAN_WINDOW = 3
  TEMPCHANGE_WINDOW = 2
  Modes = {"R"}
  NormalUnits = {1}
SPECIFICATION Spec
PROPERTY
  RaisingRaises
