SPECIFICATION StatusSpec
CONSTANTS
  Heat = {1, 3}
  Ambient = 1
  Limit = 3
  Setpoint = 2
  Widths = {0, 170, 175, 180, 400}
  Nominal = 175
  Total = 2
  MaxLog = 2
INVARIANTS
  MissingReadingsAreMissing
CHECK_DEADLOCK FALSE
