SPECIFICATION Spec
CONSTANTS
  Devices = {d1, d2}
  Items = {i1, i2}
  MaxClock = 2
  MaxEdits = 3
  None = None
PROPERTIES
  RestoreKeepsNewer
CHECK_DEADLOCK FALSE
