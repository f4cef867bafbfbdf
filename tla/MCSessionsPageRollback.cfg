SPECIFICATION Spec
CONSTANTS
  Devices = {d1, d2}
  MaxCalls = 3
  NoDevice = NoDevice
CHECK_DEADLOCK FALSE
PROPERTIES
  RollbackRestoresItsRow
