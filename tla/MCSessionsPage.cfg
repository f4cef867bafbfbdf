SPECIFICATION FairSpec
CONSTANTS
  Devices = {d1, d2}
  MaxCalls = 4
  NoDevice = NoDevice
CHECK_DEADLOCK FALSE
INVARIANTS
  TypeOK
  UndisturbedPageIsTrue
PROPERTIES
  PageSettles
