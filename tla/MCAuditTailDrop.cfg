SPECIFICATION Spec
CONSTANTS
  Calls = {c1, c2}
  Events = {"after_login"}
  Wanted = {"after_login"}
  StreamBatch = 2
  MaxBreaks = 1
CHECK_DEADLOCK FALSE
INVARIANTS
  NoEventMissedAcrossDrop
