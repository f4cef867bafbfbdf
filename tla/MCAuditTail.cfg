SPECIFICATION FairSpec
CONSTANTS
  Calls = {c1, c2, c3}
  Events = {"after_login", "on_new_session"}
  Wanted = {"after_login"}
  StreamBatch = 2
  MaxBreaks = 1
CHECK_DEADLOCK FALSE
INVARIANTS
  TypeOK
  TailMissesOnlyLateRows
  BadgeIsExact
PROPERTIES
  VisibleRowIsDelivered
