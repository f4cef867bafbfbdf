SPECIFICATION Spec
CONSTANTS
  Digits = {1, 2}
  Length = 2
  Destinations = {"login", "sessions", "dashboard"}
  MaxCalls = 3
CHECK_DEADLOCK FALSE
INVARIANTS
  TypeOK
  ShownCodeIsPending
  ExpiredOnlyAfterSession
  BusyIsExact
