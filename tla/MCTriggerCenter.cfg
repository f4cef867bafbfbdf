SPECIFICATION Spec
CONSTANTS
  Emails = {"a", "b"}
  Decks = {{"login", "hammer"}, {"register"}, {"lockout"}, {"hooks", "force"}, {"inspect"}}
  Limit = 2
  Window = 2
  Attempts = 3
  MaxAttempts = 2
  DevTooling = TRUE
  Slots = {1, 2}
INVARIANTS
  TypeOK
  CountdownNeverEarly
  HammerTripsLimit
  UndisturbedForceLocks
