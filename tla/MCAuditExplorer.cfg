SPECIFICATION ExplorerSpec
CONSTANTS
  Calls = {c1, c2, c3, c4}
  Events = {"after_login", "on_new_session"}
  Wanted = {"after_login"}
  Limits = {0, 1, 3}
  MaxLimit = 2
  Readers = {"walker", "explorer"}
  PageLimit = 2
  RowH = 2
  Viewport = 2
  Overscan = 1
  DevTooling = TRUE
  MaxTable = 2
  MaxLoads = 2
  MaxArrivals = 2
SYMMETRY CallSymmetry
CHECK_DEADLOCK FALSE
INVARIANTS
  ExplorerTypeOK
  PagingIsExact
  ViewportIsRendered
  FollowPinsToLatest
