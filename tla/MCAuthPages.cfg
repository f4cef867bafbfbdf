SPECIFICATION FairSpec
CONSTANTS
  Emails = {a}
  NoEmail = NoEmail
  MaxCalls = 3
  MaxMounts = 4
CHECK_DEADLOCK FALSE
INVARIANTS
  TypeOK
  OneUseToken
  UndisturbedSessionIsNewest
PROPERTIES
  GuardsAreFreed
