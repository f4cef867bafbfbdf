SPECIFICATION Spec
CONSTANTS
  Tenants = {t1, t2}
  Emails = {e1, e2}
  Identities = {i1, i2}
  NoIdentity = NoIdentity
  Calls = {c1, c2, c3}
  None = None
SYMMETRY RequestSymmetry
CHECK_DEADLOCK FALSE
INVARIANTS
  TypeOK
PROPERTIES
  IdentityStays
  InactiveOnlyByRace
  ImplementsDirectory
