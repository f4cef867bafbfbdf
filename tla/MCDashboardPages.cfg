SPECIFICATION Spec
CONSTANTS
  Addresses = {"a"}
  MaxCalls = 5
INVARIANTS
  TypeOK
  SkeletonHasLoad
  ReportIsDue
