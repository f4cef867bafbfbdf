SPECIFICATION PanelSpec
CONSTANTS
  Panels = {"dashboard", "platform"}
  MaxCalls = 5
CHECK_DEADLOCK FALSE
INVARIANTS
  PanelTypeOK
  EnrolsPendingSecret
  SavedCodesAreInForce
  PanelIsNeverStuck
