CONSTANTS
  Hook = {h1}
  MaxFiles = 1
  MaxSwaps = 0
  MaxEdits = 1
  OnFailure = "block"
  Inputs <- AllInputs
  Locations <- Location
  Configs <- AllConfigs

SPECIFICATION Spec

INVARIANT FailClosed
INVARIANT BlockIsRefused
PROPERTY HookEnds

CHECK_DEADLOCK FALSE
