CONSTANTS
  Hook = {h1, h2}
  MaxFiles = 2
  MaxSwaps = 0
  MaxEdits = 0
  OnFailure = "block"
  Inputs <- FewInputs
  Locations = {"Explicit"}
  Configs <- LoggingConfig

SPECIFICATION Spec
SYMMETRY HookSymmetry

INVARIANT LineIsOneObject

CHECK_DEADLOCK FALSE
