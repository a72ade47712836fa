CONSTANTS
  Hook = {h1, h2}
  MaxFiles = 3
  MaxSwaps = 2
  MaxEdits = 0
  OnFailure = "block"
  Inputs <- FewInputs
  Locations = {"Explicit"}
  Configs <- LoggingConfig

SPECIFICATION Spec
SYMMETRY HookSymmetry

INVARIANT TypeOK
INVARIANT LogTellsTheAnswer
INVARIANT SilentMeansLogged
INVARIANT LinesArePrivate
PROPERTY OtherFileUntouched

CHECK_DEADLOCK FALSE
