CONSTANTS
  InitProc = {p1, p2}
  MaxFiles = 4
  MaxMoves = 2

SPECIFICATION InitConfigSpec
SYMMETRY InitSymmetry

INVARIANT HalfWrittenIsNoWeaker
PROPERTY NeverOverAnExistingFile

CHECK_DEADLOCK FALSE
