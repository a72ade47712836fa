CONSTANTS
  MaxLen = 6
  LowerOf <- MCLowerOf
  NonAscii <- MCNonAscii
  Inputs <- MCInputs

SPECIFICATION NormalizeSpec

INVARIANT CopiesTheKeptSegments
INVARIANT OneSpellingPerPlace

\* The walk ends at the end of the path.
CHECK_DEADLOCK FALSE
