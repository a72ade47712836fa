CONSTANTS
  MaxLen = 3
  Byte <- MCByte
  LowerOf <- MCLowerOf
  NonAscii <- MCNonAscii
  Commands <- MCCommands
  Rules <- MCRules

SPECIFICATION Spec

INVARIANT ChecksEveryPath
INVARIANT HitsWhatTargetsCover
INVARIANT OddTargetsHitFailures

\* The two walks end.
CHECK_DEADLOCK FALSE
