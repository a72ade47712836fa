CONSTANTS
  Inputs <- MCInputs
  MaxInputLen = 20
  MaxWords = 3
  Letter <- MCLetter
  Control <- MCControl
  NonAscii = {"hi"}
  DevNull <- MCDevNull
  Reserved <- MCReserved

SPECIFICATION Spec

INVARIANT TypeOK
INVARIANT FirstLiveConstructIsReported
INVARIANT LexemesSayTheInput
INVARIANT FirstProblemIsReported
INVARIANT ScriptSaysTheTokens
PROPERTY ParseEnds
