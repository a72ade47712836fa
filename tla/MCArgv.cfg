CONSTANTS
  MaxWords = 3
  Byte <- MCByte
  Inputs <- MCInputs
  Texts <- MCTexts

SPECIFICATION Spec

INVARIANT TypeOK
INVARIANT SlotsTellTheWords
INVARIANT UnknownHasNoReading
INVARIANT ExpansionsReadTheSame
