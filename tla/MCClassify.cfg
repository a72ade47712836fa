CONSTANTS
  MaxWords = 3
  Byte <- MCByte
  Inputs <- MCInputs
  Texts <- MCTexts
  Catalogs <- MCCatalogs
  Commands <- MCCommands

SPECIFICATION ClassifySpec

INVARIANT ClassifyTypeOK
INVARIANT CoveredByTheOnlyRow
INVARIANT ReasonIsOfTheLongestKey
INVARIANT ExpansionsKeepTheRow
