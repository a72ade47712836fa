CONSTANTS
  Inputs <- MCInputs
  OptionLike <- MCOptionLike
  Spelling <- MCSpelling
  InexpressibleHeads = {"tar"}
  PathHeads = {"./x"}
  CodeOptions <- MCCodeOptions
  MaxRuleId = 2

SPECIFICATION Spec

INVARIANT LoadedIsWhatTheFilesSay
INVARIANT LoadedRowsHideNothing
INVARIANT ErrorsDoNotCascade
