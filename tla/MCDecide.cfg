CONSTANTS
  MaxCommands = 3
  Cmd <- MCCmd
  Reading <- MCReading
  Scripts <- MCScripts
  RuleLists <- MCRuleLists

SPECIFICATION Spec

INVARIANT TypeOK
INVARIANT VerdictIsFirstOfStrongest
INVARIANT AllowIsClean
INVARIANT NoRuleIsHidden
INVARIANT CdInFrontNeverRelaxes
PROPERTY FindingsStick
PROPERTY Terminates
PROPERTY ImplementsJudge

CHECK_DEADLOCK FALSE
