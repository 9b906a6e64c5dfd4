SPECIFICATION Spec
CONSTANTS
  NormalForm <- MCNormalForm
  Trimmed <- MCTrimmed
  NameOrder <- MCNameOrder
  InitRows <- MCRows
  Alike <- MCAlike
  Repos <- MCRepos
  Entered <- MCEntered
  Integers <- MCIntegers
  Others <- MCOthers
  Rests = {"project", "issue"}
  MaxEdits = 1
  MaxSubmits = 1
  MaxOthers = 1
  MaxLost = 1
INVARIANT CommandsResolved
PROPERTIES EditsTheirRow DraftKept UntouchedKept
CHECK_DEADLOCK FALSE
