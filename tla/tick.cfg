SPECIFICATION FairSpec
CONSTANTS
  Issues = {1, 2}
  Start <- MCStart
  Declared <- MCDeclared
  Settings <- MCSettings
  NoWait = nowait
  OpKinds <- AllOps
INVARIANTS CapRespected OneMergeAtATime
PROPERTIES OldestMergeGetsTurn PlanGateOpens FullGate
