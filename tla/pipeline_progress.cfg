SPECIFICATION FairSpec
CONSTANTS
  Issues = {i1}
  Tasks = {t1}
  Ops = {o1}
  Tick = tick
  Msgs = {m1}
  NoIssue = none
  NoMsg = nomsg
  OpKinds <- RepairKinds
  SetTargets <- JumpTargets
  AutoCompletion = TRUE
  MaxCrashes = 1
INVARIANTS RemovedLeavesNothing
PROPERTIES StatusProgress
