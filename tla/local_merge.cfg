SPECIFICATION Spec
CONSTANTS
  Issues = {1, 2}
  Paths = {a}
  Changes <- MCChanges
  Start <- MCStart
  Boxes <- MCBoxes
  Handlers = {h}
  OpKinds = {"apply", "approve", "approveAll", "set", "run", "retry", "cleanup", "abandon", "remove", "reconcile", "proposal"}
  UserActs = {"edit", "commit", "squash", "resolve"}
  Proposals <- MCProposals
  Budget = 2
  MaxCrashes = 1
INVARIANTS UserChangesKept DoneIsMerged
PROPERTIES NoWorkLost AgentStaysInPhase
CHECK_DEADLOCK FALSE
