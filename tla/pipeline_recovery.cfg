SPECIFICATION Spec
CONSTANTS
  Issues = {i1}
  Tasks = {t1, t2}
  Ops = {o1}
  Tick = tick
  Msgs = {m1}
  NoIssue = none
  NoMsg = nomsg
  OpKinds <- QuietKinds
  SetTargets <- NoTargets
  AutoCompletion = FALSE
  MaxCrashes = 1
INVARIANTS OnePhasePerIssue NoStrayRun AgentRunsInCheckout
PROPERTIES LegalStatusSteps NoGuidanceDropped
