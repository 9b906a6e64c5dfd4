SPECIFICATION FairSpec
CONSTANTS
  Issues = {1}
  Handlers = {h1}
  Tick = tick
  Remotes = {1}
  Human = human
  Deliveries = {}
  None = none
  OutboundIssues = TRUE
  Limit = 1
  MaxPrs = 2
  MaxCrashes = 1
INVARIANTS DoneOnlyIfMerged
PROPERTIES QueueServed MergeObserved
