SPECIFICATION FairSpec
CONSTANTS
  Issues = {1}
  Handlers = {h1}
  Tick = tick
  Remotes = {}
  Human = human
  Deliveries = {}
  None = none
  OutboundIssues = FALSE
  Limit = 1
  MaxPrs = 1
  MaxCrashes = 0
PROPERTIES MergedMeansDone
