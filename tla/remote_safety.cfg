SPECIFICATION Spec
CONSTANTS
  Issues = {1}
  Handlers = {h1}
  Tick = tick
  Remotes = {1, 2}
  Human = human
  Deliveries = {d1}
  None = none
  OutboundIssues = TRUE
  Limit = 1
  MaxPrs = 1
  MaxCrashes = 1
INVARIANTS RemoteIssueOnce DeliveryOnce
