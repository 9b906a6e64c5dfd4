SPECIFICATION FairSpec
CONSTANTS
  Items = {1, 2}
  Issues = {1, 2, 3}
  Tick = tick
  Handlers = {h1}
  Stages = {"NEW", "PLANNING", "WORKING", "ABANDONED"}
  None = none
  MaxRequests = 2
  MaxCrashes = 1
INVARIANTS EveryIssueHasSource
PROPERTIES IntakePromise RoutedEventually
