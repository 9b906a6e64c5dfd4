SPECIFICATION FairSpec
CONSTANTS
  Projects = {1, 2}
  Issues = {1, 2}
  Backlog = {1}
  Routines = {}
  OwnerOf <- MCOwnerOf
  ArchiveLimit = 1
  Seen <- MCSeen
  Start <- MCStart
  StartItems = {}
  MaxKeys = 3
  MaxChanges = 2
  Capacity = 1
INVARIANTS RunsOfOpenIssue
PROPERTIES CursorFollowsIssue DetailKeepsIssue ScreenConverges
CHECK_DEADLOCK FALSE
