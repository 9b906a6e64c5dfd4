SPECIFICATION FairSpec
CONSTANTS
  Routines = {r1}
  Jobs = {1, 2, 3}
  Workers = {11, 12}
  Tick = tick
  None = none
  MaxRequests = 2
  MaxFaults = 1
INVARIANTS RoutineOnce RunningIsAttended
PROPERTIES VerdictKept DeepsleepServed
