CONSTANTS
  HourMin = 4
  DayHours = 2
  MonthDays = 3
  Months = 2
  WeekDays = 2
  Cycle = 5
  DateOf <- MCDateOf
  MinuteMs = 2
  TickGap = 1
  ScanMinutes = 56
  Typed <- MCTyped
  Created = 7
  Horizon = 16
  MaxFaults = 1
  MaxAsked = 2
SPECIFICATION FairLoopSpec
INVARIANTS StoredCadenceRuns CountdownTellsDue
PROPERTIES RunsAnswerOccurrences OccurrenceServed
