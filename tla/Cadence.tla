------------------------------- MODULE Cadence -------------------------------
(***************************************************************************)
(* The cadence of a project (crates/auwsx-core/src/schedule.rs) and the    *)
(* daemon loop that obeys it (scheduler.rs, run): what a user may type,    *)
(* what is stored of it, when a stored cadence is due and what the console *)
(* counts down to, on a calendar whose sizes are parameters.  Texts are    *)
(* records of what they mean; local time has no gaps.                      *)
(***************************************************************************)
EXTENDS Integers, FiniteSets

CONSTANTS
  HourMin, DayHours, MonthDays, Months, WeekDays,  \* sizes of the calendar
  Cycle,         \* days after which its dates repeat: four years
  DateOf,        \* day of the month and month of each day of the cycle
  MinuteMs,      \* units of the clock in a minute
  TickGap,       \* units between two passes of the loop
  ScanMinutes,   \* minutes next_after looks ahead
  Typed,         \* the texts users type
  Created,       \* when the project was created
  Horizon,       \* bound: end of the clock
  MaxFaults,     \* bound: ticks, reads and daemons that fail
  MaxAsked       \* bound: commands of users

Manual  == [kind |-> "manual"]       \* blank, manual, @manual, none, off
Tick    == [kind |-> "tick"]         \* @tick
Refused == [kind |-> "refused"]      \* what is no cadence at all

\* One field of a cron text: *, */n, or the numbers its lists and ranges name.
Fields == [kind : {"any"}] \cup [kind : {"step"}, by : Nat]
          \cup [kind : {"at"}, values : SUBSET Nat]
CronTexts  == [kind : {"cron"}, fields : [1..5 -> Fields]]
EveryTexts == [kind : {"every"}, minutes : Int]
ShortTexts == [kind : {"short"}, amount : Int, unit : {"m", "h", "d"}]
Texts == {Manual, Tick, Refused} \cup CronTexts \cup EveryTexts \cup ShortTexts

ASSUME CalendarAssumption ==
  /\ {HourMin, DayHours, MonthDays, Months, WeekDays, MinuteMs, TickGap,
      ScanMinutes} \subseteq Nat \ {0}
  /\ {Created, Horizon, MaxFaults, MaxAsked} \subseteq Nat /\ Created <= Horizon
  /\ Typed \subseteq Texts

\* Every month holds a whole week, and the scan (five years of 366 days) reaches
\* past a cycle and a week.
ASSUME DatesAssumption ==
  /\ Cycle \in Nat \ {0}
  /\ DateOf \in [0..(Cycle - 1) -> [dom : 1..MonthDays, month : 1..Months]]
  /\ \A month \in 1..Months : \E d \in 0..(Cycle - WeekDays) :
       \A k \in 0..(WeekDays - 1) : DateOf[d + k].month = month
  /\ ScanMinutes >= (Cycle + WeekDays) * DayHours * HourMin

-----------------------------------------------------------------------------
(* Cadences: what is typed, and what of it is stored                       *)

Every(n) == [kind |-> "every", minutes |-> n]                 \* @every 90m
Short(n, unit) == [kind |-> "short", amount |-> n, unit |-> unit]    \* 30m
Cron(f) == [kind |-> "cron", fields |-> f]
Never   == -1                        \* no run yet, no occurrence

Any     == [kind |-> "any"]
Step(n) == [kind |-> "step", by |-> n]
At(S)   == [kind |-> "at", values |-> S]

\* minute, hour, day of the month, month, day of the week with its alias.
Low  == <<0, 0, 1, 1, 0>>
High == <<HourMin - 1, DayHours - 1, MonthDays, Months, WeekDays>>

\* Field::parse
FieldParses(raw, f) ==
  CASE raw.kind = "any"  -> TRUE
    [] raw.kind = "step" -> raw.by \in 1..(High[f] - Low[f] + 1)
    [] raw.kind = "at"   -> raw.values # {} /\ raw.values \subseteq Low[f]..High[f]
Parses(cron) == \A f \in 1..5 : FieldParses(cron.fields[f], f)

\* Field::matches
FieldHas(raw, f, v) ==
  CASE raw.kind = "any"  -> TRUE
    [] raw.kind = "step" -> v \in Low[f]..High[f] /\ (v - Low[f]) % raw.by = 0
    [] raw.kind = "at"   -> v \in raw.values

OnHour(hour)  == Cron(<<At({0}), hour, Any, Any, Any>>)
OnDay(dom, dow) == Cron(<<At({0}), At({0}), dom, Any, dow>>)

\* days_to_cron
DaysCadence(n) == CASE n = 1        -> OnDay(Any, Any)
                    [] n = WeekDays -> OnDay(Any, At({0}))
                    [] OTHER        -> OnDay(Step(n), Any)

\* duration_shorthand_to_cadence.  What it makes is not parsed.
ShortCadence(n, unit) ==
  LET day == DayHours IN
  CASE n <= 0 -> Refused
    [] unit = "m" /\ n \in 1..(HourMin - 1) -> Cron(<<Step(n), Any, Any, Any, Any>>)
    [] unit = "m" /\ n >= HourMin /\ n % HourMin = 0 -> OnHour(Step(n \div HourMin))
    [] unit = "m" /\ n >= HourMin /\ n % HourMin # 0 -> Every(n)
    [] unit = "h" /\ n \in 1..(day - 1) -> OnHour(Step(n))
    [] unit = "h" /\ n >= day /\ n % day = 0 -> OnDay(Step(n \div day), Any)
    [] unit = "h" /\ n >= day /\ n % day # 0 -> Every(n * HourMin)
    [] unit = "d" /\ n > 0 -> DaysCadence(n)

\* normalize_cadence_input
Normalize(text) ==
  CASE text.kind \in {"manual", "tick"} -> text
    [] text.kind = "short" -> ShortCadence(text.amount, text.unit)
    [] text.kind = "every" -> IF text.minutes > 0 THEN text ELSE Refused
    [] text.kind = "cron"  -> IF Parses(text) THEN text ELSE Refused
    [] OTHER -> Refused

\* Mutant of DaemonNormalize: the daemon trusts what it is sent.
DaemonTrusts(sent) == sent
\* The clients normalise what is typed (parse_cadence, parse_project) and the
\* daemon what it is sent (projects::normalize_cadence).
DaemonNormalize(sent) == Normalize(sent)
Stored(text) == IF Normalize(text) = Refused THEN Refused
                ELSE DaemonNormalize(Normalize(text))

-----------------------------------------------------------------------------
(* When a cadence is due                                                   *)

\* CronSpec::matches, at a minute counted from the start of the calendar.
Matches(cron, minute) ==
  LET has(f, v) == FieldHas(cron.fields[f], f, v)
      hour == minute \div HourMin
      day == hour \div DayHours
      date == DateOf[day % Cycle]
      dom == has(3, date.dom)
      dow == \/ has(5, day % WeekDays)
             \/ day % WeekDays = 0 /\ has(5, WeekDays)
      any(f) == cron.fields[f] = Any
  IN /\ has(1, minute % HourMin) /\ has(2, hour % DayHours)
     /\ has(4, date.month)
     /\ IF any(3) \/ any(5) THEN dom /\ dow ELSE dom \/ dow

Crons == {c \in {Stored(text) : text \in Typed} : c.kind = "cron"}
Occurrences ==
  [c \in Crons |-> {m \in 0..(Horizon \div MinuteMs + ScanMinutes) : Matches(c, m)}]
Earliest(S) == IF S = {} THEN Never ELSE CHOOSE m \in S : \A n \in S : m <= n

\* CronSpec::next_after: the first matching minute after that of `since`, as far
\* as the scan goes; an error otherwise.
NextAfter(cron, since) ==
  Earliest({m * MinuteMs : m \in {n \in Occurrences[cron] :
                                    n - (since \div MinuteMs) \in 1..ScanMinutes}})

Since(last) == IF last = Never THEN Created - MinuteMs ELSE last

\* Mutant of Due: an occurrence is due in its own minute only.
DueOnTheMinute(stored, last, now) ==
  LET c == Normalize(stored) IN
  \/ c.kind = "tick"
  \/ c.kind = "every" /\ (last = Never \/ now - last >= c.minutes * MinuteMs)
  \/ c.kind = "cron" /\ NextAfter(c, Since(last)) \div MinuteMs = now \div MinuteMs

\* is_due: what is stored is normalised once more; what is refused, or has no
\* occurrence in sight, is an error, and an error is not due.
Due(stored, last, now) ==
  LET c == Normalize(stored) IN
  \/ c.kind = "tick"
  \/ c.kind = "every" /\ (last = Never \/ now - last >= c.minutes * MinuteMs)
  \/ c.kind = "cron" /\ NextAfter(c, Since(last)) \in 0..now

\* Mutant of NextDue: a project that never ran counts from its creation.
NextDueFromCreation(stored, last, now) ==
  LET c == Normalize(stored) IN
  CASE c.kind = "tick"  -> IF last = Never THEN now ELSE last + TickGap
    [] c.kind = "every" -> IF last = Never THEN now
                           ELSE last + c.minutes * MinuteMs
    [] c.kind = "cron"  -> NextAfter(c, IF last = Never THEN Created ELSE last)
    [] OTHER -> Never

\* next_due_ms, which the console counts down to (schedule_due_for_tree).
NextDue(stored, last, now) ==
  LET c == Normalize(stored) IN
  CASE c.kind = "tick"  -> IF last = Never THEN now ELSE last + TickGap
    [] c.kind = "every" -> IF last = Never THEN now
                           ELSE last + c.minutes * MinuteMs
    [] c.kind = "cron"  -> NextAfter(c, Since(last))
    [] OTHER -> Never
CountdownOver(stored, last, now) == NextDue(stored, last, now) \in 0..now

-----------------------------------------------------------------------------
(* The loop                                                                *)

VARIABLES
  now,       \* the clock
  schedule,  \* schedule_cron of the project
  last,      \* fired_at of the latest automatic row of scheduler_runs
  loop,      \* the pass of the daemon loop: what it read of the project, and when
  guard,     \* the tick that holds the project's guard, or NoTick
  faults,    \* failures so far
  asked      \* commands of users so far

loopVars == <<now, schedule, last, loop, guard, faults, asked>>

Idle == [pc |-> "idle"]
NoTick == [by |-> "nobody"]

LoopInit == /\ now = Created
            /\ schedule = Manual
            /\ last = Never
            /\ loop = Idle
            /\ guard = NoTick
            /\ faults = 0
            /\ asked = 0

Clock == /\ now < Horizon
         /\ now' = now + 1
         /\ UNCHANGED <<schedule, last, loop, guard, faults, asked>>

\* add_project and UpdateProject: what is refused changes nothing.
Reconfigure(text) ==
  /\ Stored(text) \notin {Refused, schedule} /\ asked < MaxAsked
  /\ asked' = asked + 1
  /\ schedule' = Stored(text)
  /\ UNCHANGED <<now, last, loop, guard, faults>>

\* A pass reads the projects and the clock once, then takes one project after
\* the other: by the time it comes to this one both may be old.
LoopStarts ==
  /\ loop = Idle
  /\ loop' = [pc |-> "deciding", at |-> now, schedule |-> schedule]
  /\ UNCHANGED <<now, schedule, last, guard, faults, asked>>

Starts(by, blind) ==
  guard' = [by |-> by, at |-> now, blind |-> blind,
           cadence |-> IF by = "auto" THEN Normalize(loop.schedule) ELSE Manual]

\* project_due_for_auto_tick, tick_project_from: a tick that finds the guard
\* taken does nothing.
LoopDecides ==
  /\ loop.pc = "deciding"
  /\ IF Due(loop.schedule, last, loop.at) /\ guard = NoTick
     THEN Starts("auto", FALSE) /\ loop' = [pc |-> "ticking"]
     ELSE loop' = Idle /\ UNCHANGED guard
  /\ UNCHANGED <<now, schedule, last, faults, asked>>

\* A project whose last run cannot be read is taken for due.
LoopCannotRead ==
  /\ loop.pc = "deciding" /\ faults < MaxFaults
  /\ faults' = faults + 1
  /\ IF guard = NoTick THEN Starts("auto", TRUE) /\ loop' = [pc |-> "ticking"]
     ELSE loop' = Idle /\ UNCHANGED guard
  /\ UNCHANGED <<now, schedule, last, asked>>

\* TickProject over IPC, whatever the cadence.
ManualTick ==
  /\ guard = NoTick /\ asked < MaxAsked
  /\ asked' = asked + 1
  /\ Starts("manual", FALSE)
  /\ UNCHANGED <<now, schedule, last, loop, faults>>

Released == /\ guard' = NoTick
            /\ loop' = IF guard.by = "auto" THEN Idle ELSE loop

\* scheduler_runs::record: filed under the time the tick began.
RecordedAs(t) == t.at

\* Mutant of Counts: every row counts.
CountsAll(t) == TRUE
\* latest_auto_by_project: only automatic rows count for the cadence.
Counts(t) == t.by = "auto"

TickEnds ==
  /\ guard # NoTick
  /\ last' = IF Counts(guard) THEN RecordedAs(guard) ELSE last
  /\ Released
  /\ UNCHANGED <<now, schedule, faults, asked>>

\* A tick that returns an error, or whose row cannot be written, leaves no row.
TickFails ==
  /\ guard # NoTick /\ faults < MaxFaults
  /\ faults' = faults + 1
  /\ Released
  /\ UNCHANGED <<now, schedule, last, asked>>

Crash ==
  /\ faults < MaxFaults
  /\ faults' = faults + 1
  /\ loop' = Idle /\ guard' = NoTick
  /\ UNCHANGED <<now, schedule, last, asked>>

LoopNext ==
  \/ Clock
  \/ \E text \in Typed : Reconfigure(text)
  \/ LoopStarts
  \/ LoopDecides
  \/ LoopCannotRead
  \/ ManualTick
  \/ TickEnds
  \/ TickFails
  \/ Crash

LoopSpec == LoopInit /\ [][LoopNext]_loopVars

\* The interval fires again after every pass, and a tick comes to its end (if its
\* calls of gh do: they have no timeout).
FairLoopSpec == LoopSpec /\ WF_loopVars(LoopStarts) /\ WF_loopVars(LoopDecides)
                /\ WF_loopVars(TickEnds)

-----------------------------------------------------------------------------
(* Properties                                                              *)

\* Minutes that have come since the last run and match the cadence.
Pending(cron, from, until) ==
  {m \in Occurrences[cron] : from \div MinuteMs < m /\ m * MinuteMs <= until}

\* What is stored is a normal form: is_due and the console, which normalise it
\* once more, see what the user was told (schedule.rs:30, projects.rs:271).
StoredIsFinal == Normalize(schedule) = schedule

\* Some day of the calendar is one the cadence names.  Only a day of the month
\* without a day of the week beside it can name none: the 31st of February.
DayExists(cron) ==
  \/ cron.fields[5] # Any
  \/ \E d \in DOMAIN DateOf : /\ FieldHas(cron.fields[3], 3, DateOf[d].dom)
                              /\ FieldHas(cron.fields[4], 4, DateOf[d].month)

\* What a client and the daemon both accepted can be evaluated: no project is
\* silently never due because its cadence does not parse (the shorthand alone
\* would not give that: 1500m becomes a step of 25 hours, schedule.rs:158), or
\* because its next occurrence is out of the scan's sight.  Those that name a
\* day no month has are accepted, and never due (schedule.rs:222-235).
StoredCadenceRuns ==
  /\ StoredIsFinal
  /\ schedule.kind = "cron" =>
       (NextAfter(schedule, now) # Never <=> DayExists(schedule))

\* The console's countdown is over exactly when the loop would run the project
\* (schedule.rs:76, :110), except under @tick, which never waits.
CountdownTellsDue ==
  schedule.kind # "tick" =>
    (CountdownOver(schedule, last, now) <=> Due(schedule, last, now))

\* An automatic run that the loop decided from a row it could read answers an
\* occurrence of the cadence it read which no earlier run answered, and none
\* that came after it began; with @every it keeps the distance.  A manual run
\* answers none (scheduler.rs:397, :530).
RunsAnswerOccurrences ==
  [][last' # last /\ ~guard.blind =>
       LET c == guard.cadence IN
       \/ c.kind = "tick"
       \/ c.kind = "every" /\ (last = Never \/ last' - last >= c.minutes * MinuteMs)
       \/ /\ c.kind = "cron"
          /\ Pending(c, Since(last), last') # {}
          /\ Pending(c, guard.at, last') = {}]_loopVars

\* An occurrence is answered by a run that began after it, unless the cadence
\* is changed: not lost to a manual tick, a failed tick or a restart.
Waiting == /\ schedule.kind = "cron"
           /\ Pending(schedule, Since(last), now) # {}
OccurrenceServed == Waiting ~> ~Waiting

=============================================================================
