--------------------------- MODULE MainJobsProofs ---------------------------
(***************************************************************************)
(* Theorems about MainJobs for any number of routines, rows and tasks: a   *)
(* routine runs once at a time, a served RUNNING job has its task, one     *)
(* reconcile job at a time, and a job ends once.                           *)
(***************************************************************************)
EXTENDS MainJobs, TLAPS

\* What a task knows of itself, and the guard it holds while it reconciles.
Shape(w) ==
  LET wk == worker[w] IN
  /\ wk.pc = "idle" => wk.kind = None
  /\ wk.pc # "idle" => up /\ wk.kind \in Kinds
  /\ wk.kind = "routine" => wk.routine \in Routines
  /\ wk.kind # "routine" => wk.routine = None
  /\ wk.pc \in OnRow => wk.job \in Jobs
  /\ wk.pc = "check" => wk.kind = "reconcile"
  /\ wk.pc = "ran" => wk.kind = "routine"
  /\ guard = w <=> wk.kind = "reconcile" /\ wk.pc \in {"check", "enqueue"}

\* The row of a task, by the call the task is about to make.
OwnRow(w) ==
  LET wk == worker[w]
      row == job[wk.job]
  IN wk.pc \in OnRow =>
       /\ row.kind = wk.kind /\ row.routine \in {None, wk.routine}
       /\ wk.pc = "mark" => row.status = "QUEUED" /\ row.run = "none"
       /\ wk.pc = "start" => row.status = "RUNNING" /\ row.run = "none"
       /\ wk.pc \in {"agent", "finish"} => row.status = "RUNNING" /\ row.run = "open"
       /\ wk.pc \in {"ran", "close"} => row.status \in Ended /\ row.run = "open"
       /\ wk.pc = "tail" =>
            /\ row.status \in Ended \cup {"QUEUED"}
            /\ row.run = "open" => row.kind = "routine" /\ row.routine = None

\* A row without a task while the daemon serves, and a forgotten row.
LooseRow(j) ==
  /\ up /\ ~Attended(j) =>
       /\ job[j].status # "RUNNING"
       /\ job[j].run = "open" => job[j].kind = "routine" /\ job[j].routine = None
  /\ job[j].status = "absent" => job[j].run = "none" /\ ~Attended(j)
  /\ job[j].routine \in routines \cup {None}

OneTask ==
  \A v, w \in Workers :
    worker[v].pc \in OnRow /\ worker[w].pc \in OnRow
      /\ worker[v].job = worker[w].job => v = w

\* Between the question and the INSERT nobody else adds a reconcile job.
ReconcileAlone ==
  /\ OneReconcile
  /\ \A w \in Workers : worker[w].kind = "reconcile" /\ worker[w].pc = "enqueue"
       => \A j \in Jobs : ~Reconciling(j)

LaneInv ==
  /\ TypeOK
  /\ guard = Tick => up
  /\ \A w \in Workers : Shape(w) /\ OwnRow(w)
  /\ \A j \in Jobs : LooseRow(j)
  /\ OneTask
  /\ RoutineOnce
  /\ ReconcileAlone
-----------------------------------------------------------------------------
(* Types                                                                   *)

LEMMA IdleTyped == IdleWork \in Work /\ NoRow \in Row
  BY DEF IdleWork, Work, OnRow, NoRow, Row

LEMMA Counted ==
  ASSUME TypeOK, Request \/ UNCHANGED requests, Fault \/ UNCHANGED faults
  PROVE  requests' \in 0..MaxRequests /\ faults' \in 0..MaxFaults
  BY MainJobsAssumption DEF TypeOK, Request, Fault

LEMMA LaneInvInit == Init => LaneInv
<1> SUFFICES ASSUME Init PROVE LaneInv
  OBVIOUS
<1>1. TypeOK
  <2>1. requests \in 0..MaxRequests /\ faults \in 0..MaxFaults
    BY MainJobsAssumption DEF Init
  <2>2. job \in [Jobs -> Row] /\ worker \in [Workers -> Work]
    BY IdleTyped DEF Init
  <2> QED
    BY <2>1, <2>2 DEF Init, TypeOK
<1>2. \A w \in Workers : Shape(w) /\ OwnRow(w)
  BY MainJobsAssumption DEF Init, Shape, OwnRow, IdleWork, OnRow, Kinds
<1>3. \A j \in Jobs : LooseRow(j)
  BY DEF Init, LooseRow, Attended, Holds, NoRow, IdleWork, OnRow
<1>4. OneTask
  BY DEF Init, OneTask, IdleWork, OnRow
<1>5. RoutineOnce
  BY MainJobsAssumption DEF Init, RoutineOnce, IdleWork, Kinds
<1>6. ReconcileAlone
  BY DEF Init, ReconcileAlone, OneReconcile, Reconciling, IdleWork, NoRow, Active
<1>7. guard = Tick => up
  BY DEF Init
<1> QED
  BY <1>1, <1>2, <1>3, <1>4, <1>5, <1>6, <1>7 DEF LaneInv

-----------------------------------------------------------------------------
(* A task moves on with its row                                            *)

LEMMA RowStep ==
  ASSUME LaneInv, NEW w \in Workers, At(w, worker[w].pc),
         worker[w].pc \in OnRow,
         NEW r \in Work, worker' = [worker EXCEPT ![w] = r], r.pc \in OnRow,
         r.kind = worker[w].kind, r.routine = worker[w].routine,
         r.job = worker[w].job, r.pc = "ran" => r.kind = "routine",
         NEW row \in Row, job' = [job EXCEPT ![worker[w].job] = row],
         row.kind = job[worker[w].job].kind,
         row.routine = job[worker[w].job].routine, row.status # "absent",
         row.status \in Active => job[worker[w].job].status \in Active,
         OwnRow(w)',
         UNCHANGED <<up, routines, running, tick, requests>>,
         Fault \/ UNCHANGED faults
  PROVE  LaneInv'
<1> DEFINE j == worker[w].job
<1>0. /\ j \in Jobs /\ TypeOK /\ worker'[w] = r /\ job'[j] = row
      /\ \A v \in Workers \ {w} : worker'[v] = worker[v]
      /\ \A k \in Jobs \ {j} : job'[k] = job[k]
      /\ "check" \notin OnRow /\ "enqueue" \notin OnRow /\ "idle" \notin OnRow
  BY DEF LaneInv, TypeOK, Shape, OnRow
<1>1. TypeOK'
  BY <1>0, Counted DEF TypeOK, tick
<1>2. \A v \in Workers : Shape(v)'
  <2> TAKE v \in Workers
  <2>1. CASE v = w
    <3>1. Shape(w)
      BY DEF LaneInv
    <3> QED
      BY <1>0, <2>1, <3>1 DEF Shape, tick
  <2>2. CASE v # w
    <3>1. Shape(v)
      BY DEF LaneInv
    <3> QED
      BY <1>0, <2>2, <3>1 DEF Shape, tick
  <2> QED
    BY <2>1, <2>2
<1>3. \A v \in Workers : OwnRow(v)'
  <2> TAKE v \in Workers
  <2>1. CASE v = w
    BY <2>1
  <2>2. CASE v # w /\ worker[v].pc \in OnRow
    <3>1. worker[v].job \in Jobs \ {j}
      BY <2>2 DEF LaneInv, OneTask, Shape
    <3>2. OwnRow(v)
      BY DEF LaneInv
    <3> QED
      BY <1>0, <2>2, <3>1, <3>2 DEF OwnRow
  <2>3. CASE v # w /\ worker[v].pc \notin OnRow
    BY <1>0, <2>3 DEF OwnRow
  <2> QED
    BY <2>1, <2>2, <2>3
<1>4. ASSUME NEW k \in Jobs PROVE Attended(k)' <=> Attended(k)
  BY <1>0 DEF Attended, Holds
<1>5. \A k \in Jobs : LooseRow(k)'
  <2> TAKE k \in Jobs
  <2>1. LooseRow(k)
    BY DEF LaneInv
  <2>2. CASE k = j
    <3>1. Attended(k)
      BY <2>2 DEF Attended, Holds
    <3> QED
      BY <1>0, <1>4, <2>1, <2>2, <3>1 DEF LooseRow
  <2>3. CASE k # j
    BY <1>0, <1>4, <2>1, <2>3 DEF LooseRow
  <2> QED
    BY <2>2, <2>3
<1>6. OneTask'
  BY <1>0 DEF LaneInv, OneTask
<1>7. RoutineOnce'
  <2>1. \A v \in Workers : worker'[v].kind = worker[v].kind
                        /\ worker'[v].routine = worker[v].routine
    BY <1>0
  <2> QED
    BY <2>1 DEF LaneInv, RoutineOnce
<1>8. ReconcileAlone'
  <2>1. \A k \in Jobs : Reconciling(k)' => Reconciling(k)
    BY <1>0 DEF Reconciling
  <2>2. \A v \in Workers : worker'[v].kind = "reconcile" /\ worker'[v].pc = "enqueue"
          => worker[v].kind = "reconcile" /\ worker[v].pc = "enqueue"
    BY <1>0
  <2> QED
    BY <2>1, <2>2 DEF LaneInv, ReconcileAlone, OneReconcile
<1> QED
  BY <1>1, <1>2, <1>3, <1>5, <1>6, <1>7, <1>8 DEF LaneInv, tick

LEMMA TaskSteps ==
  ASSUME LaneInv, NEW w \in Workers,
         \/ MarkRunning(w) \/ MarkFails(w) \/ StartRun(w) \/ AgentEnds(w)
         \/ Finish(w) \/ MarkRan(w) \/ CloseRun(w)
  PROVE  LaneInv'
<1> DEFINE j == worker[w].job
           row == job[worker[w].job]
<1> USE DEF At
<1>0. /\ worker[w] \in Work /\ TypeOK /\ Shape(w) /\ OwnRow(w)
      /\ worker[w].pc \in OnRow /\ j \in Jobs /\ row \in Row /\ LooseRow(j)
  BY DEF LaneInv, TypeOK, Shape, OnRow, MarkRunning, MarkFails, StartRun,
         AgentEnds, Finish, MarkRan, CloseRun
<1>1. CASE MarkRunning(w)
  <2>1. [worker[w] EXCEPT !.pc = "start"] \in Work
        /\ [row EXCEPT !.status = "RUNNING"] \in Row
    BY <1>0 DEF Work, Row, OnRow, Active
  <2>2. worker' = [worker EXCEPT ![w] = [worker[w] EXCEPT !.pc = "start"]]
        /\ job' = [job EXCEPT ![j] = [row EXCEPT !.status = "RUNNING"]]
    BY <1>1 DEF MarkRunning, Goto
  <2>3. OwnRow(w)'
    BY <1>0, <1>1, <2>2 DEF MarkRunning, OwnRow, TypeOK, Work, Row
  <2> QED
    BY <1>0, <1>1, <2>1, <2>2, <2>3, RowStep DEF MarkRunning, bounds, OnRow, Work, Row, Active
<1>2. CASE MarkFails(w)
  <2>1. [worker[w] EXCEPT !.pc = "tail"] \in Work
    BY <1>0 DEF Work, OnRow
  <2>2. worker' = [worker EXCEPT ![w] = [worker[w] EXCEPT !.pc = "tail"]]
        /\ job' = [job EXCEPT ![j] = row]
    BY <1>0, <1>2 DEF MarkFails, Goto, TypeOK
  <2>3. OwnRow(w)'
    BY <1>0, <1>2, <2>2 DEF MarkFails, OwnRow, TypeOK, Work, Row
  <2>4. row.status = "QUEUED"
    BY <1>0, <1>2 DEF MarkFails, OwnRow, OnRow
  <2> QED
    BY <1>0, <1>2, <2>1, <2>2, <2>3, <2>4, RowStep DEF MarkFails, OnRow, Work
<1>3. CASE StartRun(w)
  <2>1. [worker[w] EXCEPT !.pc = "agent"] \in Work
        /\ [row EXCEPT !.run = "open"] \in Row
    BY <1>0 DEF Work, Row, OnRow
  <2>2. worker' = [worker EXCEPT ![w] = [worker[w] EXCEPT !.pc = "agent"]]
        /\ job' = [job EXCEPT ![j] = [row EXCEPT !.run = "open"]]
    BY <1>3 DEF StartRun, Goto
  <2>3. OwnRow(w)'
    BY <1>0, <1>3, <2>2 DEF StartRun, OwnRow, TypeOK, Work, Row
  <2>4. row.status = "RUNNING"
    BY <1>0, <1>3 DEF StartRun, OwnRow, OnRow
  <2> QED
    BY <1>0, <1>3, <2>1, <2>2, <2>3, <2>4, RowStep DEF StartRun, bounds, OnRow, Work, Row
<1>4. CASE AgentEnds(w)
  <2>1. PICK r \in {"done", "failed", "error"} :
          worker' = [worker EXCEPT ![w] = [worker[w] EXCEPT !.pc = "finish", !.result = r]]
    BY <1>4 DEF AgentEnds
  <2>2. [worker[w] EXCEPT !.pc = "finish", !.result = r] \in Work
    BY <1>0 DEF Work, OnRow
  <2>3. job' = [job EXCEPT ![j] = row]
    BY <1>0, <1>4 DEF AgentEnds, TypeOK
  <2>4. OwnRow(w)'
    BY <1>0, <1>4, <2>1, <2>3 DEF AgentEnds, OwnRow, TypeOK, Work, Row
  <2>5. row.status = "RUNNING"
    BY <1>0, <1>4 DEF AgentEnds, OwnRow, OnRow
  <2> QED
    BY <1>0, <1>4, <2>1, <2>2, <2>3, <2>4, <2>5, RowStep DEF AgentEnds, bounds, OnRow, Work
<1>5. CASE Finish(w)
  <2> DEFINE to == IF worker[w].kind = "routine" /\ worker[w].result # "error"
                   THEN "ran" ELSE "close"
             s == IF worker[w].result = "done" THEN "DONE" ELSE "FAILED"
  <2>1. [worker[w] EXCEPT !.pc = to] \in Work /\ [row EXCEPT !.status = s] \in Row
    BY <1>0 DEF Work, Row, OnRow, Ended
  <2>2. worker' = [worker EXCEPT ![w] = [worker[w] EXCEPT !.pc = to]]
        /\ job' = [job EXCEPT ![j] = [row EXCEPT !.status = s]]
    BY <1>5 DEF Finish, Goto
  <2>3. OwnRow(w)'
    BY <1>0, <1>5, <2>2 DEF Finish, OwnRow, TypeOK, Work, Row, Ended
  <2>4. /\ s \notin Active /\ s # "absent" /\ to \in OnRow
        /\ to = "ran" => worker[w].kind = "routine"
    BY DEF Active, OnRow
  <2>5. UNCHANGED <<up, routines, running, tick, requests>> /\ UNCHANGED faults
    BY <1>5 DEF Finish, bounds
  <2> HIDE DEF to, s
  <2> QED
    BY <1>0, <2>1, <2>2, <2>3, <2>4, <2>5, RowStep DEF Work, Row
<1>6. CASE MarkRan(w)
  <2> DEFINE to == IF worker[w].routine \in routines THEN "close" ELSE "tail"
  <2>1. [worker[w] EXCEPT !.pc = to] \in Work
    BY <1>0 DEF Work, OnRow
  <2>2. worker' = [worker EXCEPT ![w] = [worker[w] EXCEPT !.pc = to]]
        /\ job' = [job EXCEPT ![j] = row]
    BY <1>0, <1>6 DEF MarkRan, Goto, TypeOK
  <2>3. /\ row.status \in Ended /\ row.run = "open" /\ row.kind = "routine"
        /\ to = "tail" => row.routine = None
    BY <1>0, <1>6 DEF MarkRan, OwnRow, Shape, LooseRow
  <2>4. OwnRow(w)'
    <3>1. worker'[w] = [worker[w] EXCEPT !.pc = to] /\ job'[j] = row
      BY <1>0, <2>2 DEF TypeOK
    <3> QED
      BY <1>0, <2>3, <3>1 DEF OwnRow, Work
  <2>5. row.status # "absent"
    BY <2>3 DEF Ended
  <2> QED
    BY <1>0, <1>6, <2>1, <2>2, <2>4, <2>5, RowStep DEF MarkRan, bounds, OnRow, Work
<1>7. CASE CloseRun(w)
  <2>1. [worker[w] EXCEPT !.pc = "tail"] \in Work
        /\ [row EXCEPT !.run = "closed"] \in Row
    BY <1>0 DEF Work, Row, OnRow
  <2>2. worker' = [worker EXCEPT ![w] = [worker[w] EXCEPT !.pc = "tail"]]
        /\ job' = [job EXCEPT ![j] = [row EXCEPT !.run = "closed"]]
    BY <1>7 DEF CloseRun, Goto
  <2>3. OwnRow(w)'
    BY <1>0, <1>7, <2>2 DEF CloseRun, OwnRow, TypeOK, Work, Row
  <2>4. row.status \in Ended
    BY <1>0, <1>7 DEF CloseRun, OwnRow
  <2> QED
    BY <1>0, <1>7, <2>1, <2>2, <2>3, <2>4, RowStep DEF CloseRun, bounds, OnRow, Work, Row, Ended
<1> QED
  BY <1>1, <1>2, <1>3, <1>4, <1>5, <1>6, <1>7

-----------------------------------------------------------------------------
(* Launchers                                                               *)

\* A new task reserves what its kind reserves: its routine, or the guard.
LEMMA BeginStep ==
  ASSUME LaneInv, up, NEW w \in Workers, NEW kind \in Kinds,
         NEW r \in Routines \cup {None}, NEW pc \in {"check", "enqueue"},
         Begin(w, kind, r, pc),
         kind = "routine" => r \in Routines \ running /\ running' = running \cup {r},
         kind # "routine" => r = None /\ running' = running,
         kind = "reconcile" <=> pc = "check",
         kind = "reconcile" => guard = None /\ guard' = w,
         kind # "reconcile" => guard' = guard \/ (guard \notin Workers /\ guard' = None),
         snapshot' \in BOOLEAN,
         UNCHANGED <<up, routines, job, due, faults>>,
         Request \/ UNCHANGED requests
  PROVE  LaneInv'
<1> DEFINE wk == [IdleWork EXCEPT !.pc = pc, !.kind = kind, !.routine = r]
<1>0. /\ TypeOK /\ At(w, "idle") /\ wk \in Work
      /\ worker' = [worker EXCEPT ![w] = wk] /\ worker'[w] = wk
      /\ \A v \in Workers \ {w} : worker'[v] = worker[v]
      /\ pc \notin OnRow /\ "idle" \notin OnRow /\ None \notin Kinds
      /\ worker[w].kind = None
  BY MainJobsAssumption
     DEF LaneInv, TypeOK, Begin, At, Work, IdleWork, OnRow, Shape
<1>1. TypeOK'
  BY <1>0, Counted DEF TypeOK
<1>2. \A v \in Workers : Shape(v)'
  <2> TAKE v \in Workers
  <2>0. Shape(v) /\ None \notin Workers /\ Tick \notin Workers
    BY MainJobsAssumption DEF LaneInv
  <2>1. CASE v = w
    <3>1. guard' = w <=> kind = "reconcile"
      <4>1. guard # w
        BY <1>0, <2>0, <2>1 DEF Shape, Kinds
      <4> QED
        BY <2>0, <4>1
    <3>2. kind = "routine" => r \in Routines
      OBVIOUS
    <3>3. wk.pc = pc /\ wk.kind = kind /\ wk.routine = r
      BY DEF IdleWork
    <3>4. pc # "idle" /\ pc # "ran"
      OBVIOUS
    <3> HIDE DEF wk
    <3> QED
      BY <1>0, <2>1, <3>1, <3>2, <3>3, <3>4 DEF Shape
  <2>2. CASE v # w
    <3>1. guard' = v <=> guard = v
      BY <2>0, <2>2
    <3> QED
      BY <1>0, <2>0, <2>2, <3>1 DEF Shape
  <2> QED
    BY <2>1, <2>2
<1>3. \A v \in Workers : OwnRow(v)'
  <2> TAKE v \in Workers
  <2>0. OwnRow(v)
    BY DEF LaneInv
  <2> QED
    BY <1>0, <2>0 DEF OwnRow, IdleWork
<1>4. ASSUME NEW k \in Jobs PROVE Attended(k)' <=> Attended(k)
  BY <1>0 DEF Attended, Holds, At, IdleWork
<1>5. \A k \in Jobs : LooseRow(k)'
  BY <1>4 DEF LaneInv, LooseRow
<1>6. OneTask'
  BY <1>0 DEF LaneInv, OneTask, IdleWork
<1>7. RoutineOnce'
  <2> DEFINE Live == {v \in Workers : worker[v].kind = "routine"}
  <2>0. RoutineOnce /\ running = {worker[v].routine : v \in Live} /\ w \notin Live
        /\ wk.kind = kind /\ wk.routine = r
    BY <1>0, MainJobsAssumption DEF LaneInv, RoutineOnce, Kinds, IdleWork
  <2>1. CASE kind = "routine"
    <3>1. Live' = Live \cup {w}
      BY <1>0, <2>0, <2>1
    <3>2. {worker'[v].routine : v \in Live'} = {worker[v].routine : v \in Live} \cup {r}
      BY <1>0, <2>0, <3>1
    <3>3. \A v \in Live : worker[v].routine # r
      BY <2>0, <2>1
    <3> QED
      BY <1>0, <2>0, <2>1, <3>1, <3>2, <3>3 DEF RoutineOnce
  <2>2. CASE kind # "routine"
    <3>1. Live' = Live
      BY <1>0, <2>0, <2>2
    <3>2. \A v \in Live : worker'[v] = worker[v]
      BY <1>0, <2>0
    <3> QED
      BY <1>0, <2>0, <2>2, <3>1, <3>2 DEF RoutineOnce
  <2> QED
    BY <2>1, <2>2
<1>8. ReconcileAlone'
  <2>1. \A v \in Workers : worker'[v].kind = "reconcile" /\ worker'[v].pc = "enqueue"
          => worker[v].kind = "reconcile" /\ worker[v].pc = "enqueue"
    BY <1>0 DEF IdleWork
  <2> QED
    BY <2>1 DEF LaneInv, ReconcileAlone, OneReconcile, Reconciling
<1>9. guard' = Tick => up'
  OBVIOUS
<1> QED
  BY <1>1, <1>2, <1>3, <1>5, <1>6, <1>7, <1>8, <1>9 DEF LaneInv

LEMMA LaunchSteps ==
  ASSUME LaneInv, NEW w \in Workers, Launch(w)
  PROVE  LaneInv'
<1>1. CASE \E r \in Routines : RunRoutineNow(w, r)
  <2>1. PICK r \in Routines : RunRoutineNow(w, r)
    BY <1>1
  <2>2. /\ Begin(w, "routine", r, "enqueue") /\ "routine" \in Kinds
        /\ snapshot \in BOOLEAN
    BY <2>1 DEF RunRoutineNow, Kinds, LaneInv, TypeOK
  <2>3. /\ up /\ Request /\ UNCHANGED <<up, routines, job, due, faults>>
        /\ guard' = guard /\ snapshot' \in BOOLEAN
        /\ r \in Routines \ running /\ running' = running \cup {r}
    BY <2>1, <2>2 DEF RunRoutineNow, tick
  <2> QED
    BY <2>2, <2>3, BeginStep
<1>2. CASE PhaseEndsDone(w)
  <2>1. Begin(w, "dream", None, "enqueue") /\ "dream" \in Kinds /\ snapshot \in BOOLEAN
    BY <1>2 DEF PhaseEndsDone, Kinds, LaneInv, TypeOK
  <2>2. /\ up /\ Request /\ running' = running
        /\ UNCHANGED <<up, routines, job, due, faults>>
        /\ guard' = guard /\ snapshot' \in BOOLEAN
    BY <1>2, <2>1 DEF PhaseEndsDone, tick
  <2> QED
    BY <2>1, <2>2, BeginStep
<1>3. CASE Reconcile(w)
  <2>1. Begin(w, "reconcile", None, "check") /\ "reconcile" \in Kinds /\ snapshot \in BOOLEAN
    BY <1>3 DEF Reconcile, Kinds, LaneInv, TypeOK
  <2> QED
    BY <1>3, <2>1, BeginStep DEF Reconcile
<1> QED
  BY <1>1, <1>2, <1>3 DEF Launch

-----------------------------------------------------------------------------
(* The tick                                                                *)

\* Nothing but the guard, what the tick read, the schedule and the counters.
LEMMA TickOnly ==
  ASSUME LaneInv, UNCHANGED <<up, routines, running, job, worker, faults>>,
         guard' = guard \/ (guard \notin Workers /\ guard' \in {Tick, None}),
         guard' = Tick => up, snapshot' \in BOOLEAN, due' \in BOOLEAN,
         Request \/ UNCHANGED requests
  PROVE  LaneInv'
<1>1. TypeOK'
  BY Counted DEF LaneInv, TypeOK
<1>2. \A w \in Workers : Shape(w)'
  <2> TAKE w \in Workers
  <2>1. guard' = w <=> guard = w
    BY MainJobsAssumption
  <2>2. Shape(w)
    BY DEF LaneInv
  <2> QED
    BY <2>1, <2>2 DEF Shape
<1>3. \A w \in Workers : OwnRow(w)'
  BY DEF LaneInv, OwnRow
<1>4. \A j \in Jobs : LooseRow(j)'
  BY DEF LaneInv, LooseRow, Attended, Holds
<1>5. OneTask' /\ RoutineOnce' /\ ReconcileAlone'
  BY DEF LaneInv, OneTask, RoutineOnce, ReconcileAlone, OneReconcile, Reconciling
<1> QED
  BY <1>1, <1>2, <1>3, <1>4, <1>5 DEF LaneInv

LEMMA TickSteps ==
  ASSUME LaneInv, AutoTick \/ ManualTick \/ ServiceDeepsleep \/ CronFires
  PROVE  LaneInv'
<1>0. due \in BOOLEAN /\ snapshot \in BOOLEAN /\ None \notin Workers /\ Tick \notin Workers
  BY MainJobsAssumption DEF LaneInv, TypeOK
<1>1. CASE AutoTick
  BY <1>0, <1>1, TickOnly DEF AutoTick, TickReads
<1>2. CASE ManualTick
  BY <1>0, <1>2, TickOnly DEF ManualTick, TickReads
<1>3. CASE CronFires
  <2>1. UNCHANGED <<up, routines, running, job, worker, faults, requests>>
        /\ guard' = guard /\ due' \in BOOLEAN /\ snapshot' \in BOOLEAN
    BY <1>0, <1>3 DEF CronFires, bounds
  <2>2. guard' = Tick => up
    BY <2>1 DEF LaneInv
  <2> QED
    BY <1>0, <2>1, <2>2, TickOnly
<1>4. CASE ServiceDeepsleep
  <2>0. /\ guard = Tick /\ guard' = None /\ snapshot' \in BOOLEAN /\ running' = running /\ up
        /\ UNCHANGED <<up, routines, job, due, requests, faults>>
    BY <1>4 DEF ServiceDeepsleep, bounds, LaneInv
  <2>1. CASE UNCHANGED worker
    BY <1>0, <2>0, <2>1, TickOnly, MainJobsAssumption
  <2>2. CASE \E w \in Workers : Begin(w, "deepsleep", None, "enqueue")
    <3>1. PICK w \in Workers : Begin(w, "deepsleep", None, "enqueue")
      BY <2>2
    <3>2. "deepsleep" \in Kinds
      BY DEF Kinds
    <3> QED
      BY <1>0, <2>0, <3>1, <3>2, BeginStep
  <2> QED
    BY <1>4, <2>1, <2>2 DEF ServiceDeepsleep
<1> QED
  BY <1>1, <1>2, <1>3, <1>4

-----------------------------------------------------------------------------
(* A task takes a row, gives up or ends                                    *)

LEMMA EnqueueStep ==
  ASSUME LaneInv, NEW w \in Workers, Enqueue(w)
  PROVE  LaneInv'
<1>1. PICK j \in Jobs :
        /\ Free(j)
        /\ job' = [job EXCEPT ![j] = [NoRow EXCEPT !.status = "QUEUED",
                     !.kind = worker[w].kind, !.routine = worker[w].routine]]
        /\ worker' = [worker EXCEPT ![w] = [worker[w] EXCEPT !.pc = "mark", !.job = j]]
  BY DEF Enqueue
<1> DEFINE row == [NoRow EXCEPT !.status = "QUEUED",
                     !.kind = worker[w].kind, !.routine = worker[w].routine]
           wk == [worker[w] EXCEPT !.pc = "mark", !.job = j]
<1>2. /\ TypeOK /\ At(w, "enqueue") /\ Shape(w) /\ worker[w] \in Work
      /\ UNCHANGED <<up, routines, running, snapshot, due, requests, faults>>
      /\ guard' = IF guard = w THEN None ELSE guard
      /\ worker[w].kind = "routine" => worker[w].routine \in routines
      /\ "enqueue" \notin OnRow /\ "mark" \in OnRow
  BY DEF LaneInv, TypeOK, Enqueue, bounds, OnRow
<1>3. /\ row \in Row /\ wk \in Work
      /\ row.status = "QUEUED" /\ row.run = "none"
      /\ row.kind = worker[w].kind /\ row.routine = worker[w].routine
      /\ wk.pc = "mark" /\ wk.job = j
      /\ wk.kind = worker[w].kind /\ wk.routine = worker[w].routine
  BY <1>2 DEF Row, Work, NoRow, Active, OnRow
<1>4. /\ job'[j] = row /\ \A k \in Jobs \ {j} : job'[k] = job[k]
      /\ worker'[w] = wk /\ \A v \in Workers \ {w} : worker'[v] = worker[v]
  BY <1>1, <1>2 DEF TypeOK
<1>5. job[j].status = "absent" /\ ~Attended(j)
  BY <1>1 DEF Free, LaneInv, LooseRow
<1> HIDE DEF row, wk
<1>6. TypeOK'
  BY <1>1, <1>2, <1>3 DEF TypeOK, row, wk
<1>7. \A v \in Workers : Shape(v)'
  <2> TAKE v \in Workers
  <2>0. Shape(v) /\ None \notin Workers
    BY MainJobsAssumption DEF LaneInv
  <2>1. CASE v = w
    <3>1. guard' # w
      BY <1>2, <2>0, <2>1
    <3>2. up /\ wk.kind \in Kinds /\ wk.job \in Jobs
      BY <1>2, <1>3 DEF Shape, At
    <3> QED
      BY <1>2, <1>3, <1>4, <2>0, <2>1, <3>1, <3>2 DEF Shape
  <2>2. CASE v # w
    BY <1>2, <1>4, <2>0, <2>2 DEF Shape
  <2> QED
    BY <2>1, <2>2
<1>8. \A v \in Workers : OwnRow(v)'
  <2> TAKE v \in Workers
  <2>0. OwnRow(v)
    BY DEF LaneInv
  <2>1. CASE v = w
    BY <1>3, <1>4, <2>1 DEF OwnRow
  <2>2. CASE v # w /\ worker[v].pc \in OnRow
    <3>1. worker[v].job \in Jobs \ {j}
      BY <1>5, <2>2 DEF LaneInv, Shape, Attended, Holds
    <3> QED
      BY <1>4, <2>0, <2>2, <3>1 DEF OwnRow
  <2>3. CASE v # w /\ worker[v].pc \notin OnRow
    BY <1>4, <2>3 DEF OwnRow
  <2> QED
    BY <2>1, <2>2, <2>3
<1>9. \A k \in Jobs : LooseRow(k)'
  <2> TAKE k \in Jobs
  <2>0. LooseRow(k)
    BY DEF LaneInv
  <2>1. CASE k = j
    <3>1. Attended(j)'
      BY <1>2, <1>3, <1>4 DEF Attended, Holds
    <3>2. row.routine \in routines \cup {None}
      BY <1>2, <1>3 DEF Shape
    <3> QED
      BY <1>2, <1>3, <1>4, <2>1, <3>1, <3>2 DEF LooseRow
  <2>2. CASE k # j
    <3>1. Attended(k)' <=> Attended(k)
      BY <1>2, <1>3, <1>4, <2>2 DEF Attended, Holds, At
    <3> QED
      BY <1>2, <1>4, <2>0, <2>2, <3>1 DEF LooseRow
  <2> QED
    BY <2>1, <2>2
<1>10. OneTask'
  <2>1. \A v \in Workers \ {w} : worker[v].pc \in OnRow => worker[v].job # j
    BY <1>5 DEF Attended, Holds
  <2> QED
    BY <1>3, <1>4, <2>1 DEF LaneInv, OneTask
<1>11. RoutineOnce'
  <2>1. \A v \in Workers : worker'[v].kind = worker[v].kind
                        /\ worker'[v].routine = worker[v].routine
    BY <1>3, <1>4
  <2> QED
    BY <1>2, <2>1 DEF LaneInv, RoutineOnce
<1>12. ReconcileAlone'
  <2>1. \A k \in Jobs \ {j} : Reconciling(k)' <=> Reconciling(k)
    BY <1>4 DEF Reconciling
  <2>2. CASE worker[w].kind = "reconcile"
    <3>1. \A k \in Jobs : ~Reconciling(k)
      BY <1>2, <2>2 DEF LaneInv, ReconcileAlone, At
    <3>2. guard = w
      BY <1>2, <2>2 DEF Shape, At
    <3>3. \A v \in Workers : ~(worker'[v].kind = "reconcile" /\ worker'[v].pc = "enqueue")
      BY <1>3, <1>4, <3>2 DEF LaneInv, Shape
    <3> QED
      BY <2>1, <3>1, <3>3 DEF ReconcileAlone, OneReconcile
  <2>3. CASE worker[w].kind # "reconcile"
    <3>1. ~Reconciling(j)'
      BY <1>3, <1>4, <2>3 DEF Reconciling
    <3> QED
      BY <1>3, <1>4, <2>1, <3>1 DEF LaneInv, ReconcileAlone, OneReconcile
  <2> QED
    BY <2>2, <2>3
<1>13. guard' = Tick => up'
  BY <1>2, MainJobsAssumption DEF LaneInv
<1> QED
  BY <1>6, <1>7, <1>8, <1>9, <1>10, <1>11, <1>12, <1>13 DEF LaneInv

\* A task ends: its reservations go, and its row is left or forgotten.
LEMMA EndStep ==
  ASSUME LaneInv, NEW w \in Workers, worker[w].pc # "idle",
         worker' = [worker EXCEPT ![w] = IdleWork],
         running' = running \ {worker[w].routine},
         guard' = (IF guard = w THEN None ELSE guard),
         job' = job \/ (At(w, "tail") /\ job' = [job EXCEPT ![worker[w].job] = Kept(@)]),
         At(w, "tail") \/ worker[w].pc \notin OnRow,
         due' \in BOOLEAN,
         UNCHANGED <<up, routines, snapshot, bounds>>
  PROVE  LaneInv'
<1> DEFINE j == worker[w].job
<1>0. /\ TypeOK /\ Shape(w) /\ OwnRow(w) /\ up /\ "idle" \notin OnRow
      /\ worker'[w] = IdleWork /\ IdleWork.pc = "idle" /\ IdleWork.kind = None
      /\ IdleWork.routine = None
      /\ \A v \in Workers \ {w} : worker'[v] = worker[v]
      /\ None \notin Kinds /\ None \notin Workers
  BY MainJobsAssumption DEF LaneInv, TypeOK, Shape, OnRow, IdleWork
<1>1. /\ job' \in [Jobs -> Row]
      /\ \A k \in Jobs : job'[k] = job[k]
           \/ (k = j /\ At(w, "tail") /\ job'[k] = NoRow
                /\ job[k].status \in Ended /\ job[k].run # "open")
  BY <1>0, IdleTyped DEF TypeOK, Kept
<1>2. TypeOK'
  BY <1>0, <1>1, IdleTyped DEF TypeOK, bounds
<1>3. \A v \in Workers : Shape(v)'
  <2> TAKE v \in Workers
  <2>0. Shape(v)
    BY DEF LaneInv
  <2>1. CASE v = w
    <3>1. guard' # w
      BY <1>0
    <3> QED
      BY <1>0, <2>1, <3>1 DEF Shape, Kinds, OnRow
  <2>2. CASE v # w
    <3>1. guard' = v <=> guard = v
      BY <1>0, <2>2
    <3> QED
      BY <1>0, <2>0, <2>2, <3>1 DEF Shape
  <2> QED
    BY <2>1, <2>2
<1>4. ASSUME NEW v \in Workers \ {w}, worker[v].pc \in OnRow
      PROVE  worker[v].job \in Jobs /\ job'[worker[v].job] = job[worker[v].job]
  <2>1. worker[v].job \in Jobs
    BY <1>4 DEF LaneInv, Shape
  <2>2. ~(worker[v].job = j /\ At(w, "tail"))
    BY <1>4 DEF LaneInv, OneTask, At, OnRow
  <2> QED
    BY <1>1, <2>1, <2>2
<1>5. \A v \in Workers : OwnRow(v)'
  <2> TAKE v \in Workers
  <2>0. OwnRow(v)
    BY DEF LaneInv
  <2>1. CASE v = w \/ worker[v].pc \notin OnRow
    BY <1>0, <2>1 DEF OwnRow
  <2>2. CASE v # w /\ worker[v].pc \in OnRow
    BY <1>0, <1>4, <2>0, <2>2 DEF OwnRow
  <2> QED
    BY <2>1, <2>2
<1>6. ASSUME NEW k \in Jobs PROVE LooseRow(k)'
  <2>0. LooseRow(k)
    BY DEF LaneInv
  <2>1. Attended(k)' => Attended(k)
    BY <1>0 DEF Attended, Holds
  <2>2. ASSUME Attended(k), ~Attended(k)' PROVE Holds(w, k) /\ At(w, "tail") /\ k = j
    BY <1>0, <2>2 DEF Attended, Holds, At
  <2>3. CASE job'[k] = job[k]
    <3>1. CASE Attended(k)' \/ ~Attended(k)
      BY <1>0, <2>0, <2>1, <2>3, <3>1 DEF LooseRow
    <3>2. CASE Attended(k) /\ ~Attended(k)'
      <4>1. /\ job[k].status \in Ended \cup {"QUEUED"}
            /\ job[k].run = "open" => job[k].kind = "routine" /\ job[k].routine = None
        BY <1>0, <2>2, <3>2 DEF OwnRow, At, OnRow
      <4> QED
        BY <2>0, <2>3, <3>2, <4>1 DEF LooseRow, Ended
    <3> QED
      BY <3>1, <3>2
  <2>4. CASE k = j /\ At(w, "tail") /\ job'[k] = NoRow
    <3>1. ~Attended(k)'
      <4>1. \A v \in Workers \ {w} : ~Holds(v, k)
        BY <2>4 DEF LaneInv, OneTask, Holds, At, OnRow
      <4> QED
        BY <1>0, <4>1 DEF Attended, Holds
    <3> QED
      BY <2>4, <3>1 DEF LooseRow, NoRow
  <2> QED
    BY <1>1, <2>3, <2>4
<1>7. OneTask'
  BY <1>0 DEF LaneInv, OneTask
<1>8. RoutineOnce'
  <2> DEFINE Live == {v \in Workers : worker[v].kind = "routine"}
  <2>0. /\ RoutineOnce /\ running = {worker[v].routine : v \in Live}
        /\ running \subseteq Routines /\ None \notin Routines
    BY <1>0, MainJobsAssumption DEF LaneInv, RoutineOnce, TypeOK
  <2>1. Live' = Live \ {w} /\ \A v \in Live \ {w} : worker'[v] = worker[v]
    BY <1>0 DEF Kinds
  <2>2. running' = {worker[v].routine : v \in Live \ {w}}
    <3>1. CASE w \in Live
      <4>1. \A v \in Live \ {w} : worker[v].routine # worker[w].routine
        BY <2>0, <3>1 DEF RoutineOnce
      <4> QED
        BY <2>0, <3>1, <4>1
    <3>2. CASE w \notin Live
      <4>1. worker[w].routine = None
        BY <1>0, <3>2 DEF Shape
      <4> QED
        BY <2>0, <3>2, <4>1
    <3> QED
      BY <3>1, <3>2
  <2>3. running' = {worker'[v].routine : v \in Live'}
    BY <2>1, <2>2
  <2>4. \A u, v \in Workers : worker'[u].kind = "routine" /\ worker'[v].kind = "routine"
          /\ worker'[u].routine = worker'[v].routine => u = v
    <3>1. \A u \in Workers : worker'[u].kind = "routine" => u \in Live \ {w}
      BY <1>0 DEF Kinds
    <3> QED
      BY <2>0, <2>1, <3>1 DEF RoutineOnce
  <2> QED
    BY <2>3, <2>4 DEF RoutineOnce
<1>9. ReconcileAlone'
  <2>1. \A k \in Jobs : Reconciling(k)' => Reconciling(k)
    BY <1>1 DEF Reconciling, NoRow, Active
  <2> QED
    BY <1>0, <2>1 DEF LaneInv, ReconcileAlone, OneReconcile
<1>10. guard' = Tick => up'
  BY <1>0
<1> QED
  BY <1>2, <1>3, <1>5, <1>6, <1>7, <1>8, <1>9, <1>10 DEF LaneInv

LEMMA OtherTaskSteps ==
  ASSUME LaneInv, NEW w \in Workers,
         ReconcileCheck(w) \/ EnqueueFails(w) \/ Tail(w)
  PROVE  LaneInv'
<1>0. /\ TypeOK /\ Shape(w) /\ due \in BOOLEAN /\ None \notin Routines
      /\ running \subseteq Routines
      /\ "check" \notin OnRow /\ "enqueue" \notin OnRow
  BY MainJobsAssumption DEF LaneInv, TypeOK, OnRow
<1>1. CASE EnqueueFails(w)
  <2>1. guard # w
    BY <1>0, <1>1 DEF Shape, EnqueueFails
  <2>2. /\ UNCHANGED <<up, routines, snapshot, bounds, job>> /\ guard' = guard
        /\ due' \in BOOLEAN
    BY <1>0, <1>1 DEF EnqueueFails, tick
  <2>3. worker[w].pc = "enqueue" /\ running' = running \ {worker[w].routine}
        /\ worker' = [worker EXCEPT ![w] = IdleWork]
    BY <1>1 DEF EnqueueFails, At
  <2> QED
    BY <1>0, <2>1, <2>2, <2>3, EndStep
<1>2. CASE Tail(w)
  <2>1. guard # w
    BY <1>0, <1>2 DEF Shape, Tail, At
  <2>2. /\ UNCHANGED <<up, routines, snapshot, bounds>> /\ guard' = guard
        /\ due' \in BOOLEAN
    BY <1>0, <1>2 DEF Tail
  <2>3. /\ At(w, "tail") /\ running' = running \ {worker[w].routine}
        /\ worker' = [worker EXCEPT ![w] = IdleWork]
        /\ job' = [job EXCEPT ![worker[w].job] = Kept(@)]
    BY <1>2 DEF Tail
  <2>4. worker[w].pc # "idle"
    BY <2>3 DEF At
  <2> QED
    BY <2>1, <2>2, <2>3, <2>4, EndStep
<1>3. CASE ReconcileCheck(w)
  <2>0. /\ worker[w].pc = "check" /\ worker[w].kind = "reconcile" /\ guard = w
        /\ worker[w].routine = None
        /\ UNCHANGED <<up, routines, running, job, snapshot, due, bounds>>
    BY <1>0, <1>3 DEF ReconcileCheck, At, Shape
  <2>1. CASE worker' = [worker EXCEPT ![w] = IdleWork] /\ guard' = None
    <3>1. running' = running \ {worker[w].routine}
      BY <1>0, <2>0
    <3> QED
      BY <1>0, <2>0, <2>1, <3>1, EndStep
  <2>2. CASE /\ ~\E j \in Jobs : Reconciling(j)
             /\ Goto(w, "enqueue") /\ UNCHANGED guard
    <3> DEFINE wk == [worker[w] EXCEPT !.pc = "enqueue"]
    <3>1. /\ wk \in Work /\ worker' = [worker EXCEPT ![w] = wk] /\ worker'[w] = wk
          /\ \A v \in Workers \ {w} : worker'[v] = worker[v]
          /\ wk.pc = "enqueue" /\ wk.kind = worker[w].kind
          /\ wk.routine = worker[w].routine
      BY <1>0, <2>2 DEF Goto, TypeOK, Work
    <3>2. TypeOK'
      BY <1>0, <2>0, <2>2, <3>1 DEF TypeOK, bounds
    <3>3. \A v \in Workers : Shape(v)'
      <4> TAKE v \in Workers
      <4>1. Shape(v)
        BY DEF LaneInv
      <4> QED
        BY <1>0, <2>0, <2>2, <3>1, <4>1 DEF Shape
    <3>4. \A v \in Workers : OwnRow(v)'
      <4> TAKE v \in Workers
      <4>1. OwnRow(v)
        BY DEF LaneInv
      <4> QED
        BY <1>0, <2>0, <3>1, <4>1 DEF OwnRow
    <3>5. ASSUME NEW k \in Jobs PROVE Attended(k)' <=> Attended(k)
      BY <1>0, <2>0, <3>1 DEF Attended, Holds
    <3>6. \A k \in Jobs : LooseRow(k)'
      BY <2>0, <3>5 DEF LaneInv, LooseRow
    <3>7. OneTask'
      BY <1>0, <2>0, <3>1 DEF LaneInv, OneTask
    <3>8. RoutineOnce'
      <4>1. \A v \in Workers : worker'[v].kind = worker[v].kind
                            /\ worker'[v].routine = worker[v].routine
        BY <3>1
      <4> QED
        BY <2>0, <4>1 DEF LaneInv, RoutineOnce
    <3>9. ReconcileAlone'
      BY <2>0, <2>2 DEF LaneInv, ReconcileAlone, OneReconcile, Reconciling
    <3> QED
      BY <2>0, <2>2, <3>2, <3>3, <3>4, <3>6, <3>7, <3>8, <3>9 DEF LaneInv
  <2> QED
    BY <1>3, <2>1, <2>2 DEF ReconcileCheck
<1> QED
  BY <1>1, <1>2, <1>3

-----------------------------------------------------------------------------
(* Routines                                                                *)

\* Rows change in their routine only, and lose it when it is deleted.
LEMMA RoutineSteps ==
  ASSUME LaneInv, NEW r \in Routines, CreateRoutine(r) \/ RemoveRoutine(r)
  PROVE  LaneInv'
<1>0. /\ TypeOK /\ Request
      /\ UNCHANGED <<up, running, worker, guard, snapshot, due, faults>>
      /\ routines' \subseteq Routines
  BY DEF LaneInv, TypeOK, CreateRoutine, RemoveRoutine, tick
<1>1. ASSUME NEW k \in Jobs
      PROVE  /\ job'[k] \in Row
             /\ job'[k].status = job[k].status /\ job'[k].kind = job[k].kind
             /\ job'[k].run = job[k].run
             /\ job'[k].routine \in {None, job[k].routine}
             /\ job'[k].routine \in routines' \cup {None}
  <2>0. job[k] \in Row /\ LooseRow(k)
    BY <1>0 DEF TypeOK, LaneInv
  <2>1. CASE CreateRoutine(r)
    BY <2>0, <2>1 DEF CreateRoutine, LooseRow
  <2>2. CASE RemoveRoutine(r)
    <3>1. job'[k] = IF job[k].routine = r THEN [job[k] EXCEPT !.routine = None] ELSE job[k]
      BY <2>2 DEF RemoveRoutine
    <3>2. routines' = routines \ {r}
      BY <2>2 DEF RemoveRoutine
    <3> QED
      BY <2>0, <3>1, <3>2 DEF LooseRow, Row
  <2> QED
    BY <2>1, <2>2
<1>2. job' \in [Jobs -> Row]
  <2>1. job' = [k \in Jobs |-> job'[k]]
    BY <1>0 DEF TypeOK, CreateRoutine, RemoveRoutine
  <2> QED
    BY <1>1, <2>1
<1>3. TypeOK'
  BY <1>0, <1>2, Counted DEF TypeOK
<1>4. \A v \in Workers : Shape(v)'
  BY <1>0 DEF LaneInv, Shape
<1>5. \A v \in Workers : OwnRow(v)'
  <2> TAKE v \in Workers
  <2>1. OwnRow(v) /\ Shape(v)
    BY DEF LaneInv
  <2>2. CASE worker[v].pc \in OnRow
    <3>1. worker[v].job \in Jobs
      BY <2>1, <2>2 DEF Shape
    <3> QED
      BY <1>0, <1>1, <2>1, <2>2, <3>1 DEF OwnRow
  <2>3. CASE worker[v].pc \notin OnRow
    BY <1>0, <2>3 DEF OwnRow
  <2> QED
    BY <2>2, <2>3
<1>6. \A k \in Jobs : LooseRow(k)'
  <2> TAKE k \in Jobs
  <2>1. LooseRow(k) /\ (Attended(k)' <=> Attended(k))
    BY <1>0 DEF LaneInv, Attended, Holds
  <2> QED
    BY <1>0, <1>1, <2>1 DEF LooseRow
<1>7. OneTask' /\ RoutineOnce'
  BY <1>0 DEF LaneInv, OneTask, RoutineOnce
<1>8. ReconcileAlone'
  <2>1. \A k \in Jobs : Reconciling(k)' <=> Reconciling(k)
    BY <1>1 DEF Reconciling
  <2> QED
    BY <1>0, <2>1 DEF LaneInv, ReconcileAlone, OneReconcile
<1> QED
  BY <1>0, <1>3, <1>4, <1>5, <1>6, <1>7, <1>8 DEF LaneInv

-----------------------------------------------------------------------------
(* Crashes and recovery                                                    *)

\* A task that does nothing has no row.
Quiet(w) == worker[w].pc = "idle" /\ worker[w].kind = None /\ worker[w].routine = None

\* The invariant of a daemon that a step has left without tasks.
LEMMA QuietInv ==
  ASSUME TypeOK', running' = {}, guard' \notin Workers, guard' = Tick => up',
         \A w \in Workers : Quiet(w)',
         \A j \in Jobs : LooseRow(j)', OneReconcile'
  PROVE  LaneInv'
<1>1. \A w \in Workers : worker'[w].pc \notin OnRow
  BY DEF Quiet, OnRow
<1>2. \A w \in Workers : Shape(w)' /\ OwnRow(w)'
  BY <1>1, MainJobsAssumption DEF Quiet, Shape, OwnRow, Kinds
<1>3. OneTask' /\ ReconcileAlone'
  BY <1>1, MainJobsAssumption DEF Quiet, OneTask, ReconcileAlone
<1>4. RoutineOnce'
  <2>1. \A w \in Workers : worker'[w].kind # "routine"
    BY MainJobsAssumption DEF Quiet, Kinds
  <2> QED
    BY <2>1 DEF RoutineOnce
<1> QED
  BY <1>2, <1>3, <1>4 DEF LaneInv

\* A daemon that is down has no tasks.
LEMMA DownIsQuiet ==
  ASSUME LaneInv, ~up
  PROVE  /\ \A w \in Workers : Quiet(w)
         /\ running = {} /\ guard = None
<1>1. \A w \in Workers : Shape(w)
  BY DEF LaneInv
<1>2. \A w \in Workers : Quiet(w)
  BY <1>1, MainJobsAssumption DEF Shape, Quiet, Kinds
<1>3. running = {}
  <2>1. \A w \in Workers : worker[w].kind # "routine"
    BY <1>2, MainJobsAssumption DEF Quiet, Kinds
  <2> QED
    BY <2>1 DEF LaneInv, RoutineOnce
<1>4. guard = None
  BY <1>1, <1>2, MainJobsAssumption DEF LaneInv, TypeOK, Shape, Quiet
<1> QED
  BY <1>2, <1>3, <1>4

LEMMA CrashStep == ASSUME LaneInv, Crash PROVE LaneInv'
<1>1. TypeOK /\ OneReconcile
  BY DEF LaneInv, ReconcileAlone
<1>2. TypeOK'
  BY <1>1, Counted, IdleTyped DEF TypeOK, Crash
<1>3. \A w \in Workers : Quiet(w)'
  BY DEF Crash, IdleWork, Quiet
<1>4. \A j \in Jobs : ~Attended(j)'
  BY <1>3 DEF Quiet, OnRow, Attended, Holds
<1>5. \A j \in Jobs : LooseRow(j)'
  BY <1>4 DEF LaneInv, LooseRow, Crash
<1>6. OneReconcile'
  BY <1>1 DEF OneReconcile, Reconciling, Crash
<1>7. ~up' /\ running' = {} /\ guard' = None
  BY DEF Crash
<1>8. guard' \notin Workers /\ (guard' = Tick => up')
  BY <1>7, MainJobsAssumption
<1> QED
  BY <1>2, <1>3, <1>5, <1>6, <1>7, <1>8, QuietInv

\* One write of recovery, and the end of it, keep what a row is: a row that
\* had ended keeps its verdict, or is forgotten when it is closed too.
LEMMA RecoverySteps == ASSUME LaneInv, Recovery PROVE LaneInv'
<1>0. /\ TypeOK /\ OneReconcile /\ ~up
      /\ UNCHANGED <<routines, running, worker, tick, bounds>>
  BY DEF LaneInv, ReconcileAlone, Recovery, RecoverJob, RecoverRun, Boot
<1>1. (\A w \in Workers : Quiet(w)) /\ running = {} /\ guard = None
  BY <1>0, DownIsQuiet
<1>2. /\ \A w \in Workers : Quiet(w)'
      /\ \A j \in Jobs : ~Attended(j) /\ ~Attended(j)'
  BY <1>0, <1>1 DEF Quiet, OnRow, Attended, Holds
<1>a. ASSUME NEW k \in Jobs
      PROVE  /\ job[k] \in Row /\ job[k].routine \in routines \cup {None}
             /\ job[k].status = "absent" => job[k].run = "none"
  BY <1>0 DEF LaneInv, LooseRow, TypeOK
<1>b. /\ job' = [k \in Jobs |-> job'[k]]
      /\ \A k \in Jobs :
           \/ job'[k] = job[k] /\ up' = FALSE
           \/ job[k].status = "RUNNING" /\ up' = FALSE
                /\ job'[k] = [job[k] EXCEPT !.status = "FAILED"]
           \/ job[k].run = "open" /\ up' = FALSE
                /\ job'[k] = [job[k] EXCEPT !.run = "closed"]
           \/ /\ job'[k] = Kept(job[k])
              /\ job[k].status # "RUNNING" /\ job[k].run # "open"
  BY <1>0 DEF Recovery, RecoverJob, RecoverRun, Boot, OpenRuns, RunningJobs, TypeOK
<1>c. ASSUME NEW k \in Jobs
      PROVE  /\ job'[k] \in Row
             /\ Reconciling(k)' => Reconciling(k)
             /\ job'[k].status = "absent" => job'[k].run = "none"
             /\ job'[k].routine \in routines \cup {None}
             /\ up' => job'[k].status # "RUNNING" /\ job'[k].run # "open"
  <2>0. /\ job[k] \in Row /\ job[k].routine \in routines \cup {None}
        /\ job[k].status = "absent" => job[k].run = "none"
    BY <1>a
  <2>1. CASE job'[k] = job[k] /\ up' = FALSE
    BY <2>0, <2>1 DEF Reconciling
  <2>2. CASE job[k].status = "RUNNING" /\ up' = FALSE
               /\ job'[k] = [job[k] EXCEPT !.status = "FAILED"]
    BY <2>0, <2>2 DEF Reconciling, Active, Ended, Row
  <2>3. CASE job[k].run = "open" /\ up' = FALSE
               /\ job'[k] = [job[k] EXCEPT !.run = "closed"]
    BY <2>0, <2>3 DEF Reconciling, Active, Ended, Row
  <2>4. CASE /\ job'[k] = Kept(job[k])
             /\ job[k].status # "RUNNING" /\ job[k].run # "open"
    <3>1. job'[k] = job[k] \/ job'[k] = NoRow
      BY <2>4 DEF Kept
    <3>2. NoRow \in Row /\ NoRow.status = "absent" /\ NoRow.run = "none" /\ NoRow.routine = None
      BY IdleTyped DEF NoRow
    <3> QED
      BY <2>0, <2>4, <3>1, <3>2 DEF Reconciling, Active
  <2> QED
    BY <1>b, <2>1, <2>2, <2>3, <2>4
<1>3. job' \in [Jobs -> Row]
  BY <1>b, <1>c
<1>4. TypeOK'
  <2>1. up' \in BOOLEAN
    BY DEF Recovery, RecoverJob, RecoverRun, Boot, LaneInv, TypeOK
  <2> QED
    BY <1>0, <1>3, <2>1 DEF TypeOK, tick, bounds
<1>5. \A j \in Jobs : LooseRow(j)'
  BY <1>0, <1>2, <1>c DEF LooseRow
<1>6. OneReconcile'
  BY <1>0, <1>c DEF OneReconcile
<1>7. guard' = None /\ running' = {} /\ guard' \notin Workers /\ guard' # Tick
  BY <1>0, <1>1, MainJobsAssumption DEF tick
<1> QED
  BY <1>2, <1>4, <1>5, <1>6, <1>7, QuietInv

-----------------------------------------------------------------------------
(* The invariant holds in every state                                      *)

LEMMA LaneInvNext == LaneInv /\ [Next]_vars => LaneInv'
<1> SUFFICES ASSUME LaneInv, [Next]_vars PROVE LaneInv'
  OBVIOUS
<1>1. CASE UNCHANGED vars
  BY <1>1 DEF LaneInv, TypeOK, Shape, OwnRow, LooseRow, Attended, Holds, OneTask,
              RoutineOnce, ReconcileAlone, OneReconcile, Reconciling, vars, tick, bounds
<1>2. CASE \E w \in Workers : Launch(w)
  BY <1>2, LaunchSteps
<1>3. CASE \E w \in Workers : JobTask(w) \/ MarkFails(w)
  BY <1>3, TaskSteps, EnqueueStep, OtherTaskSteps DEF JobTask
<1>4. CASE AutoTick \/ ManualTick \/ ServiceDeepsleep \/ CronFires
  BY <1>4, TickSteps
<1>5. CASE \E r \in Routines : CreateRoutine(r) \/ RemoveRoutine(r)
  BY <1>5, RoutineSteps
<1>6. CASE Crash \/ Recovery
  BY <1>6, CrashStep, RecoverySteps
<1> QED
  BY <1>1, <1>2, <1>3, <1>4, <1>5, <1>6 DEF Next

LEMMA LaneInvAlways == Spec => []LaneInv
<1>1. LaneInv /\ [Next]_vars => LaneInv'
  BY LaneInvNext
<1> QED
  BY LaneInvInit, <1>1, PTL DEF Spec

\* Every variable of the lane keeps its type, rows and tasks included.
THEOREM LaneTypeCorrect == Spec => []TypeOK
<1>1. LaneInv => TypeOK
  BY DEF LaneInv
<1> QED
  BY LaneInvAlways, <1>1, PTL

\* A routine never has two tasks, whatever is deleted, created again, crashed
\* or recovered meanwhile, and running_routines holds no routine without one
\* (scheduler.rs:1370-1382, 1431).
THEOREM RoutineRunsOnce == Spec => []RoutineOnce
<1>1. LaneInv => RoutineOnce
  BY DEF LaneInv
<1> QED
  BY LaneInvAlways, <1>1, PTL

\* A daemon that serves has a live task for every RUNNING job, and for every
\* open run but those whose routine was deleted (scheduler.rs:1615-1677).
THEOREM RunningHasTask == Spec => []RunningIsAttended
<1>1. LaneInv => RunningIsAttended
  BY DEF LaneInv, LooseRow, RunningIsAttended
<1> QED
  BY LaneInvAlways, <1>1, PTL

\* At most one reconcile job of the project has not ended
\* (scheduler.rs:917-923, 975-980).
THEOREM ReconcilesOnce == Spec => []OneReconcile
<1>1. LaneInv => OneReconcile
  BY DEF LaneInv, ReconcileAlone
<1> QED
  BY LaneInvAlways, <1>1, PTL

-----------------------------------------------------------------------------
(* Verdicts                                                                *)

\* Only a task on a RUNNING row, and recovery of one, write a verdict.
LEMMA VerdictStep ==
  ASSUME LaneInv, [Next]_vars, NEW j \in Jobs, job[j].status \in Ended,
         job'[j].status # job[j].status
  PROVE  job'[j].status = "absent" /\ job[j].run # "open"
<1> DEFINE Goal == job'[j].status = "absent" /\ job[j].run # "open"
<1>0. job \in [Jobs -> Row] /\ job'[j] # job[j]
  BY DEF LaneInv, TypeOK
<1>1. job' # job
  BY <1>0
<1>2. ASSUME NEW w \in Workers, JobTask(w) PROVE Goal
  <2> DEFINE i == worker[w].job
  <2>0. Shape(w) /\ OwnRow(w)
    BY DEF LaneInv
  <2>1. CASE Enqueue(w)
    BY <1>0, <2>1 DEF Enqueue, Free, Ended
  <2>2. CASE MarkRunning(w)
    BY <1>0, <2>2 DEF MarkRunning, Ended
  <2>3. CASE StartRun(w)
    <3>1. job' = [job EXCEPT ![i].run = "open"] /\ i \in Jobs
      BY <2>0, <2>3 DEF StartRun, At, Shape, OnRow
    <3> QED
      BY <1>0, <3>1 DEF Row
  <2>4. CASE Finish(w)
    <3>1. job[i].status = "RUNNING" /\ i \in Jobs
      BY <2>0, <2>4 DEF Finish, At, Shape, OwnRow, OnRow
    <3>2. j # i
      BY <3>1 DEF Ended
    <3> QED
      BY <1>0, <2>4, <3>2 DEF Finish
  <2>5. CASE CloseRun(w)
    <3>1. job' = [job EXCEPT ![i].run = "closed"] /\ i \in Jobs
      BY <2>0, <2>5 DEF CloseRun, At, Shape, OnRow
    <3> QED
      BY <1>0, <3>1 DEF Row
  <2>6. CASE Tail(w)
    <3>1. job' = [job EXCEPT ![i] = Kept(job[i])]
      BY <2>6 DEF Tail
    <3>2. j = i /\ job'[j] = Kept(job[j])
      BY <1>0, <3>1
    <3> QED
      BY <1>0, <3>2 DEF Kept, NoRow
  <2> QED
    BY <1>1, <1>2, <2>1, <2>2, <2>3, <2>4, <2>5, <2>6
       DEF JobTask, ReconcileCheck, EnqueueFails, AgentEnds, MarkRan
<1>3. ASSUME NEW r \in Routines, RemoveRoutine(r) PROVE Goal
  <2>1. job'[j] = IF job[j].routine = r THEN [job[j] EXCEPT !.routine = None] ELSE job[j]
    BY <1>3 DEF RemoveRoutine
  <2>2. job[j] \in Row
    BY <1>0
  <2> QED
    BY <2>1, <2>2 DEF Row
<1>4. ASSUME NEW k \in Jobs, RecoverJob(k) PROVE Goal
  <2>1. job[k].status = "RUNNING"
    BY <1>4 DEF RecoverJob, RunningJobs
  <2>2. j # k
    BY <2>1 DEF Ended
  <2> QED
    BY <1>0, <1>4, <2>2 DEF RecoverJob
<1>5. ASSUME NEW k \in Jobs, RecoverRun(k) PROVE Goal
  <2>1. job' = [job EXCEPT ![k].run = "closed"]
    BY <1>5 DEF RecoverRun
  <2> QED
    BY <1>0, <2>1 DEF Row
<1>6. CASE Boot
  <2>1. job'[j] = Kept(job[j])
    BY <1>6 DEF Boot
  <2> QED
    BY <1>0, <2>1 DEF Kept, NoRow
<1>7. \/ \E w \in Workers : JobTask(w)
      \/ \E r \in Routines : RemoveRoutine(r)
      \/ \E k \in Jobs : RecoverJob(k) \/ RecoverRun(k)
      \/ Boot
  BY <1>1 DEF Next, vars, Launch, RunRoutineNow, PhaseEndsDone, Reconcile, MarkFails,
     AutoTick, ManualTick, TickReads, ServiceDeepsleep, CreateRoutine, CronFires, Crash,
     Recovery
<1> QED
  BY <1>2, <1>3, <1>4, <1>5, <1>6, <1>7

\* What the task of a job wrote is never written over by recovery, nor the
\* other way round (main_jobs.rs:331-358, scheduler.rs:1615-1677).
THEOREM VerdictsAreKept == Spec => VerdictKept
<1> DEFINE Step == \A j \in Jobs : job[j].status \in Ended /\ job'[j].status # job[j].status
                    => job'[j].status = "absent" /\ job[j].run # "open"
<1>1. LaneInv /\ [Next]_vars => [Step]_vars
  BY VerdictStep
<1> QED
  BY LaneInvAlways, <1>1, PTL DEF Spec, VerdictKept
=============================================================================
