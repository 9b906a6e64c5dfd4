------------------------------ MODULE MainJobs ------------------------------
(***************************************************************************)
(* The main-job lane of one project: agents that run in the repository     *)
(* itself rather than in the worktree of an issue.  Four launchers feed    *)
(* it: "run routine now", the deepsleep an automatic tick starts when it   *)
(* is due, the dream that follows a phase which ended in DONE, and the     *)
(* reconcile that asks an agent.  A job is a row of main_jobs (QUEUED,     *)
(* RUNNING, then DONE or FAILED) and a row of agent_runs, both written by  *)
(* the tokio task that runs it, and both repaired by the next daemon.      *)
(*                                                                         *)
(* The cron expression of deepsleep is abstracted to `due`: set when the   *)
(* schedule fires, cleared by mark_deepsleep_ran.  A row that has ended    *)
(* and is closed is never read again by the lane: the model forgets it, so *)
(* the lane can run forever on finitely many ids.                          *)
(***************************************************************************)
EXTENDS Integers

CONSTANTS
  Routines,     \* routine ids
  Jobs,         \* ids for main_jobs rows, the least unused one first
  Workers,      \* tokio tasks, from the command that launches them on, the
                \* least unused number first
  Tick,         \* the project tick, as holder of the guard
  None,         \* NULL
  MaxRequests,  \* bound on operator commands and phases that end in DONE
  MaxFaults     \* bound on crashes and unwritable log directories

Kinds == {"routine", "dream", "deepsleep", "reconcile"}

ASSUME MainJobsAssumption ==
  /\ Jobs \subseteq Nat /\ Workers \subseteq Nat
  /\ None \notin Routines \cup Jobs \cup Workers \cup {Tick} /\ None \notin Kinds
  /\ Tick \notin Workers
  /\ MaxRequests \in Nat /\ MaxFaults \in Nat

VARIABLES
  up,         \* recovery is over and the daemon serves
  routines,   \* the rows of routines
  running,    \* Scheduler.running_routines
  job,        \* the rows of main_jobs, each with its agent_runs row
  worker,     \* what each task is doing
  guard,      \* who holds the project's tick guard
  snapshot,   \* what the tick read: is deepsleep due?
  due,        \* deepsleep_cron has fired since last_deepsleep_at
  requests,   \* commands so far
  faults      \* faults so far

tick == <<guard, snapshot, due>>
bounds == <<requests, faults>>
vars == <<up, routines, running, job, worker, tick, bounds>>

Active == {"QUEUED", "RUNNING"}
Ended == {"DONE", "FAILED"}
Row == [status : Active \cup Ended \cup {"absent"}, kind : Kinds \cup {None},
        routine : Routines \cup {None}, run : {"none", "open", "closed"}]
\* The tasks that have a row, by the call they are about to make.
OnRow == {"mark", "start", "agent", "finish", "ran", "close", "tail"}
Work == [pc : OnRow \cup {"idle", "check", "enqueue"}, kind : Kinds \cup {None},
         routine : Routines \cup {None}, job : Jobs \cup {None},
         result : {"done", "failed", "error"}]
NoRow == [status |-> "absent", kind |-> None, routine |-> None, run |-> "none"]
IdleWork == [pc |-> "idle", kind |-> None, routine |-> None, job |-> None,
             result |-> "failed"]

TypeOK ==
  /\ up \in BOOLEAN /\ due \in BOOLEAN /\ snapshot \in BOOLEAN
  /\ routines \subseteq Routines /\ running \subseteq Routines
  /\ job \in [Jobs -> Row] /\ worker \in [Workers -> Work]
  /\ guard \in Workers \cup {Tick, None}
  /\ requests \in 0..MaxRequests /\ faults \in 0..MaxFaults

Init ==
  /\ up = TRUE
  /\ routines = Routines
  /\ running = {}
  /\ job = [j \in Jobs |-> NoRow]
  /\ worker = [w \in Workers |-> IdleWork]
  /\ guard = None /\ snapshot = FALSE
  /\ due \in BOOLEAN
  /\ requests = 0 /\ faults = 0

At(w, pc) == worker[w].pc = pc
Goto(w, pc) == worker' = [worker EXCEPT ![w].pc = pc]
Holds(w, j) == worker[w].pc \in OnRow /\ worker[w].job = j
Request == requests < MaxRequests /\ requests' = requests + 1
Fault == faults < MaxFaults /\ faults' = faults + 1

\* A task for a job of this kind, about to make its first call.
Begin(w, kind, r, pc) ==
  /\ At(w, "idle") /\ \A v \in Workers : v < w => ~At(v, "idle")
  /\ worker' = [worker EXCEPT ![w] = [IdleWork EXCEPT
                  !.pc = pc, !.kind = kind, !.routine = r]]

-----------------------------------------------------------------------------
(* Launchers                                                               *)

\* Mutant: asks the table whether the routine has a job, not the set.
RunRoutineNowByTable(w, r) ==
  /\ up /\ Request
  /\ \A j \in Jobs : job[j].routine = r => job[j].status \notin Active
  /\ running' = running \cup {r}
  /\ Begin(w, "routine", r, "enqueue")
  /\ UNCHANGED <<up, routines, job, tick, faults>>

\* run_routine_now: the routine is reserved under the mutex.
RunRoutineNow(w, r) ==
  /\ up /\ Request
  /\ r \notin running
  /\ running' = running \cup {r}
  /\ Begin(w, "routine", r, "enqueue")
  /\ UNCHANGED <<up, routines, job, tick, faults>>

\* The end of a phase task whose issue is DONE: a dream, whatever else runs.
PhaseEndsDone(w) ==
  /\ up /\ Request
  /\ Begin(w, "dream", None, "enqueue")
  /\ UNCHANGED <<up, routines, running, job, tick, faults>>

\* The tick takes the guard and reads the project row; routing and remote
\* syncs follow before the row is used.  A manual tick skips deepsleep.
TickReads(isDue) ==
  /\ up /\ guard = None
  /\ guard' = Tick /\ snapshot' = isDue
  /\ UNCHANGED <<up, routines, running, job, worker, due, faults>>

AutoTick == TickReads(due) /\ UNCHANGED requests
ManualTick == TickReads(FALSE) /\ Request

\* Mutant: asks for open runs as well as for jobs that have not ended.
HasActiveProjectJobOrRun ==
  \E j \in Jobs : job[j].status \in Active \/ job[j].run = "open"

\* has_active_project_job.
HasActiveProjectJob == \E j \in Jobs : job[j].status \in Active

\* service_project_deepsleep, on the row the tick read, and the tick's end; the
\* task is spawned if the instance has one left.
ServiceDeepsleep ==
  /\ guard = Tick
  /\ guard' = None /\ snapshot' = FALSE
  /\ IF snapshot /\ ~HasActiveProjectJob /\ \E w \in Workers : At(w, "idle")
     THEN \E w \in Workers : Begin(w, "deepsleep", None, "enqueue")
     ELSE UNCHANGED worker
  /\ UNCHANGED <<up, routines, running, job, due, bounds>>

\* reconcile_project: refused while the project ticks or reconciles.
Reconcile(w) ==
  /\ up /\ guard = None /\ Request
  /\ guard' = w
  /\ Begin(w, "reconcile", None, "check")
  /\ UNCHANGED <<up, routines, running, job, snapshot, due, faults>>

\* has_active_project_kind, for the only kind it is asked about.
Reconciling(j) == job[j].kind = "reconcile" /\ job[j].status \in Active

\* Without a conflict that needs an agent, with an error on the way, or with a
\* reconcile job that has not ended, the command is over.
ReconcileCheck(w) ==
  /\ At(w, "check")
  /\ \/ /\ ~\E j \in Jobs : Reconciling(j)
        /\ Goto(w, "enqueue") /\ UNCHANGED guard
     \/ /\ worker' = [worker EXCEPT ![w] = IdleWork]
        /\ guard' = None
  /\ UNCHANGED <<up, routines, running, job, snapshot, due, bounds>>

-----------------------------------------------------------------------------
(* The task of a job                                                       *)

Free(j) == job[j].status = "absent"
\* What the model keeps of a row nobody writes any more.
Kept(row) == IF row.status \in Ended /\ row.run # "open" THEN NoRow ELSE row

\* The INSERT of a QUEUED row.  reconcile_project returns after it.
Enqueue(w) ==
  /\ At(w, "enqueue")
  /\ worker[w].kind = "routine" => worker[w].routine \in routines
  /\ \E j \in Jobs :
       /\ Free(j) /\ \A k \in Jobs : k < j => ~Free(k)
       /\ job' = [job EXCEPT ![j] = [NoRow EXCEPT !.status = "QUEUED",
                    !.kind = worker[w].kind, !.routine = worker[w].routine]]
       /\ worker' = [worker EXCEPT ![w].pc = "mark", ![w].job = j]
  /\ guard' = IF guard = w THEN None ELSE guard
  /\ UNCHANGED <<up, routines, running, snapshot, due, bounds>>

\* The routine was deleted first: its reservation is given back.
EnqueueFails(w) ==
  /\ At(w, "enqueue")
  /\ worker[w].kind = "routine" /\ worker[w].routine \notin routines
  /\ running' = running \ {worker[w].routine}
  /\ worker' = [worker EXCEPT ![w] = IdleWork]
  /\ UNCHANGED <<up, routines, job, tick, bounds>>

MarkRunning(w) ==
  /\ At(w, "mark")
  /\ job[worker[w].job].status = "QUEUED"
  /\ job' = [job EXCEPT ![worker[w].job].status = "RUNNING"]
  /\ Goto(w, "start")
  /\ UNCHANGED <<up, routines, running, tick, bounds>>

\* The log directory cannot be made: the task gives up, the row stays QUEUED.
MarkFails(w) ==
  /\ At(w, "mark") /\ Fault
  /\ Goto(w, "tail")
  /\ UNCHANGED <<up, routines, running, job, tick, requests>>

StartRun(w) ==
  /\ At(w, "start")
  /\ job' = [job EXCEPT ![worker[w].job].run = "open"]
  /\ Goto(w, "agent")
  /\ UNCHANGED <<up, routines, running, tick, bounds>>

\* The agent exits with 0, exits otherwise or is killed at its timeout, or
\* cannot be executed at all.
AgentEnds(w) ==
  /\ At(w, "agent")
  /\ \E r \in {"done", "failed", "error"} :
       worker' = [worker EXCEPT ![w].pc = "finish", ![w].result = r]
  /\ UNCHANGED <<up, routines, running, job, tick, bounds>>

\* main_jobs::finish, which looks at no earlier status.
Finish(w) ==
  LET wk == worker[w] IN
  /\ At(w, "finish")
  /\ job' = [job EXCEPT ![wk.job].status =
               IF wk.result = "done" THEN "DONE" ELSE "FAILED"]
  /\ Goto(w, IF wk.kind = "routine" /\ wk.result # "error" THEN "ran" ELSE "close")
  /\ UNCHANGED <<up, routines, running, tick, bounds>>

\* mark_ran: an error when the routine was deleted, and the run stays open.
MarkRan(w) ==
  /\ At(w, "ran")
  /\ Goto(w, IF worker[w].routine \in routines THEN "close" ELSE "tail")
  /\ UNCHANGED <<up, routines, running, job, tick, bounds>>

CloseRun(w) ==
  /\ At(w, "close")
  /\ job' = [job EXCEPT ![worker[w].job].run = "closed"]
  /\ Goto(w, "tail")
  /\ UNCHANGED <<up, routines, running, tick, bounds>>

\* The last lines of spawn_main_job and spawn_memory_job.
Tail(w) ==
  LET wk == worker[w] IN
  /\ At(w, "tail")
  /\ running' = running \ {wk.routine}
  /\ due' = (due /\ ~(wk.kind = "deepsleep" /\ wk.result = "done"))
  /\ worker' = [worker EXCEPT ![w] = IdleWork]
  /\ job' = [job EXCEPT ![wk.job] = Kept(@)]
  /\ UNCHANGED <<up, routines, guard, snapshot, bounds>>

-----------------------------------------------------------------------------
(* Routines, the schedule, crashes and recovery                            *)

\* Ids are reused: a new row may take the id of a deleted one.
CreateRoutine(r) ==
  /\ up /\ Request
  /\ r \notin routines /\ routines' = routines \cup {r}
  /\ UNCHANGED <<up, running, job, worker, tick, faults>>

\* The row goes, and the jobs of the routine keep no trace of it; whether one
\* of them runs is not asked.
RemoveRoutine(r) ==
  /\ up /\ Request
  /\ r \in routines /\ routines' = routines \ {r}
  /\ job' = [j \in Jobs |-> IF job[j].routine = r
                            THEN [job[j] EXCEPT !.routine = None] ELSE job[j]]
  /\ UNCHANGED <<up, running, worker, tick, faults>>

CronFires ==
  /\ ~due /\ due' = TRUE
  /\ UNCHANGED <<up, routines, running, job, worker, guard, snapshot, bounds>>

\* Only the rows survive.
Crash ==
  /\ up /\ Fault
  /\ up' = FALSE /\ running' = {}
  /\ worker' = [w \in Workers |-> IdleWork]
  /\ guard' = None /\ snapshot' = FALSE
  /\ UNCHANGED <<routines, job, due, requests>>

OpenRuns == {j \in Jobs : job[j].run = "open"}
RunningJobs == {j \in Jobs : job[j].status = "RUNNING"}

\* Mutant: fails the job of every open run, also one that had finished.
RecoverJobAnyStatus(j) ==
  /\ ~up /\ job[j].status # "FAILED"
  /\ j \in OpenRuns \/ (OpenRuns = {} /\ j \in RunningJobs)
  /\ job' = [job EXCEPT ![j].status = "FAILED"]
  /\ UNCHANGED <<up, routines, running, worker, tick, bounds>>

\* recover_open_main_jobs: the jobs of open runs first, then the others.
RecoverJob(j) ==
  /\ ~up /\ j \in RunningJobs /\ (j \in OpenRuns \/ OpenRuns = {})
  /\ job' = [job EXCEPT ![j].status = "FAILED"]
  /\ UNCHANGED <<up, routines, running, worker, tick, bounds>>

RecoverRun(j) ==
  /\ ~up /\ j \in OpenRuns \ RunningJobs
  /\ job' = [job EXCEPT ![j].run = "closed"]
  /\ UNCHANGED <<up, routines, running, worker, tick, bounds>>

\* Mutant: only the jobs of open runs are repaired.
BootAfterRuns ==
  /\ ~up /\ OpenRuns = {}
  /\ up' = TRUE
  /\ job' = [j \in Jobs |-> Kept(job[j])]
  /\ UNCHANGED <<routines, running, worker, tick, bounds>>

\* Recovery ends and the daemon serves; QUEUED rows are left as they are.
Boot ==
  /\ ~up /\ OpenRuns = {} /\ RunningJobs = {}
  /\ up' = TRUE
  /\ job' = [j \in Jobs |-> Kept(job[j])]
  /\ UNCHANGED <<routines, running, worker, tick, bounds>>

-----------------------------------------------------------------------------
Launch(w) ==
  \/ \E r \in Routines : RunRoutineNow(w, r)
  \/ PhaseEndsDone(w)
  \/ Reconcile(w)

JobTask(w) ==
  \/ ReconcileCheck(w) \/ Enqueue(w) \/ EnqueueFails(w)
  \/ MarkRunning(w) \/ StartRun(w) \/ AgentEnds(w) \/ Finish(w) \/ MarkRan(w)
  \/ CloseRun(w) \/ Tail(w)

Recovery == (\E j \in Jobs : RecoverJob(j) \/ RecoverRun(j)) \/ Boot

Next ==
  \/ \E w \in Workers : Launch(w) \/ JobTask(w) \/ MarkFails(w)
  \/ AutoTick \/ ManualTick \/ ServiceDeepsleep
  \/ \E r \in Routines : CreateRoutine(r) \/ RemoveRoutine(r)
  \/ CronFires
  \/ Crash \/ Recovery

Spec == Init /\ [][Next]_vars

\* The scheduler loop keeps ticking, tokio runs every task (agents are killed
\* at main_job_timeout_min) and a stopped daemon is started again.
FairSpec ==
  /\ Spec
  /\ WF_vars(AutoTick) /\ WF_vars(ServiceDeepsleep)
  /\ \A w \in Workers : WF_vars(JobTask(w))
  /\ WF_vars(Recovery)

-----------------------------------------------------------------------------
(* Safety                                                                  *)

\* A routine has at most one task, from its reservation to its release, and
\* exactly the routines with a task are reserved (scheduler.rs:1370-1382).
RoutineOnce ==
  /\ \A v, w \in Workers :
       worker[v].kind = "routine" /\ worker[w].kind = "routine"
         /\ worker[v].routine = worker[w].routine => v = w
  /\ running = {worker[w].routine : w \in {v \in Workers : worker[v].kind = "routine"}}

Attended(j) == \E w \in Workers : Holds(w, j)

\* A served RUNNING job has its task and so has an open run; the one exception
\* is a run whose routine was deleted under it (main_job_runner.rs:176-187).
\* Recovery has repaired everything a crash cut off.
RunningIsAttended ==
  up => \A j \in Jobs :
    /\ job[j].status = "RUNNING" => Attended(j)
    /\ job[j].run = "open" =>
         Attended(j) \/ (job[j].kind = "routine" /\ job[j].routine = None)

\* Of a project's reconcile jobs at most one has not ended: the guard is held
\* from the question to the INSERT (scheduler.rs:975-980).
OneReconcile == \A j, k \in Jobs : Reconciling(j) /\ Reconciling(k) => j = k

\* A job ends once: what its task wrote is not overwritten by recovery nor the
\* other way round, although finish() updates the row in any status.
VerdictKept ==
  [][\A j \in Jobs : job[j].status \in Ended /\ job'[j].status # job[j].status
       => job'[j].status = "absent" /\ job[j].run # "open"]_vars

-----------------------------------------------------------------------------
(* Liveness                                                                *)

\* A row nobody will run: its task died, or gave up, before mark_running.
Orphan(j) == job[j].status = "QUEUED" /\ ~Attended(j)

\* A due deepsleep runs, unless an orphan makes every tick believe that a job
\* of the project is active (scheduler.rs:617).
DeepsleepServed ==
  due ~> \/ ~due
         \/ \E j \in Jobs : job[j].kind = "deepsleep" /\ job[j].status = "RUNNING"
         \/ \E j \in Jobs : Orphan(j)

=============================================================================
