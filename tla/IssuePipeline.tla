--------------------------- MODULE IssuePipeline ---------------------------
(***************************************************************************)
(* The life of an issue inside the auwsx daemon: the phase tasks that run  *)
(* agents (pipeline::execute), the in-memory running set that serialises   *)
(* them, the project tick that spawns, releases and tears down, the IPC    *)
(* handlers operators call meanwhile, and a crash of the daemon followed   *)
(* by its startup recovery.                                                *)
(*                                                                         *)
(* Every step below is what the code does between two of its awaits.  In   *)
(* particular issues::transition is two steps, as in the code: it reads    *)
(* the status and checks legality, then writes unconditionally.  The check *)
(* is folded into the read that precedes it where the code reads twice in  *)
(* a row; the unconditional write is always a step of its own.             *)
(***************************************************************************)
EXTENDS IssueStatus, Naturals, FiniteSets

CONSTANTS
  Issues,        \* issues of one project, whose rows exist initially
  Tasks,         \* slots for concurrently spawned phase tasks
  Ops,           \* IPC handlers that may be in progress at once
  Tick,          \* the project tick, one at a time (ProjectTickGuard)
  Msgs,          \* queue messages operators may send
  NoIssue, NoMsg,\* absent values
  OpKinds,       \* the operator commands in use
  SetTargets,    \* the statuses operators pass to SetIssueStatus
  AutoCompletion,\* completion_policy is soft or auto (and merge_mode local)
  MaxCrashes     \* bound on daemon crashes

AllOpKinds == {"run", "retry", "approve", "abandon", "cleanup", "remove",
               "set", "force", "steer", "consume", "prune"}

ASSUME PipelineAssumption ==
  /\ Tick \notin Ops /\ NoIssue \notin Issues /\ NoMsg \notin Msgs
  /\ OpKinds \subseteq AllOpKinds
  /\ SetTargets \subseteq Status
  /\ AutoCompletion \in BOOLEAN
  /\ MaxCrashes \in Nat

Actors == Ops \cup {Tick}

VARIABLES
  status,     \* issues.status, "REMOVED" once the row is deleted
  wtRow,      \* issues.worktree_path IS NOT NULL
  wtDisk,     \* git has a live checkout of the issue's branch
  queued,     \* unconsumed steering rows; has_pending_steering iff non-empty
  openRuns,   \* agent_runs rows with ended_at NULL
  lastPhase,  \* status_before of the latest run that names a phase, or NEW
  running,    \* Scheduler.running
  task,       \* phase tasks
  act,        \* IPC handlers and the tick, with what they read
  todo,       \* decisions of the tick not executed yet
  daemon,     \* "up", "down" or "recovering"
  crashes     \* crashes so far

dbVars == <<status, wtRow, queued, openRuns, lastPhase>>
memVars == <<running, task, act, todo>>
envVars == <<daemon, crashes>>
vars == <<dbVars, wtDisk, memVars, envVars>>

IdleTask == [pc |-> "idle", issue |-> NoIssue, before |-> "NEW",
             checkout |-> FALSE, seen |-> {}, target |-> "FAILED"]
IdleActor == [pc |-> "idle", kind |-> "none", issue |-> NoIssue,
              to |-> "FAILED", known |-> {}, msg |-> NoMsg]

TaskPC == {"idle", "begin", "enter", "tree", "record", "setupFailed", "start",
           "agent", "dispatch", "merge", "applied", "write", "reload",
           "unchanged", "consume", "rework", "reworkCheck", "reworkWrite", "failCheck",
           "failWrite", "finish", "exit"}
ActorPC == {"idle", "teardown", "clear", "abandon", "delete", "write",
            "force", "rerun", "insert", "prune", "decide"}

PhaseTask == [pc : TaskPC, issue : Issues \cup {NoIssue}, before : Status,
              checkout : BOOLEAN, seen : SUBSET Msgs, target : Status]
Handler == [pc : ActorPC, kind : AllOpKinds \cup {"none"},
            issue : Issues \cup {NoIssue}, to : Status,
            known : SUBSET Issues, msg : Msgs \cup {NoMsg}]

\* pcs between agent_runs::start and agent_runs::finish
InRun == {"agent", "dispatch", "merge", "applied", "write", "reload",
          "unchanged", "consume", "rework", "reworkCheck", "reworkWrite"}
Live(t) == task[t].pc # "idle"
Exists(i) == status[i] # "REMOVED"
RunRow(t) == [issue |-> task[t].issue, before |-> task[t].before, slot |-> t]
Idle(i) == i \notin running                      \* ensure_issue_idle

TypeOK ==
  /\ status \in [Issues -> Status \cup {"REMOVED"}]
  /\ wtRow \in [Issues -> BOOLEAN]
  /\ wtDisk \in [Issues -> BOOLEAN]
  /\ queued \in [Issues -> SUBSET Msgs]
  /\ openRuns \subseteq [issue : Issues, before : Status, slot : Tasks]
  /\ lastPhase \in [Issues -> Status]
  /\ running \subseteq Issues
  /\ task \in [Tasks -> PhaseTask]
  /\ act \in [Actors -> Handler]
  /\ todo \in [Issues -> {"none", "spawn", "gate", "teardown"}]
  /\ daemon \in {"up", "down", "recovering"}
  /\ crashes \in 0..MaxCrashes

Init ==
  /\ status = [i \in Issues |-> "NEW"]
  /\ wtRow = [i \in Issues |-> FALSE]
  /\ wtDisk = [i \in Issues |-> FALSE]
  /\ queued = [i \in Issues |-> {}]
  /\ openRuns = {}
  /\ lastPhase = [i \in Issues |-> "NEW"]
  /\ running = {}
  /\ task = [t \in Tasks |-> IdleTask]
  /\ act = [a \in Actors |-> IdleActor]
  /\ todo = [i \in Issues |-> "none"]
  /\ daemon = "up"
  /\ crashes = 0

-----------------------------------------------------------------------------
(* Phase tasks: spawn_phase and pipeline::execute                          *)

SetStatus(i, s) == status' = [status EXCEPT ![i] = s]

Become(t, r) == task' = [task EXCEPT ![t] = r]

\* Mutant of Spawn: the insertion into the running set is not checked.
SpawnUnchecked(t, i) ==
  /\ ~Live(t)
  /\ running' = running \cup {i}
  /\ Become(t, [IdleTask EXCEPT !.pc = "begin", !.issue = i])

\* spawn_phase(i): nothing if i is in the running set, else reserve and spawn.
Spawn(t, i) ==
  \/ i \in running /\ UNCHANGED <<running, task>>
  \/ /\ i \notin running
     /\ ~Live(t)
     /\ running' = running \cup {i}
     /\ Become(t, [IdleTask EXCEPT !.pc = "begin", !.issue = i])

\* Task t is at pc p, and moves to q; Forget also drops what it read earlier
\* and does not use again.
At(t, p) == task[t].pc = p
Goto(t, q) == Become(t, [task[t] EXCEPT !.pc = q])
Forget(t, q) == Become(t, [IdleTask EXCEPT !.pc = q, !.issue = task[t].issue,
                                           !.before = task[t].before])

\* Load the row; a status without a phase, or a removed row, ends the task.
\* NEW is entered as PLANNING before anything else (the transition's own
\* check reads NEW here).
TaskBegin(t) ==
  LET i == task[t].issue IN
  /\ At(t, "begin")
  /\ IF HasPhase(status[i])
     THEN Become(t, [task[t] EXCEPT
            !.pc = IF status[i] = "NEW" THEN "enter" ELSE "tree",
            !.before = IF status[i] = "NEW" THEN "PLANNING" ELSE status[i],
            !.checkout = wtRow[i]])
     ELSE Goto(t, "exit")
  /\ UNCHANGED <<dbVars, wtDisk, running, act, todo, envVars>>

TaskEnterPlanning(t) ==
  LET i == task[t].issue IN
  /\ At(t, "enter")
  /\ IF Exists(i) THEN SetStatus(i, "PLANNING") /\ Goto(t, "tree")
                  ELSE Goto(t, "exit") /\ UNCHANGED status
  /\ UNCHANGED <<wtRow, queued, openRuns, lastPhase, wtDisk,
                 running, act, todo, envVars>>

\* The adapter removes a checkout with its branch.  It refuses to create over
\* a live checkout; a branch without one it sets aside.
MayCreate(i) == ~wtDisk[i]
CreateTree(i) == wtDisk' = [wtDisk EXCEPT ![i] = TRUE]
RemoveTree(i) == wtDisk' = [wtDisk EXCEPT ![i] = FALSE]

\* A phase without a recorded worktree creates one, which git may also fail to
\* do for other reasons.
TaskCreateTree(t) ==
  LET i == task[t].issue IN
  /\ At(t, "tree")
  /\ \/ task[t].checkout /\ Forget(t, "start") /\ UNCHANGED wtDisk
     \/ /\ ~task[t].checkout /\ MayCreate(i)
        /\ CreateTree(i)
        /\ Goto(t, "record")
     \/ ~task[t].checkout /\ Goto(t, "setupFailed") /\ UNCHANGED wtDisk
  /\ UNCHANGED <<dbVars, running, act, todo, envVars>>

\* Mutant of TaskRecordTree: the worktree fields are written unconditionally.
TaskRecordTreeBlindly(t) ==
  /\ At(t, "record")
  /\ wtRow' = [wtRow EXCEPT ![task[t].issue] = TRUE]
  /\ Goto(t, "start")
  /\ UNCHANGED <<status, queued, openRuns, lastPhase, wtDisk, running, act,
                 todo, envVars>>

\* set_worktree; when the row is gone the fresh checkout is torn down again.
TaskRecordTree(t) ==
  LET i == task[t].issue IN
  /\ At(t, "record")
  /\ IF Exists(i)
     THEN /\ wtRow' = [wtRow EXCEPT ![i] = TRUE]
          /\ Goto(t, "start")
          /\ UNCHANGED wtDisk
     ELSE /\ RemoveTree(i)
          /\ Goto(t, "setupFailed")
          /\ UNCHANGED wtRow
  /\ UNCHANGED <<status, queued, openRuns, lastPhase, running, act, todo,
                 envVars>>

\* mark_issue_failed_with_setup_log: a run row is opened and closed, then the
\* issue is failed if that is still legal.
TaskSetupFailed(t) ==
  LET i == task[t].issue IN
  /\ At(t, "setupFailed")
  /\ lastPhase' = IF Exists(i)
                  THEN [lastPhase EXCEPT ![i] = task[t].before]
                  ELSE lastPhase
  /\ Goto(t, IF LegalTransition(status[i], "FAILED") THEN "failWrite"
                                                     ELSE "exit")
  /\ UNCHANGED <<status, wtRow, queued, openRuns, wtDisk, running, act, todo,
                 envVars>>

\* The prompt takes the pending messages; agent_runs::start opens the row
\* (its foreign key fails when the issue was removed).
TaskStartRun(t) ==
  LET i == task[t].issue IN
  /\ At(t, "start")
  /\ IF Exists(i)
     THEN /\ openRuns' = openRuns \cup {RunRow(t)}
          /\ lastPhase' = [lastPhase EXCEPT ![i] = task[t].before]
          /\ Become(t, [task[t] EXCEPT !.pc = "agent", !.seen = queued[i]])
     ELSE Goto(t, "exit") /\ UNCHANGED <<openRuns, lastPhase>>
  /\ UNCHANGED <<status, wtRow, queued, wtDisk, running, act, todo, envVars>>

\* The prompt, the control directory or its snapshot cannot be written.
TaskPrepareFails(t) ==
  /\ At(t, "start")
  /\ Goto(t, "setupFailed")
  /\ UNCHANGED <<dbVars, wtDisk, running, act, todo, envVars>>

\* The agent ends (exit, kill or timeout).  Its outbox is empty, or declares
\* one status legal from the snapshot, or asks for the merge of a MERGING
\* issue, or is rejected by validation; or the executor itself fails.
TaskAgentEnds(t) ==
  /\ At(t, "agent")
  /\ \/ Goto(t, "reload")
     \/ \E s \in Status :
          /\ LegalTransition(task[t].before, s)
          /\ wtDisk[task[t].issue]
          /\ Become(t, [task[t] EXCEPT !.pc = "dispatch", !.target = s])
     \/ /\ task[t].before = "MERGING"
        /\ wtDisk[task[t].issue]
        /\ Goto(t, "merge")
     \/ Goto(t, "failCheck")
  /\ UNCHANGED <<dbVars, wtDisk, running, act, todo, envVars>>

\* Replay of SetIssueStatus: already there, or checked against the current
\* status; an error fails the replay.
TaskDispatch(t) ==
  LET s == status[task[t].issue] IN
  /\ At(t, "dispatch")
  /\ Goto(t, IF s = task[t].target THEN "reload"
             ELSE IF LegalTransition(s, task[t].target) THEN "write"
             ELSE "failCheck")
  /\ UNCHANGED <<dbVars, wtDisk, running, act, todo, envVars>>

\* Replay of ApplyIssueMerge: only from MERGING and with a branch on record;
\* git then merges, blocks or fails, and the outcome is a transition.
TaskApplyMerge(t) ==
  LET i == task[t].issue IN
  /\ At(t, "merge")
  /\ \/ /\ status[i] = "MERGING" /\ wtRow[i]
        /\ \E s \in {"DONE", "CONFLICT_BLOCKED"} :
             Become(t, [task[t] EXCEPT !.pc = "applied", !.target = s])
     \/ Goto(t, "failCheck")
  /\ UNCHANGED <<dbVars, wtDisk, running, act, todo, envVars>>

\* The merge is in git whatever this check says.
TaskApplied(t) ==
  /\ At(t, "applied")
  /\ Goto(t, IF LegalTransition(status[task[t].issue], task[t].target)
             THEN "write" ELSE "failCheck")
  /\ UNCHANGED <<dbVars, wtDisk, running, act, todo, envVars>>

TaskWrite(t) ==
  LET i == task[t].issue IN
  /\ At(t, "write")
  /\ IF Exists(i) THEN SetStatus(i, task[t].target) /\ Goto(t, "reload")
                  ELSE Goto(t, "failCheck") /\ UNCHANGED status
  /\ UNCHANGED <<wtRow, queued, openRuns, lastPhase, wtDisk, running, act,
                 todo, envVars>>

\* Mutant of TaskReload: a phase may leave the status as it found it.
TaskReloadTrusts(t) ==
  /\ At(t, "reload")
  /\ Goto(t, "consume")
  /\ UNCHANGED <<dbVars, wtDisk, running, act, todo, envVars>>

\* The phase left the status alone: mark FAILED (check here, write next).
TaskReload(t) ==
  /\ At(t, "reload")
  /\ Goto(t, IF status[task[t].issue] = task[t].before THEN "unchanged"
                                                       ELSE "consume")
  /\ UNCHANGED <<dbVars, wtDisk, running, act, todo, envVars>>

TaskUnchanged(t) ==
  LET i == task[t].issue IN
  /\ At(t, "unchanged")
  /\ IF Exists(i) THEN SetStatus(i, "FAILED") ELSE UNCHANGED status
  /\ Goto(t, "consume")
  /\ UNCHANGED <<wtRow, queued, openRuns, lastPhase, wtDisk, running, act,
                 todo, envVars>>

\* Mutant of TaskConsume: consume_all instead of consume_ids.
TaskConsumeAll(t) ==
  /\ At(t, "consume")
  /\ queued' = [queued EXCEPT ![task[t].issue] = {}]
  /\ Forget(t, "rework")
  /\ UNCHANGED <<status, wtRow, openRuns, lastPhase, wtDisk, running, act,
                 todo, envVars>>

\* consume_ids: exactly the messages of the prompt.
TaskConsume(t) ==
  /\ At(t, "consume")
  /\ queued' = [queued EXCEPT ![task[t].issue] = @ \ task[t].seen]
  /\ Forget(t, "rework")
  /\ UNCHANGED <<status, wtRow, openRuns, lastPhase, wtDisk, running, act,
                 todo, envVars>>

\* Messages that arrived during the run send READY_TO_MERGE back to WORKING.
TaskRework(t) ==
  LET i == task[t].issue IN
  /\ At(t, "rework")
  /\ Goto(t, IF queued[i] # {} /\ status[i] = "READY_TO_MERGE"
             THEN "reworkCheck" ELSE "finish")
  /\ UNCHANGED <<dbVars, wtDisk, running, act, todo, envVars>>

\* An illegal transition is propagated with `?`: the run row stays open.
TaskReworkCheck(t) ==
  /\ At(t, "reworkCheck")
  /\ Goto(t, IF LegalTransition(status[task[t].issue], "WORKING")
             THEN "reworkWrite" ELSE "exit")
  /\ UNCHANGED <<dbVars, wtDisk, running, act, todo, envVars>>

TaskReworkWrite(t) ==
  LET i == task[t].issue IN
  /\ At(t, "reworkWrite")
  /\ IF Exists(i) THEN SetStatus(i, "WORKING") /\ Goto(t, "finish")
                  ELSE Goto(t, "exit") /\ UNCHANGED status
  /\ UNCHANGED <<wtRow, queued, openRuns, lastPhase, wtDisk, running, act,
                 todo, envVars>>

\* Executor and replay errors: FAILED if legal, the row is closed regardless.
TaskFailCheck(t) ==
  /\ At(t, "failCheck")
  /\ Goto(t, IF LegalTransition(status[task[t].issue], "FAILED")
             THEN "failWrite" ELSE "finish")
  /\ UNCHANGED <<dbVars, wtDisk, running, act, todo, envVars>>

\* Mutant of TaskFailWrite: the error path returns before agent_runs::finish.
TaskFailWriteReturns(t) ==
  LET i == task[t].issue IN
  /\ At(t, "failWrite")
  /\ IF Exists(i) THEN SetStatus(i, "FAILED") ELSE UNCHANGED status
  /\ Goto(t, "exit")
  /\ UNCHANGED <<wtRow, queued, openRuns, lastPhase, wtDisk, running, act,
                 todo, envVars>>

TaskFailWrite(t) ==
  LET i == task[t].issue IN
  /\ At(t, "failWrite")
  /\ IF Exists(i) THEN SetStatus(i, "FAILED") ELSE UNCHANGED status
  /\ Goto(t, "finish")
  /\ UNCHANGED <<wtRow, queued, openRuns, lastPhase, wtDisk, running, act,
                 todo, envVars>>

TaskFinish(t) ==
  /\ At(t, "finish")
  /\ openRuns' = openRuns \ {RunRow(t)}
  /\ Forget(t, "exit")
  /\ UNCHANGED <<status, wtRow, queued, lastPhase, wtDisk, running, act, todo,
                 envVars>>

\* The spawned closure leaves the running set after execute returns.
TaskExit(t) ==
  /\ At(t, "exit")
  /\ running' = running \ {task[t].issue}
  /\ Become(t, IdleTask)
  /\ UNCHANGED <<dbVars, wtDisk, act, todo, envVars>>

TaskStep(t) ==
  \/ TaskBegin(t) \/ TaskEnterPlanning(t) \/ TaskCreateTree(t)
  \/ TaskRecordTree(t) \/ TaskSetupFailed(t) \/ TaskStartRun(t)
  \/ TaskPrepareFails(t)
  \/ TaskAgentEnds(t) \/ TaskDispatch(t) \/ TaskApplyMerge(t) \/ TaskApplied(t)
  \/ TaskWrite(t) \/ TaskReload(t) \/ TaskUnchanged(t) \/ TaskConsume(t) \/ TaskRework(t)
  \/ TaskReworkCheck(t) \/ TaskReworkWrite(t) \/ TaskFailCheck(t)
  \/ TaskFailWrite(t) \/ TaskFinish(t) \/ TaskExit(t)

-----------------------------------------------------------------------------
(* Actors: IPC handlers and the tick                                       *)

AtA(a, p) == act[a].pc = p
Turn(a, h) == act' = [act EXCEPT ![a] = h]
Move(a, q) == Turn(a, [act[a] EXCEPT !.pc = q])
Done(a) == Turn(a, IdleActor)
Enter(a, k, i, p, s) ==
  Turn(a, [IdleActor EXCEPT !.pc = p, !.kind = k, !.issue = i, !.to = s])

\* A handler o accepts command k about an existing issue i.
Accept(o, k, i) == daemon = "up" /\ AtA(o, "idle") /\ k \in OpKinds /\ Exists(i)

\* run_issue_now, and execute_issue in a phase.
RunNow(t, i) ==
  /\ daemon = "up" /\ "run" \in OpKinds
  /\ Idle(i) /\ HasPhase(status[i])
  /\ Spawn(t, i)
  /\ UNCHANGED <<dbVars, wtDisk, act, todo, envVars>>

\* retry_failed_issue, and execute_issue on FAILED: choose the phase of the
\* latest run, force it, then run now.
Retry(o, i) ==
  /\ Accept(o, "retry", i)
  /\ Idle(i) /\ status[i] = "FAILED"
  /\ Enter(o, "retry", i, "force", lastPhase[i])
  /\ UNCHANGED <<dbVars, wtDisk, running, task, todo, envVars>>

\* Mutant of Approve: ensure_issue_idle is missing.
ApproveBusy(o, i) ==
  /\ Accept(o, "approve", i)
  /\ status[i] = "READY_TO_MERGE"
  /\ Enter(o, "approve", i, "write", "MERGING")
  /\ UNCHANGED <<dbVars, wtDisk, running, task, todo, envVars>>

\* approve_issue_merge and execute_issue on READY_TO_MERGE; the tick they ask
\* for is TickDecide.  Only the former looks for conflict-blocked issues.
Approve(o, i) ==
  /\ Accept(o, "approve", i)
  /\ Idle(i) /\ status[i] = "READY_TO_MERGE"
  /\ Enter(o, "approve", i, "write", "MERGING")
  /\ UNCHANGED <<dbVars, wtDisk, running, task, todo, envVars>>

\* SetIssueStatus, which does not look at the running set.
SetIssueStatus(o, i) ==
  /\ \E s \in SetTargets \ {status[i]} :
       \/ /\ Accept(o, "set", i)
          /\ LegalTransition(status[i], s)
          /\ Enter(o, "set", i, "write", s)
       \/ /\ Accept(o, "force", i)
          /\ Enter(o, "force", i, "force", s)
  /\ UNCHANGED <<dbVars, wtDisk, running, task, todo, envVars>>

Abandon(o, i) ==
  /\ Accept(o, "abandon", i)
  /\ Idle(i) /\ status[i] \notin Terminal
  /\ Enter(o, "abandon", i, IF wtRow[i] THEN "teardown" ELSE "abandon",
           "ABANDONED")
  /\ UNCHANGED <<dbVars, wtDisk, running, task, todo, envVars>>

\* cleanup_issue_worktree_by_id: any status.
Cleanup(o, i) ==
  /\ Accept(o, "cleanup", i)
  /\ Idle(i) /\ wtRow[i]
  /\ Enter(o, "cleanup", i, "teardown", "FAILED")
  /\ UNCHANGED <<dbVars, wtDisk, running, task, todo, envVars>>

RemoveIssue(o, i) ==
  /\ Accept(o, "remove", i)
  /\ Idle(i)
  /\ Enter(o, "remove", i, IF wtRow[i] THEN "teardown" ELSE "delete", "FAILED")
  /\ UNCHANGED <<dbVars, wtDisk, running, task, todo, envVars>>

\* steering::add reads the status, then inserts the row and sets the flag in
\* one transaction.
AddSteering(o, i) ==
  /\ Accept(o, "steer", i)
  /\ status[i] \in AcceptsQueueMessage
  /\ \E m \in Msgs :
       /\ \A j \in Issues : m \notin queued[j]
       /\ Turn(o, [IdleActor EXCEPT !.pc = "insert", !.kind = "steer",
                                    !.issue = i, !.msg = m])
  /\ UNCHANGED <<dbVars, wtDisk, running, task, todo, envVars>>

\* consume_all, the operator's ConsumeSteering.
ConsumeSteering(i) ==
  /\ daemon = "up" /\ "consume" \in OpKinds /\ Exists(i)
  /\ queued' = [queued EXCEPT ![i] = {}]
  /\ UNCHANGED <<status, wtRow, openRuns, lastPhase, wtDisk, memVars, envVars>>

\* known_issue_worktree_paths_for_repo
Recorded == {i \in Issues : wtRow[i]}

\* `auwsx worktree prune` and the orphan pruning of reconcile: read the
\* recorded paths, then remove every other managed checkout.
Prune(o) ==
  /\ AtA(o, "idle") /\ "prune" \in OpKinds
  /\ Turn(o, [IdleActor EXCEPT !.pc = "prune", !.kind = "prune",
                               !.known = Recorded])
  /\ UNCHANGED <<dbVars, wtDisk, running, task, todo, envVars>>

Orphans(known) == {i \in Issues : wtDisk[i] /\ i \notin known}
PruneOrphans(o) ==
  /\ AtA(o, "prune")
  /\ wtDisk' = [i \in Issues |-> wtDisk[i] /\ i \notin Orphans(act[o].known)]
  /\ Done(o)
  /\ UNCHANGED <<dbVars, running, task, todo, envVars>>

\* Second half of issues::transition and issues::force_status.
ActorWrite(a) ==
  LET i == act[a].issue IN
  /\ AtA(a, "write") \/ AtA(a, "force")
  /\ IF Exists(i) THEN SetStatus(i, act[a].to) ELSE UNCHANGED status
  /\ IF AtA(a, "force") /\ act[a].kind = "retry" /\ Exists(i)
     THEN Move(a, "rerun") ELSE Done(a)
  /\ UNCHANGED <<wtRow, queued, openRuns, lastPhase, wtDisk, running, task,
                 todo, envVars>>

\* The run_issue_now at the end of a retry.
RetryRun(o, t) ==
  /\ AtA(o, "rerun")
  /\ IF HasPhase(status[act[o].issue])
     THEN Spawn(t, act[o].issue) ELSE UNCHANGED <<running, task>>
  /\ Done(o)
  /\ UNCHANGED <<dbVars, wtDisk, todo, envVars>>

\* cleanup_issue_worktree: remove checkout and branch, then clear the row's
\* worktree fields.  An error, which may come after the checkout is gone,
\* ends the command.
Teardown(a) ==
  /\ AtA(a, "teardown")
  /\ \/ /\ RemoveTree(act[a].issue)
        /\ Move(a, "clear") \/ Done(a)
     \/ Done(a) /\ UNCHANGED wtDisk
  /\ UNCHANGED <<dbVars, running, task, todo, envVars>>

ClearWorktree(a) ==
  LET i == act[a].issue IN
  /\ AtA(a, "clear")
  /\ IF Exists(i) THEN wtRow' = [wtRow EXCEPT ![i] = FALSE]
                  ELSE UNCHANGED wtRow
  /\ IF ~Exists(i) \/ act[a].kind = "cleanup" THEN Done(a)
     ELSE Move(a, IF act[a].kind = "abandon" THEN "abandon" ELSE "delete")
  /\ UNCHANGED <<status, queued, openRuns, lastPhase, wtDisk, running, task,
                 todo, envVars>>

AbandonCheck(o) ==
  /\ AtA(o, "abandon")
  /\ IF LegalTransition(status[act[o].issue], "ABANDONED")
     THEN Move(o, "write") ELSE Done(o)
  /\ UNCHANGED <<dbVars, wtDisk, running, task, todo, envVars>>

\* issues::remove: child rows (runs, steering) cascade.
DeleteIssue(o) ==
  LET i == act[o].issue IN
  /\ AtA(o, "delete")
  /\ SetStatus(i, "REMOVED")
  /\ wtRow' = [wtRow EXCEPT ![i] = FALSE]
  /\ queued' = [queued EXCEPT ![i] = {}]
  /\ openRuns' = {r \in openRuns : r.issue # i}
  /\ Done(o)
  /\ UNCHANGED <<lastPhase, wtDisk, running, task, todo, envVars>>

InsertSteering(o) ==
  LET i == act[o].issue IN
  /\ AtA(o, "insert")
  /\ queued' = IF Exists(i) THEN [queued EXCEPT ![i] = @ \cup {act[o].msg}]
                            ELSE queued
  /\ Done(o)
  /\ UNCHANGED <<status, wtRow, openRuns, lastPhase, wtDisk, running, task,
                 todo, envVars>>

-----------------------------------------------------------------------------
(* The project tick: decide, then execute the decisions one by one         *)

\* Mutant of Decision: FAILED worktrees are torn down as well.
DecisionEager(i, busy) ==
  IF status[i] \in Actionable /\ i \notin busy THEN "spawn"
  ELSE IF \/ status[i] = "PLAN_READY"
          \/ status[i] = "READY_TO_MERGE" /\ AutoCompletion THEN "gate"
  ELSE IF status[i] \in Terminal /\ wtRow[i] THEN "teardown"
  ELSE "none"

\* decide() for one issue, given the running set the tick saw: concurrency
\* cap and merge lane are the subject of ProjectTick.
Decision(i, busy) ==
  IF status[i] \in Actionable /\ i \notin busy THEN "spawn"
  ELSE IF \/ status[i] = "PLAN_READY"
          \/ status[i] = "READY_TO_MERGE" /\ AutoCompletion THEN "gate"
  ELSE IF status[i] \in {"DONE", "ABANDONED"} /\ wtRow[i] THEN "teardown"
  ELSE "none"

\* The running set is copied before backlog routing and remote syncs, which
\* may run agents; the issues are listed after them.
TickSnapshot ==
  /\ daemon = "up"
  /\ AtA(Tick, "idle") /\ \A i \in Issues : todo[i] = "none"
  /\ Turn(Tick, [IdleActor EXCEPT !.pc = "decide", !.known = running])
  /\ UNCHANGED <<dbVars, wtDisk, running, task, todo, envVars>>

TickDecide ==
  /\ AtA(Tick, "decide")
  /\ todo' = [i \in Issues |-> Decision(i, act[Tick].known)]
  /\ Done(Tick)
  /\ UNCHANGED <<dbVars, wtDisk, running, task, envVars>>

Took(i) == AtA(Tick, "idle") /\ todo' = [todo EXCEPT ![i] = "none"]

TickSpawn(t, i) ==
  /\ todo[i] = "spawn" /\ Took(i)
  /\ Spawn(t, i)
  /\ UNCHANGED <<dbVars, wtDisk, act, envVars>>

\* service_soft_gate re-reads the issue, and waits, arms or releases.
\* Whether the deadline has passed is the subject of ProjectTick.
TickGate(i) ==
  /\ todo[i] = "gate" /\ Took(i)
  /\ \/ UNCHANGED act
     \/ status[i] = "PLAN_READY" /\ Enter(Tick, "none", i, "write", "WORKING")
     \/ /\ status[i] = "READY_TO_MERGE" /\ AutoCompletion
        /\ \A j \in Issues : status[j] # "CONFLICT_BLOCKED"
        /\ Enter(Tick, "none", i, "write", "MERGING")
  /\ UNCHANGED <<dbVars, wtDisk, running, task, envVars>>

\* teardown(): only the row's existence and its worktree are re-read.
TickTeardown(i) ==
  /\ todo[i] = "teardown" /\ Took(i)
  /\ IF Exists(i) /\ wtRow[i]
     THEN Enter(Tick, "cleanup", i, "teardown", "FAILED") ELSE UNCHANGED act
  /\ UNCHANGED <<dbVars, wtDisk, running, task, envVars>>

-----------------------------------------------------------------------------
(* Crash and recovery                                                      *)

\* The process dies: everything in memory, agents included, is gone.  A prune
\* runs in a process of its own and survives.
Crash ==
  /\ daemon # "down" /\ crashes < MaxCrashes
  /\ daemon' = "down"
  /\ crashes' = crashes + 1
  /\ running' = {}
  /\ task' = [t \in Tasks |-> IdleTask]
  /\ act' = [a \in Actors |-> IF AtA(a, "prune") THEN act[a] ELSE IdleActor]
  /\ todo' = [i \in Issues |-> "none"]
  /\ UNCHANGED <<dbVars, wtDisk>>

\* recover_interrupted_work runs before the scheduler and the IPC server.
Restart ==
  /\ daemon = "down"
  /\ daemon' = "recovering"
  /\ UNCHANGED <<dbVars, wtDisk, memVars, crashes>>

\* One iteration of recover_open_issue_runs; nothing else runs meanwhile.
RecoverRun ==
  /\ daemon = "recovering"
  /\ \E r \in openRuns :
       /\ openRuns' = openRuns \ {r}
       /\ status' = IF /\ status[r.issue] \in Actionable
                       /\ r.before = status[r.issue]
                    THEN [status EXCEPT ![r.issue] = "FAILED"] ELSE status
  /\ UNCHANGED <<wtRow, queued, lastPhase, wtDisk, memVars, envVars>>

Recovered ==
  /\ daemon = "recovering" /\ openRuns = {}
  /\ daemon' = "up"
  /\ UNCHANGED <<dbVars, wtDisk, memVars, crashes>>

-----------------------------------------------------------------------------
TickStep ==
  \/ TickSnapshot \/ TickDecide
  \/ \E i \in Issues : \/ TickGate(i) \/ TickTeardown(i)
                       \/ \E t \in Tasks : TickSpawn(t, i)

Continue(a) == \/ ActorWrite(a) \/ Teardown(a) \/ ClearWorktree(a)
               \/ AbandonCheck(a) \/ DeleteIssue(a) \/ InsertSteering(a)
               \/ PruneOrphans(a) \/ \E t \in Tasks : RetryRun(a, t)

Command(o) ==
  \/ Prune(o)
  \/ \E i \in Issues : \/ Retry(o, i) \/ Approve(o, i) \/ SetIssueStatus(o, i)
                       \/ Abandon(o, i) \/ Cleanup(o, i) \/ RemoveIssue(o, i)
                       \/ AddSteering(o, i)

Next ==
  \/ \E t \in Tasks : TaskStep(t)
  \/ \E t \in Tasks, i \in Issues : RunNow(t, i)
  \/ \E o \in Ops : Command(o)
  \/ \E i \in Issues : ConsumeSteering(i)
  \/ \E a \in Actors : Continue(a)
  \/ TickStep
  \/ Crash \/ Restart \/ RecoverRun \/ Recovered

Spec == Init /\ [][Next]_vars

\* What the code's scheduling gives: spawned tasks and accepted commands run
\* to their end (agents are killed at their timeout), the heartbeat keeps
\* ticking (a scheduled project), and the next client starts the daemon again
\* (ensure_daemon).  Operators owe nothing.
Fairness ==
  /\ \A t \in Tasks : WF_vars(TaskStep(t))
  /\ \A a \in Actors : WF_vars(Continue(a))
  /\ WF_vars(TickStep)
  /\ WF_vars(Restart \/ RecoverRun \/ Recovered)

FairSpec == Spec /\ Fairness

-----------------------------------------------------------------------------
(* Properties                                                              *)

\* At most one phase task works on an issue, and the running set names the
\* issues of the live tasks and no other: Scheduler.running is the only
\* lock between the tick, run-now, retry and approve (spawn_phase).
OnePhasePerIssue ==
  /\ \A t, u \in Tasks :
       Live(t) /\ Live(u) /\ task[t].issue = task[u].issue => t = u
  /\ running = {task[t].issue : t \in {u \in Tasks : Live(u)}}

\* While execute() is between agent_runs::start and finish its row stays open,
\* whatever handlers do meanwhile, unless the issue is deleted: nobody else
\* (startup recovery in particular) closes the run of a live agent.
PhaseOwnsOpenRun ==
  \A t \in Tasks : task[t].pc \in InRun /\ Exists(task[t].issue)
                     => RunRow(t) \in openRuns

\* Once the daemon serves, every open agent run is that of a task still
\* executing it: recovery closed what the last daemon left, and every path
\* through execute() closes what it opened.
NoStrayRun ==
  daemon = "up" =>
    \A r \in openRuns : Live(r.slot) /\ RunRow(r.slot) = r

\* An agent only ever runs in an existing checkout: no teardown overtakes it
\* and no crash leaves a recorded path that leads nowhere.
AgentRunsInCheckout ==
  \A t \in Tasks : At(t, "agent") => wtDisk[task[t].issue]

\* Nothing a task or a handler does late brings back a row of a deleted
\* issue: the cascade of issues::remove is final although the phase of the
\* issue may still be running.
RemovedLeavesNothing ==
  \A i \in Issues : ~Exists(i) =>
    ~wtRow[i] /\ queued[i] = {} /\ \A r \in openRuns : r.issue # i

\* Read together, the separate checks and writes of issues::transition never
\* produce a status change the matrix forbids; the one exception is the
\* retry of a FAILED issue, which forces the phase of its latest run.
LegalStatusSteps ==
  [][\A i \in Issues : status'[i] # status[i]
       => \/ LegalTransition(status[i], status'[i])
          \/ status[i] = "FAILED" /\ status'[i] = lastPhase[i]]_vars

\* Only an operator takes guidance out of the queue that no prompt contained,
\* with ConsumeSteering or with the issue: a message that arrives after the
\* prompt was built outlives the phase (consume_ids).
NoGuidanceDropped ==
  [][\A i \in Issues : \A m \in queued[i] \ queued'[i] :
       \/ ConsumeSteering(i) \/ \E o \in Ops : DeleteIssue(o) /\ act[o].issue = i
       \/ \E t \in Tasks : task[t].issue = i /\ m \in task[t].seen]_vars

\* No phase repeats itself for good: an issue changes its status for ever or
\* comes to rest in one that waits for a human or is final, also when the
\* daemon died in the middle of a phase.
StatusProgress ==
  \A i \in Issues : \/ []<><<status'[i] # status[i]>>_vars
                    \/ <>[](status[i] \notin Actionable)
=============================================================================
