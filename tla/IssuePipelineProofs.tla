------------------------ MODULE IssuePipelineProofs ------------------------
(***************************************************************************)
(* Theorems about IssuePipeline, for every value of its constants: type    *)
(* correctness, one phase task per issue, the run row of a live phase,     *)
(* what is left of a deleted issue, and what survives in the queue.  Under *)
(* the assumption that the commands in use are Quiet: open runs have their *)
(* task, agents their checkout, and statuses follow the matrix.            *)
(***************************************************************************)
EXTENDS IssuePipeline, TLAPS

-----------------------------------------------------------------------------
(* The inductive invariant, part one: types, and who works on which issue  *)

\* A live task works on an issue: only the idle record names NoIssue.
TasksOK ==
  /\ task \in [Tasks -> PhaseTask]
  /\ \A t \in Tasks : Live(t) => task[t].issue \in Issues

\* So does a handler, except a prune and the tick between two decisions.
HandlersOK ==
  /\ act \in [Actors -> Handler]
  /\ \A a \in Actors : act[a].pc \notin {"idle", "prune", "decide"}
                         => act[a].issue \in Issues
  /\ \A a \in Actors : act[a].pc = "insert" => act[a].msg \in Msgs

RowsOK ==
  /\ status \in [Issues -> Status \cup {"REMOVED"}]
  /\ wtRow \in [Issues -> BOOLEAN]
  /\ wtDisk \in [Issues -> BOOLEAN]
  /\ queued \in [Issues -> SUBSET Msgs]
  /\ openRuns \subseteq [issue : Issues, before : Status, slot : Tasks]
  /\ lastPhase \in [Issues -> Status]

RestOK ==
  /\ running \subseteq Issues
  /\ todo \in [Issues -> {"none", "spawn", "gate", "teardown"}]
  /\ daemon \in {"up", "down", "recovering"}
  /\ crashes \in 0..MaxCrashes

TypeInv == TasksOK /\ HandlersOK /\ RowsOK /\ RestOK

LEMMA TypeInvInit == Init => TypeInv
  BY PipelineAssumption
     DEF Init, TypeInv, TasksOK, HandlersOK, RowsOK, RestOK, Live, IdleTask,
         IdleActor, PhaseTask, Handler, TaskPC, ActorPC, Status, Actionable,
         Terminal

-----------------------------------------------------------------------------
(* What a step of a phase task does to the task and to the running set     *)

\* Task t goes on with the same issue.
Moved(t) ==
  \E r \in PhaseTask :
    r.pc # "idle" /\ r.issue = task[t].issue /\ Become(t, r)

LEMMA GotoMoves ==
  ASSUME TasksOK, NEW t \in Tasks, NEW q \in TaskPC \ {"idle"}, Goto(t, q)
  PROVE  Moved(t)
<1> DEFINE r == [task[t] EXCEPT !.pc = q]
<1>1. r \in PhaseTask /\ r.pc # "idle" /\ r.issue = task[t].issue
  BY DEF TasksOK, PhaseTask
<1> QED
  BY <1>1 DEF Goto, Moved

LEMMA ForgetMoves ==
  ASSUME TasksOK, NEW t \in Tasks, NEW q \in TaskPC \ {"idle"}, Forget(t, q)
  PROVE  Moved(t)
<1> DEFINE r == [IdleTask EXCEPT !.pc = q, !.issue = task[t].issue,
                                 !.before = task[t].before]
<1>1. r \in PhaseTask /\ r.pc # "idle" /\ r.issue = task[t].issue
  BY DEF TasksOK, PhaseTask, IdleTask, Status, Terminal
<1> QED
  BY <1>1 DEF Forget, Moved

\* Every step but the last keeps the task's issue and the running set.
LEMMA TaskStepMoves ==
  ASSUME TypeInv, NEW t \in Tasks, TaskStep(t), ~TaskExit(t)
  PROVE  Live(t) /\ Moved(t) /\ running' = running
<1>1. CASE TaskBegin(t)
  <2> DEFINE i == task[t].issue
             q == IF status[i] = "NEW" THEN "enter" ELSE "tree"
             b == IF status[i] = "NEW" THEN "PLANNING" ELSE status[i]
             c == wtRow[i]
             r == [task[t] EXCEPT !.pc = q, !.before = b, !.checkout = c]
  <2>1. Live(t)
    BY <1>1 DEF TaskBegin, At, Live
  <2>2. CASE HasPhase(status[i])
    <3>1. q \in TaskPC \ {"idle"} /\ b \in Status /\ c \in BOOLEAN
      BY <2>1, <2>2 DEF TypeInv, TasksOK, RowsOK, HasPhase, TaskPC, Status,
                        Actionable
    <3>2. Become(t, r)
      BY <1>1, <2>2 DEF TaskBegin
    <3> HIDE DEF q, b, c
    <3>3. r \in PhaseTask /\ r.pc # "idle" /\ r.issue = i
      BY <3>1 DEF TypeInv, TasksOK, PhaseTask
    <3> QED
      BY <1>1, <2>1, <3>2, <3>3 DEF TaskBegin, Moved
  <2>3. CASE ~HasPhase(status[i])
    BY <1>1, <2>1, <2>3, GotoMoves DEF TaskBegin, TypeInv, TaskPC
  <2> QED
    BY <2>2, <2>3
<1>2. CASE TaskEnterPlanning(t)
  BY <1>2, GotoMoves, ForgetMoves DEF TaskEnterPlanning, At, Live, TypeInv, TaskPC
<1>3. CASE TaskCreateTree(t)
  BY <1>3, GotoMoves, ForgetMoves DEF TaskCreateTree, At, Live, TypeInv, TaskPC
<1>4. CASE TaskRecordTree(t)
  BY <1>4, GotoMoves, ForgetMoves DEF TaskRecordTree, At, Live, TypeInv, TaskPC
<1>5. CASE TaskSetupFailed(t)
  BY <1>5, GotoMoves, ForgetMoves DEF TaskSetupFailed, At, Live, TypeInv, TaskPC
<1>6. CASE TaskStartRun(t)
  <2> DEFINE i == task[t].issue
             r == [task[t] EXCEPT !.pc = "agent", !.seen = queued[i]]
  <2>1. Live(t)
    BY <1>6 DEF TaskStartRun, At, Live
  <2>2. task[t] \in PhaseTask /\ queued[i] \in SUBSET Msgs
    BY <2>1 DEF TypeInv, TasksOK, RowsOK
  <2>3. r \in PhaseTask /\ r.pc # "idle" /\ r.issue = i
    BY <2>2 DEF PhaseTask, TaskPC
  <2> QED
    BY <1>6, <2>1, <2>3, GotoMoves DEF TaskStartRun, Moved, TypeInv, TaskPC
<1>7. CASE TaskPrepareFails(t)
  BY <1>7, GotoMoves, ForgetMoves DEF TaskPrepareFails, At, Live, TypeInv, TaskPC
<1>8. CASE TaskAgentEnds(t)
  <2>1. Live(t)
    BY <1>8 DEF TaskAgentEnds, At, Live
  <2>2. ASSUME NEW s \in Status
        PROVE  LET r == [task[t] EXCEPT !.pc = "dispatch", !.target = s]
               IN  /\ r \in PhaseTask
                   /\ r.pc # "idle" /\ r.issue = task[t].issue
    BY DEF TypeInv, TasksOK, PhaseTask, TaskPC
  <2> QED
    BY <1>8, <2>1, <2>2, GotoMoves DEF TaskAgentEnds, Moved, TypeInv, TaskPC
<1>9. CASE TaskDispatch(t)
  BY <1>9, GotoMoves, ForgetMoves DEF TaskDispatch, At, Live, TypeInv, TaskPC
<1>10. CASE TaskApplyMerge(t)
  <2>1. Live(t)
    BY <1>10 DEF TaskApplyMerge, At, Live
  <2>2. ASSUME NEW s \in {"DONE", "CONFLICT_BLOCKED"}
        PROVE  LET r == [task[t] EXCEPT !.pc = "applied", !.target = s]
               IN  /\ r \in PhaseTask
                   /\ r.pc # "idle" /\ r.issue = task[t].issue
    BY DEF TypeInv, TasksOK, PhaseTask, TaskPC, Status, HumanGated, Terminal
  <2> QED
    BY <1>10, <2>1, <2>2, GotoMoves DEF TaskApplyMerge, Moved, TypeInv, TaskPC
<1>11. CASE TaskApplied(t)
  BY <1>11, GotoMoves, ForgetMoves DEF TaskApplied, At, Live, TypeInv, TaskPC
<1>12. CASE TaskWrite(t)
  BY <1>12, GotoMoves, ForgetMoves DEF TaskWrite, At, Live, TypeInv, TaskPC
<1>13. CASE TaskReload(t)
  BY <1>13, GotoMoves, ForgetMoves DEF TaskReload, At, Live, TypeInv, TaskPC
<1>14. CASE TaskUnchanged(t)
  BY <1>14, GotoMoves, ForgetMoves DEF TaskUnchanged, At, Live, TypeInv, TaskPC
<1>15. CASE TaskConsume(t)
  BY <1>15, GotoMoves, ForgetMoves DEF TaskConsume, At, Live, TypeInv, TaskPC
<1>16. CASE TaskRework(t)
  BY <1>16, GotoMoves, ForgetMoves DEF TaskRework, At, Live, TypeInv, TaskPC
<1>17. CASE TaskReworkCheck(t)
  BY <1>17, GotoMoves, ForgetMoves DEF TaskReworkCheck, At, Live, TypeInv, TaskPC
<1>18. CASE TaskReworkWrite(t)
  BY <1>18, GotoMoves, ForgetMoves DEF TaskReworkWrite, At, Live, TypeInv, TaskPC
<1>19. CASE TaskFailCheck(t)
  BY <1>19, GotoMoves, ForgetMoves DEF TaskFailCheck, At, Live, TypeInv, TaskPC
<1>20. CASE TaskFailWrite(t)
  BY <1>20, GotoMoves, ForgetMoves DEF TaskFailWrite, At, Live, TypeInv, TaskPC
<1>21. CASE TaskFinish(t)
  BY <1>21, GotoMoves, ForgetMoves DEF TaskFinish, At, Live, TypeInv, TaskPC
<1> QED
  BY <1>1, <1>2, <1>3, <1>4, <1>5, <1>6, <1>7, <1>8, <1>9, <1>10, <1>11,
     <1>12, <1>13, <1>14, <1>15, <1>16, <1>17, <1>18, <1>19, <1>20, <1>21
  DEF TaskStep

LEMMA MovedTyped ==
  ASSUME TasksOK, NEW t \in Tasks, Live(t), Moved(t)
  PROVE  TasksOK'
  BY DEF TasksOK, Moved, Become, Live

LEMMA TaskTypeInv ==
  ASSUME TypeInv, NEW t \in Tasks, TaskStep(t)
  PROVE  TypeInv'
<1>1. TasksOK'
  <2>1. CASE TaskExit(t)
    BY <2>1 DEF TaskExit, Become, IdleTask, TypeInv, TasksOK, PhaseTask, Live,
                TaskPC, Status, Actionable, Terminal
  <2>2. CASE ~TaskExit(t)
    BY <2>2, TaskStepMoves, MovedTyped DEF TypeInv
  <2> QED
    BY <2>1, <2>2
<1>2. task[t].issue \in Issues /\ task[t] \in PhaseTask
  BY TaskStepMoves DEF TypeInv, TasksOK, TaskExit, At, Live
<1>3. HandlersOK' /\ RestOK'

  <2>1. CASE TaskBegin(t)
    BY <2>1 DEF TaskBegin, TypeInv, HandlersOK, RestOK, envVars
  <2>2. CASE TaskEnterPlanning(t)
    BY <2>2 DEF TaskEnterPlanning, TypeInv, HandlersOK, RestOK, envVars
  <2>3. CASE TaskCreateTree(t)
    BY <2>3 DEF TaskCreateTree, TypeInv, HandlersOK, RestOK, envVars
  <2>4. CASE TaskRecordTree(t)
    BY <2>4 DEF TaskRecordTree, TypeInv, HandlersOK, RestOK, envVars
  <2>5. CASE TaskSetupFailed(t)
    BY <2>5 DEF TaskSetupFailed, TypeInv, HandlersOK, RestOK, envVars
  <2>6. CASE TaskStartRun(t)
    BY <2>6 DEF TaskStartRun, TypeInv, HandlersOK, RestOK, envVars
  <2>7. CASE TaskPrepareFails(t)
    BY <2>7 DEF TaskPrepareFails, TypeInv, HandlersOK, RestOK, envVars
  <2>8. CASE TaskAgentEnds(t)
    BY <2>8 DEF TaskAgentEnds, TypeInv, HandlersOK, RestOK, envVars
  <2>9. CASE TaskDispatch(t)
    BY <2>9 DEF TaskDispatch, TypeInv, HandlersOK, RestOK, envVars
  <2>10. CASE TaskApplyMerge(t)
    BY <2>10 DEF TaskApplyMerge, TypeInv, HandlersOK, RestOK, envVars
  <2>11. CASE TaskApplied(t)
    BY <2>11 DEF TaskApplied, TypeInv, HandlersOK, RestOK, envVars
  <2>12. CASE TaskWrite(t)
    BY <2>12 DEF TaskWrite, TypeInv, HandlersOK, RestOK, envVars
  <2>13. CASE TaskReload(t)
    BY <2>13 DEF TaskReload, TypeInv, HandlersOK, RestOK, envVars
  <2>14. CASE TaskUnchanged(t)
    BY <2>14 DEF TaskUnchanged, TypeInv, HandlersOK, RestOK, envVars
  <2>15. CASE TaskConsume(t)
    BY <2>15 DEF TaskConsume, TypeInv, HandlersOK, RestOK, envVars
  <2>16. CASE TaskRework(t)
    BY <2>16 DEF TaskRework, TypeInv, HandlersOK, RestOK, envVars
  <2>17. CASE TaskReworkCheck(t)
    BY <2>17 DEF TaskReworkCheck, TypeInv, HandlersOK, RestOK, envVars
  <2>18. CASE TaskReworkWrite(t)
    BY <2>18 DEF TaskReworkWrite, TypeInv, HandlersOK, RestOK, envVars
  <2>19. CASE TaskFailCheck(t)
    BY <2>19 DEF TaskFailCheck, TypeInv, HandlersOK, RestOK, envVars
  <2>20. CASE TaskFailWrite(t)
    BY <2>20 DEF TaskFailWrite, TypeInv, HandlersOK, RestOK, envVars
  <2>21. CASE TaskFinish(t)
    BY <2>21 DEF TaskFinish, TypeInv, HandlersOK, RestOK, envVars
  <2>22. CASE TaskExit(t)
    BY <2>22 DEF TaskExit, TypeInv, HandlersOK, RestOK, envVars
  <2> QED
    BY <2>1, <2>2, <2>3, <2>4, <2>5, <2>6, <2>7, <2>8, <2>9, <2>10, <2>11,
       <2>12, <2>13, <2>14, <2>15, <2>16, <2>17, <2>18, <2>19, <2>20, <2>21,
       <2>22
    DEF TaskStep
<1>4. RowsOK'
  <2> USE <1>2 DEF TypeInv, RowsOK, dbVars
  <2>1. CASE TaskBegin(t)
    BY <2>1 DEF TaskBegin
  <2>2. CASE TaskEnterPlanning(t)
    BY <2>2 DEF TaskEnterPlanning, SetStatus, Status, Actionable
  <2>3. CASE TaskCreateTree(t)
    BY <2>3 DEF TaskCreateTree, CreateTree
  <2>4. CASE TaskRecordTree(t)
    BY <2>4 DEF TaskRecordTree, RemoveTree
  <2>5. CASE TaskSetupFailed(t)
    BY <2>5 DEF TaskSetupFailed, PhaseTask
  <2>6. CASE TaskStartRun(t)
    BY <2>6 DEF TaskStartRun, RunRow, PhaseTask
  <2>7. CASE TaskPrepareFails(t)
    BY <2>7 DEF TaskPrepareFails
  <2>8. CASE TaskAgentEnds(t)
    BY <2>8 DEF TaskAgentEnds
  <2>9. CASE TaskDispatch(t)
    BY <2>9 DEF TaskDispatch
  <2>10. CASE TaskApplyMerge(t)
    BY <2>10 DEF TaskApplyMerge
  <2>11. CASE TaskApplied(t)
    BY <2>11 DEF TaskApplied
  <2>12. CASE TaskWrite(t)
    BY <2>12 DEF TaskWrite, SetStatus, PhaseTask
  <2>13. CASE TaskReload(t)
    BY <2>13 DEF TaskReload
  <2>14. CASE TaskUnchanged(t)
    BY <2>14 DEF TaskUnchanged, SetStatus, Status, Terminal
  <2>15. CASE TaskConsume(t)
    BY <2>15 DEF TaskConsume
  <2>16. CASE TaskRework(t)
    BY <2>16 DEF TaskRework
  <2>17. CASE TaskReworkCheck(t)
    BY <2>17 DEF TaskReworkCheck
  <2>18. CASE TaskReworkWrite(t)
    BY <2>18 DEF TaskReworkWrite, SetStatus, Status, Actionable
  <2>19. CASE TaskFailCheck(t)
    BY <2>19 DEF TaskFailCheck
  <2>20. CASE TaskFailWrite(t)
    BY <2>20 DEF TaskFailWrite, SetStatus, Status, Terminal
  <2>21. CASE TaskFinish(t)
    BY <2>21 DEF TaskFinish, RunRow
  <2>22. CASE TaskExit(t)
    BY <2>22 DEF TaskExit
  <2> QED
    BY <2>1, <2>2, <2>3, <2>4, <2>5, <2>6, <2>7, <2>8, <2>9, <2>10, <2>11,
       <2>12, <2>13, <2>14, <2>15, <2>16, <2>17, <2>18, <2>19, <2>20, <2>21,
       <2>22
    DEF TaskStep
<1> QED
  BY <1>1, <1>3, <1>4 DEF TypeInv

-----------------------------------------------------------------------------
(* Handlers, the tick, crash and recovery: types                           *)

LEMMA TurnTyped ==
  ASSUME HandlersOK, NEW a \in Actors, NEW h \in Handler,
         h.pc \notin {"idle", "prune", "decide"} => h.issue \in Issues,
         h.pc = "insert" => h.msg \in Msgs,
         Turn(a, h)
  PROVE  HandlersOK'
  BY DEF HandlersOK, Turn

LEMMA DoneTyped ==
  ASSUME HandlersOK, NEW a \in Actors, Done(a)
  PROVE  HandlersOK'
<1>1. IdleActor \in Handler /\ IdleActor.pc = "idle"
  BY DEF IdleActor, Handler, ActorPC, AllOpKinds, Status, Terminal
<1> QED
  BY <1>1, TurnTyped DEF Done

LEMMA MoveTyped ==
  ASSUME HandlersOK, NEW a \in Actors, NEW q \in ActorPC \ {"insert"},
         act[a].pc \notin {"idle", "prune", "decide"}, Move(a, q)
  PROVE  HandlersOK'
<1> DEFINE h == [act[a] EXCEPT !.pc = q]
<1>1. h \in Handler /\ h.issue \in Issues /\ h.pc = q
  BY DEF HandlersOK, Handler
<1> QED
  BY <1>1, TurnTyped DEF Move

LEMMA EnterTyped ==
  ASSUME HandlersOK, NEW a \in Actors, NEW k \in AllOpKinds \cup {"none"},
         NEW i \in Issues, NEW q \in ActorPC \ {"insert"}, NEW s \in Status,
         Enter(a, k, i, q, s)
  PROVE  HandlersOK'
<1> DEFINE h == [IdleActor EXCEPT !.pc = q, !.kind = k, !.issue = i, !.to = s]
<1>1. h \in Handler /\ h.issue \in Issues /\ h.pc = q
  BY DEF IdleActor, Handler
<1> QED
  BY <1>1, TurnTyped DEF Enter

\* A command only enters a handler.
LEMMA CommandTypeInv ==
  ASSUME TypeInv, NEW o \in Ops, Command(o)
  PROVE  TypeInv'
<1> USE DEF TypeInv
<1>1. HandlersOK'
  <2> USE DEF Actors, ActorPC, AllOpKinds
  <2>1. ASSUME NEW i \in Issues, Retry(o, i) PROVE HandlersOK'
    BY <2>1, EnterTyped DEF Retry, RowsOK
  <2>2. ASSUME NEW i \in Issues, Approve(o, i) PROVE HandlersOK'
    BY <2>2, EnterTyped DEF Approve, Status, Actionable
  <2>3. ASSUME NEW i \in Issues, SetIssueStatus(o, i) PROVE HandlersOK'
    BY <2>3, EnterTyped, PipelineAssumption DEF SetIssueStatus
  <2>4. ASSUME NEW i \in Issues, Abandon(o, i) PROVE HandlersOK'
    BY <2>4, EnterTyped DEF Abandon, Status, Terminal
  <2>5. ASSUME NEW i \in Issues, Cleanup(o, i) PROVE HandlersOK'
    BY <2>5, EnterTyped DEF Cleanup, Status, Terminal
  <2>6. ASSUME NEW i \in Issues, RemoveIssue(o, i) PROVE HandlersOK'
    BY <2>6, EnterTyped DEF RemoveIssue, Status, Terminal
  <2>7. ASSUME NEW i \in Issues, AddSteering(o, i) PROVE HandlersOK'
    <3>1. PICK m \in Msgs :
            Turn(o, [IdleActor EXCEPT !.pc = "insert", !.kind = "steer",
                                      !.issue = i, !.msg = m])
      BY <2>7 DEF AddSteering
    <3> DEFINE h == [IdleActor EXCEPT !.pc = "insert", !.kind = "steer",
                                      !.issue = i, !.msg = m]
    <3>2. h \in Handler /\ h.issue \in Issues /\ h.msg \in Msgs
      BY DEF IdleActor, Handler, Status, Terminal
    <3> QED
      BY <3>1, <3>2, TurnTyped
  <2>8. CASE Prune(o)
    <3> DEFINE h == [IdleActor EXCEPT !.pc = "prune", !.kind = "prune",
                                      !.known = {i \in Issues : wtRow[i]}]
    <3>1. h \in Handler /\ h.pc = "prune"
      BY DEF IdleActor, Handler, Status, Terminal
    <3> QED
      BY <2>8, <3>1, TurnTyped DEF Prune, Recorded
  <2> QED
    BY <2>1, <2>2, <2>3, <2>4, <2>5, <2>6, <2>7, <2>8 DEF Command
<1>2. UNCHANGED <<dbVars, wtDisk, running, task, todo, envVars>>
  BY DEF Command, Retry, Approve, SetIssueStatus, Abandon, Cleanup,
         RemoveIssue, AddSteering, Prune
<1> QED
  BY <1>1, <1>2 DEF TasksOK, RowsOK, RestOK, dbVars, envVars, Live

\* Reserving the slot of an issue starts one task for it.
LEMMA SpawnTyped ==
  ASSUME TypeInv, NEW t \in Tasks, NEW i \in Issues, Spawn(t, i)
  PROVE  TasksOK' /\ running' \subseteq Issues
<1> DEFINE r == [IdleTask EXCEPT !.pc = "begin", !.issue = i]
<1>1. r \in PhaseTask /\ r.issue = i
  BY DEF IdleTask, PhaseTask, TaskPC, Status, Actionable, Terminal
<1>2. CASE i \in running
  BY <1>2 DEF Spawn, TypeInv, TasksOK, RestOK, Live
<1>3. CASE i \notin running
  BY <1>1, <1>3 DEF Spawn, Become, TypeInv, TasksOK, RestOK, Live
<1> QED
  BY <1>2, <1>3

LEMMA ContinueTypeInv ==
  ASSUME TypeInv, NEW a \in Actors, Continue(a)
  PROVE  TypeInv'
<1> USE DEF TypeInv
<1>0. act[a] \in Handler
  BY DEF HandlersOK
<1>1. CASE ActorWrite(a)
  <2>1. HandlersOK'
    BY <1>1, MoveTyped, DoneTyped DEF ActorWrite, AtA, ActorPC
  <2>2. RowsOK'
    BY <1>0, <1>1 DEF ActorWrite, SetStatus, RowsOK, Handler
  <2> QED
    BY <1>1, <2>1, <2>2 DEF ActorWrite, TasksOK, RestOK, Live, envVars
<1>2. CASE Teardown(a)
  <2>1. HandlersOK'
    BY <1>2, MoveTyped, DoneTyped DEF Teardown, AtA, ActorPC
  <2> QED
    BY <1>2, <2>1 DEF Teardown, RemoveTree, RowsOK, TasksOK, RestOK, Live, dbVars, envVars
<1>3. CASE ClearWorktree(a)
  <2>1. HandlersOK'
    BY <1>3, MoveTyped, DoneTyped DEF ClearWorktree, AtA, ActorPC
  <2> QED
    BY <1>3, <2>1 DEF ClearWorktree, RowsOK, TasksOK, RestOK, Live, envVars
<1>4. CASE AbandonCheck(a)
  <2>1. HandlersOK'
    BY <1>4, MoveTyped, DoneTyped DEF AbandonCheck, AtA, ActorPC
  <2> QED
    BY <1>4, <2>1 DEF AbandonCheck, RowsOK, TasksOK, RestOK, Live, dbVars,
                      envVars
<1>5. CASE DeleteIssue(a)
  <2>1. HandlersOK'
    BY <1>5, DoneTyped DEF DeleteIssue
  <2> QED
    BY <1>5, <2>1 DEF DeleteIssue, SetStatus, RowsOK, TasksOK, RestOK, Live,
                      envVars
<1>6. CASE InsertSteering(a)
  <2>1. HandlersOK'
    BY <1>6, DoneTyped DEF InsertSteering
  <2>2. RowsOK'
    BY <1>6 DEF InsertSteering, AtA, RowsOK, HandlersOK
  <2> QED
    BY <1>6, <2>1, <2>2 DEF InsertSteering, RowsOK, TasksOK, RestOK, Live,
                            envVars
<1>7. CASE PruneOrphans(a)
  <2>1. HandlersOK'
    BY <1>7, DoneTyped DEF PruneOrphans
  <2> QED
    BY <1>7, <2>1 DEF PruneOrphans, RowsOK, TasksOK, RestOK, Live, dbVars,
                      envVars
<1>8. ASSUME NEW t \in Tasks, RetryRun(a, t) PROVE TypeInv'
  <2>1. HandlersOK'
    BY <1>8, DoneTyped DEF RetryRun
  <2>2. act[a].issue \in Issues
    BY <1>8 DEF RetryRun, AtA, HandlersOK
  <2>3. TasksOK' /\ running' \subseteq Issues
    BY <1>8, <2>2, SpawnTyped DEF RetryRun, TasksOK, RestOK, Live
  <2> QED
    BY <1>8, <2>1, <2>3 DEF RetryRun, RowsOK, RestOK, dbVars, envVars
<1> QED
  BY <1>1, <1>2, <1>3, <1>4, <1>5, <1>6, <1>7, <1>8 DEF Continue


LEMMA TickTypeInv ==
  ASSUME TypeInv, TickStep
  PROVE  TypeInv'
<1> USE DEF TypeInv
<1>0. Tick \in Actors
  BY DEF Actors
<1>1. CASE TickSnapshot
  <2> DEFINE h == [IdleActor EXCEPT !.pc = "decide", !.known = running]
  <2>1. h \in Handler /\ h.pc = "decide"
    BY DEF RestOK, IdleActor, Handler, ActorPC, Status, Terminal
  <2>2. HandlersOK'
    BY <1>0, <1>1, <2>1, TurnTyped DEF TickSnapshot
  <2> QED
    BY <1>1, <2>2 DEF TickSnapshot, TasksOK, RowsOK, RestOK, Live, dbVars,
                      envVars
<1>2. CASE TickDecide
  <2>1. HandlersOK'
    BY <1>0, <1>2, DoneTyped DEF TickDecide
  <2>2. RestOK'
    BY <1>2 DEF TickDecide, Decision, RestOK, envVars
  <2> QED
    BY <1>2, <2>1, <2>2 DEF TickDecide, TasksOK, RowsOK, Live, dbVars
<1>3. ASSUME NEW i \in Issues, TickGate(i) PROVE TypeInv'
  <2>1. HandlersOK'
    <3>1. CASE UNCHANGED act
      BY <3>1 DEF HandlersOK
    <3>2. CASE ~UNCHANGED act
      BY <1>0, <1>3, <3>2, EnterTyped
         DEF TickGate, ActorPC, Status, Actionable
    <3> QED
      BY <3>1, <3>2
  <2> QED
    BY <1>3, <2>1 DEF TickGate, Took, TasksOK, RowsOK, RestOK, Live, dbVars,
                      envVars
<1>4. ASSUME NEW i \in Issues, TickTeardown(i) PROVE TypeInv'
  <2>1. HandlersOK'
    <3>1. CASE UNCHANGED act
      BY <3>1 DEF HandlersOK
    <3>2. CASE ~UNCHANGED act
      BY <1>0, <1>4, <3>2, EnterTyped
         DEF TickTeardown, ActorPC, AllOpKinds, Status, Terminal
    <3> QED
      BY <3>1, <3>2
  <2> QED
    BY <1>4, <2>1 DEF TickTeardown, Took, TasksOK, RowsOK, RestOK, Live,
                      dbVars, envVars
<1>5. ASSUME NEW i \in Issues, NEW t \in Tasks, TickSpawn(t, i)
      PROVE  TypeInv'
  <2>1. TasksOK' /\ running' \subseteq Issues
    BY <1>5, SpawnTyped DEF TickSpawn
  <2> QED
    BY <1>5, <2>1 DEF TickSpawn, Took, HandlersOK, RowsOK, RestOK, dbVars,
                      envVars
<1> QED
  BY <1>1, <1>2, <1>3, <1>4, <1>5 DEF TickStep

LEMMA RunNowTypeInv ==
  ASSUME TypeInv, NEW t \in Tasks, NEW i \in Issues, RunNow(t, i)
  PROVE  TypeInv'
<1>1. TasksOK' /\ running' \subseteq Issues
  BY SpawnTyped DEF RunNow
<1> QED
  BY <1>1 DEF RunNow, TypeInv, HandlersOK, RowsOK, RestOK, dbVars, envVars

LEMMA ConsumeSteeringTypeInv ==
  ASSUME TypeInv, NEW i \in Issues, ConsumeSteering(i)
  PROVE  TypeInv'
  BY DEF ConsumeSteering, TypeInv, TasksOK, HandlersOK, RowsOK, RestOK, Live,
         memVars, envVars

LEMMA CrashTypeInv ==
  ASSUME TypeInv, Crash
  PROVE  TypeInv'
<1> USE DEF TypeInv, Crash
<1>1. IdleTask \in PhaseTask /\ IdleTask.pc = "idle"
  BY DEF IdleTask, PhaseTask, TaskPC, Status, Actionable, Terminal
<1>2. IdleActor \in Handler /\ IdleActor.pc = "idle"
  BY DEF IdleActor, Handler, ActorPC, AllOpKinds, Status, Terminal
<1>3. TasksOK'
  BY <1>1 DEF TasksOK, Live
<1>4. HandlersOK'
  BY <1>2 DEF HandlersOK, AtA
<1>5. RowsOK' /\ RestOK'
  BY PipelineAssumption DEF RowsOK, RestOK, dbVars
<1> QED
  BY <1>3, <1>4, <1>5

LEMMA RecoveryTypeInv ==
  ASSUME TypeInv, Restart \/ RecoverRun \/ Recovered \/ UNCHANGED vars
  PROVE  TypeInv'
<1> USE DEF TypeInv, TasksOK, HandlersOK, RowsOK, RestOK, Live, memVars, envVars
<1>1. CASE Restart
  BY <1>1 DEF Restart, dbVars
<1>2. CASE RecoverRun
  BY <1>2 DEF RecoverRun, Status, Terminal
<1>3. CASE Recovered
  BY <1>3 DEF Recovered, dbVars
<1>4. CASE UNCHANGED vars
  BY <1>4 DEF vars, dbVars
<1> QED
  BY <1>1, <1>2, <1>3, <1>4

LEMMA TypeInvNext == TypeInv /\ [Next]_vars => TypeInv'
  BY TaskTypeInv, CommandTypeInv, ContinueTypeInv, TickTypeInv, RunNowTypeInv,
     ConsumeSteeringTypeInv, CrashTypeInv, RecoveryTypeInv
  DEF Next

LEMMA TypeInvAlways == Spec => []TypeInv
  BY TypeInvInit, TypeInvNext, PTL DEF Spec

\* TypeOK: every variable keeps its type, on every path through the phase
\* tasks, the handlers, the tick and recovery.
THEOREM TypeCorrect == Spec => []TypeOK
<1>1. TypeInv => TypeOK
  BY DEF TypeInv, TasksOK, HandlersOK, RowsOK, RestOK, TypeOK
<1> QED
  BY <1>1, TypeInvAlways, PTL

-----------------------------------------------------------------------------
(* One phase task per issue                                                *)

LEMMA MovedKeepsSlots ==
  ASSUME TasksOK, OnePhasePerIssue, NEW t \in Tasks,
         Live(t), Moved(t), running' = running
  PROVE  OnePhasePerIssue'
<1>1. \A u \in Tasks : (Live(u)' <=> Live(u)) /\ task'[u].issue = task[u].issue
  BY DEF TasksOK, Moved, Become, Live
<1> QED
  BY <1>1 DEF OnePhasePerIssue

\* The slot that TaskExit gives back is nobody else's.
LEMMA ExitFreesSlot ==
  ASSUME TasksOK, OnePhasePerIssue, NEW t \in Tasks, TaskExit(t)
  PROVE  OnePhasePerIssue'
<1>1. /\ Live(t) /\ ~Live(t)'
      /\ \A u \in Tasks \ {t} : task'[u] = task[u] /\ (Live(u)' <=> Live(u))
  BY DEF TaskExit, At, Live, Become, TasksOK, IdleTask
<1>2. running' = running \ {task[t].issue}
  BY DEF TaskExit
<1>3. \A u \in Tasks \ {t} : Live(u) => task[u].issue # task[t].issue
  BY <1>1 DEF OnePhasePerIssue
<1> QED
  BY <1>1, <1>2, <1>3 DEF OnePhasePerIssue

\* spawn_phase checks and reserves in one critical section.
LEMMA SpawnTakesFreeSlot ==
  ASSUME TasksOK, OnePhasePerIssue, NEW t \in Tasks, NEW i \in Issues,
         Spawn(t, i)
  PROVE  OnePhasePerIssue'
<1>1. CASE i \in running
  BY <1>1 DEF Spawn, OnePhasePerIssue, Live
<1>2. CASE i \notin running
  <2>1. /\ ~Live(t) /\ Live(t)' /\ task'[t].issue = i
        /\ running' = running \cup {i}
        /\ \A u \in Tasks \ {t} :
             task'[u] = task[u] /\ (Live(u)' <=> Live(u))
    BY <1>2 DEF Spawn, Live, Become, TasksOK, IdleTask
  <2>2. \A u \in Tasks : Live(u) => task[u].issue # i
    BY <1>2 DEF OnePhasePerIssue
  <2> QED
    BY <2>1, <2>2 DEF OnePhasePerIssue
<1> QED
  BY <1>1, <1>2

LEMMA OnePhaseNext ==
  ASSUME TypeInv, OnePhasePerIssue, [Next]_vars
  PROVE  OnePhasePerIssue'
<1>1. ASSUME NEW t \in Tasks, TaskStep(t) PROVE OnePhasePerIssue'
  BY <1>1, TaskStepMoves, MovedKeepsSlots, ExitFreesSlot DEF TypeInv
<1>2. ASSUME NEW t \in Tasks, NEW i \in Issues,
             RunNow(t, i) \/ TickSpawn(t, i)
      PROVE  OnePhasePerIssue'
  BY <1>2, SpawnTakesFreeSlot DEF RunNow, TickSpawn, TypeInv
<1>3. ASSUME NEW a \in Actors, NEW t \in Tasks, RetryRun(a, t)
      PROVE  OnePhasePerIssue'
  <2>1. act[a].issue \in Issues
    BY <1>3 DEF RetryRun, AtA, TypeInv, HandlersOK
  <2>2. Spawn(t, act[a].issue) \/ UNCHANGED <<running, task>>
    BY <1>3 DEF RetryRun
  <2> QED
    BY <2>1, <2>2, SpawnTakesFreeSlot DEF TypeInv, OnePhasePerIssue, Live
<1>4. CASE Crash
  BY <1>4 DEF Crash, OnePhasePerIssue, Live, IdleTask
<1>5. CASE UNCHANGED <<running, task>>
  BY <1>5 DEF OnePhasePerIssue, Live
<1>6. ASSUME NEW o \in Ops, Command(o) PROVE UNCHANGED <<running, task>>
  BY <1>6 DEF Command, Retry, Approve, SetIssueStatus, Abandon, Cleanup,
              RemoveIssue, AddSteering, Prune
<1>7. ASSUME NEW a \in Actors, Continue(a), \A t \in Tasks : ~RetryRun(a, t)
      PROVE  UNCHANGED <<running, task>>
  BY <1>7 DEF Continue, ActorWrite, Teardown, ClearWorktree, AbandonCheck,
              DeleteIssue, InsertSteering, PruneOrphans
<1>8. ASSUME TickStep, \A t \in Tasks, i \in Issues : ~TickSpawn(t, i)
      PROVE  UNCHANGED <<running, task>>
  BY <1>8 DEF TickStep, TickSnapshot, TickDecide, TickGate, TickTeardown
<1>9. ASSUME \/ \E i \in Issues : ConsumeSteering(i)
             \/ Restart \/ RecoverRun \/ Recovered \/ UNCHANGED vars
      PROVE  UNCHANGED <<running, task>>
  BY <1>9 DEF ConsumeSteering, Restart, RecoverRun, Recovered, vars, memVars
<1> QED
  BY <1>1, <1>2, <1>3, <1>4, <1>5, <1>6, <1>7, <1>8, <1>9 DEF Next

\* OnePhasePerIssue: however run-now, retry, approval, tick and crash
\* interleave, an issue has at most one phase task, and the running set is
\* exactly the set of issues that have one.
THEOREM OnePhase == Spec => []OnePhasePerIssue
<1>1. Init => OnePhasePerIssue
  BY DEF Init, OnePhasePerIssue, Live, IdleTask
<1> QED
  BY <1>1, OnePhaseNext, TypeInvAlways, PTL DEF Spec

-----------------------------------------------------------------------------
(* The run row of a live phase                                             *)

\* While the daemon is down or recovering nothing is in progress.
DownIdle ==
  daemon # "up" =>
    /\ \A t \in Tasks : ~Live(t)
    /\ \A a \in Actors : act[a].pc \in {"idle", "prune"}
    /\ \A i \in Issues : todo[i] = "none"

\* Every step but the deletion of an issue keeps the set of issues, and adds
\* nothing to an issue that is gone.
RowsKept ==
  \A i \in Issues :
    /\ Exists(i)' <=> Exists(i)
    /\ ~Exists(i) => /\ wtRow'[i] => wtRow[i]
                     /\ queued'[i] \subseteq queued[i]
                     /\ \A r \in openRuns' : r.issue = i => r \in openRuns

\* Task t keeps the run row it has, or opens it.
KeepsRun(t) ==
  /\ \A u \in Tasks \ {t} : task'[u] = task[u]
  /\ task'[t].pc \in InRun =>
       \/ task[t].pc \in InRun /\ RunRow(t)' = RunRow(t)
       \/ RunRow(t)' \in openRuns'
  /\ \A r \in openRuns : r.slot # t \/ task'[t].pc \in InRun => r \in openRuns'

LEMMA StatusesExist == "REMOVED" \notin Status
  BY DEF Status, Actionable, HumanGated, Terminal

LEMMA GotoRow ==
  ASSUME TasksOK, NEW t \in Tasks, NEW q, Goto(t, q)
  PROVE  /\ \A u \in Tasks \ {t} : task'[u] = task[u]
         /\ task'[t].pc = q /\ RunRow(t)' = RunRow(t)
  BY DEF TasksOK, PhaseTask, Goto, Become, RunRow

LEMMA ForgetRow ==
  ASSUME TasksOK, NEW t \in Tasks, NEW q, Forget(t, q)
  PROVE  /\ \A u \in Tasks \ {t} : task'[u] = task[u]
         /\ task'[t].pc = q /\ RunRow(t)' = RunRow(t)
  BY DEF TasksOK, Forget, Become, IdleTask, RunRow

LEMMA TaskKeepsRun ==
  ASSUME TypeInv, NEW t \in Tasks, TaskStep(t)
  PROVE  KeepsRun(t)
<1> USE DEF TypeInv, KeepsRun, InRun, At, dbVars
<1>1. CASE TaskBegin(t)
  <2> DEFINE i == task[t].issue
             q == IF status[i] = "NEW" THEN "enter" ELSE "tree"
             b == IF status[i] = "NEW" THEN "PLANNING" ELSE status[i]
             c == wtRow[i]
             r == [task[t] EXCEPT !.pc = q, !.before = b, !.checkout = c]
  <2>1. CASE Become(t, r)
    <3>1. q \notin InRun
      OBVIOUS
    <3> HIDE DEF q, b, c, InRun
    <3>2. task'[t].pc = q /\ \A u \in Tasks \ {t} : task'[u] = task[u]
      BY <2>1 DEF Become, TasksOK, PhaseTask
    <3> QED
      BY <1>1, <3>1, <3>2 DEF TaskBegin
  <2>2. CASE Goto(t, "exit")
    BY <1>1, <2>2, GotoRow DEF TaskBegin
  <2> QED
    BY <1>1, <2>1, <2>2 DEF TaskBegin
<1>2. CASE TaskEnterPlanning(t)
  BY <1>2, GotoRow DEF TaskEnterPlanning
<1>3. CASE TaskCreateTree(t)
  BY <1>3, GotoRow, ForgetRow DEF TaskCreateTree
<1>4. CASE TaskRecordTree(t)
  BY <1>4, GotoRow DEF TaskRecordTree
<1>5. CASE TaskSetupFailed(t)
  BY <1>5, GotoRow DEF TaskSetupFailed
<1>6. CASE TaskStartRun(t)
  <2> DEFINE i == task[t].issue
             r == [task[t] EXCEPT !.pc = "agent", !.seen = queued[i]]
  <2>1. CASE Exists(i)
    <3>1. Become(t, r) /\ openRuns' = openRuns \cup {RunRow(t)}
      BY <1>6, <2>1 DEF TaskStartRun
    <3>2. RunRow(t)' = RunRow(t) /\ \A u \in Tasks \ {t} : task'[u] = task[u]
      BY <3>1 DEF Become, TasksOK, PhaseTask, RunRow
    <3> QED
      BY <3>1, <3>2
  <2>2. CASE ~Exists(i)
    BY <1>6, <2>2, GotoRow DEF TaskStartRun
  <2> QED
    BY <2>1, <2>2
<1>7. CASE TaskPrepareFails(t)
  BY <1>7, GotoRow DEF TaskPrepareFails
<1>8. CASE TaskAgentEnds(t)
  <2>1. ASSUME NEW s \in Status,
               Become(t, [task[t] EXCEPT !.pc = "dispatch", !.target = s])
        PROVE  /\ RunRow(t)' = RunRow(t)
               /\ \A u \in Tasks \ {t} : task'[u] = task[u]
    BY <2>1 DEF Become, TasksOK, PhaseTask, RunRow
  <2> QED
    BY <1>8, <2>1, GotoRow DEF TaskAgentEnds
<1>9. CASE TaskDispatch(t)
  BY <1>9, GotoRow DEF TaskDispatch
<1>10. CASE TaskApplyMerge(t)
  <2>1. ASSUME NEW s \in {"DONE", "CONFLICT_BLOCKED"},
               Become(t, [task[t] EXCEPT !.pc = "applied", !.target = s])
        PROVE  /\ RunRow(t)' = RunRow(t)
               /\ \A u \in Tasks \ {t} : task'[u] = task[u]
    BY <2>1 DEF Become, TasksOK, PhaseTask, RunRow
  <2> QED
    BY <1>10, <2>1, GotoRow DEF TaskApplyMerge
<1>11. CASE TaskApplied(t)
  BY <1>11, GotoRow DEF TaskApplied
<1>12. CASE TaskWrite(t)
  BY <1>12, GotoRow DEF TaskWrite
<1>13. CASE TaskReload(t)
  BY <1>13, GotoRow DEF TaskReload
<1>14. CASE TaskUnchanged(t)
  BY <1>14, GotoRow DEF TaskUnchanged
<1>15. CASE TaskConsume(t)
  BY <1>15, GotoRow, ForgetRow DEF TaskConsume
<1>16. CASE TaskRework(t)
  BY <1>16, GotoRow DEF TaskRework
<1>17. CASE TaskReworkCheck(t)
  BY <1>17, GotoRow DEF TaskReworkCheck
<1>18. CASE TaskReworkWrite(t)
  BY <1>18, GotoRow DEF TaskReworkWrite
<1>19. CASE TaskFailCheck(t)
  BY <1>19, GotoRow DEF TaskFailCheck
<1>20. CASE TaskFailWrite(t)
  BY <1>20, GotoRow DEF TaskFailWrite
<1>21. CASE TaskFinish(t)
  BY <1>21, ForgetRow DEF TaskFinish, RunRow
<1>22. CASE TaskExit(t)
  BY <1>22 DEF TaskExit, Become, IdleTask, TasksOK
<1> QED
  BY <1>1, <1>2, <1>3, <1>4, <1>5, <1>6, <1>7, <1>8, <1>9, <1>10, <1>11,
     <1>12, <1>13, <1>14, <1>15, <1>16, <1>17, <1>18, <1>19, <1>20, <1>21,
     <1>22
  DEF TaskStep

LEMMA TaskKeepsRows ==
  ASSUME TypeInv, NEW t \in Tasks, TaskStep(t)
  PROVE  RowsKept
<1>1. task[t].issue \in Issues /\ task[t] \in PhaseTask
  BY TaskStepMoves DEF TypeInv, TasksOK, TaskExit, At, Live
<1>2. /\ task[t].target # "REMOVED" /\ "PLANNING" # "REMOVED"
      /\ "WORKING" # "REMOVED" /\ "FAILED" # "REMOVED"
  BY <1>1, StatusesExist DEF PhaseTask
<1> USE <1>1, <1>2 DEF TypeInv, RowsOK, RowsKept, Exists, dbVars
<1>3. CASE TaskEnterPlanning(t)
  BY <1>3 DEF TaskEnterPlanning, SetStatus
<1>4. CASE TaskRecordTree(t)
  BY <1>4 DEF TaskRecordTree
<1>5. CASE TaskStartRun(t)
  BY <1>5 DEF TaskStartRun, RunRow
<1>6. CASE TaskWrite(t)
  BY <1>6 DEF TaskWrite, SetStatus
<1>7. CASE TaskUnchanged(t)
  BY <1>7 DEF TaskUnchanged, SetStatus
<1>8. CASE TaskConsume(t)
  BY <1>8 DEF TaskConsume
<1>9. CASE TaskReworkWrite(t)
  BY <1>9 DEF TaskReworkWrite, SetStatus
<1>10. CASE TaskFailWrite(t)
  BY <1>10 DEF TaskFailWrite, SetStatus
<1>11. CASE TaskFinish(t)
  BY <1>11 DEF TaskFinish
<1>12. CASE UNCHANGED <<status, wtRow, queued, openRuns>>
  BY <1>12
<1>13. ASSUME ~TaskEnterPlanning(t), ~TaskRecordTree(t), ~TaskStartRun(t),
              ~TaskWrite(t), ~TaskUnchanged(t), ~TaskConsume(t),
              ~TaskReworkWrite(t), ~TaskFailWrite(t), ~TaskFinish(t)
       PROVE  UNCHANGED <<status, wtRow, queued, openRuns>>
  BY <1>13 DEF TaskStep, TaskBegin, TaskCreateTree, TaskSetupFailed,
               TaskPrepareFails, TaskAgentEnds, TaskDispatch, TaskApplyMerge,
               TaskApplied, TaskReload, TaskRework, TaskReworkCheck,
               TaskFailCheck, TaskExit
<1> QED
  BY <1>3, <1>4, <1>5, <1>6, <1>7, <1>8, <1>9, <1>10, <1>11, <1>12, <1>13

LEMMA ContinueKeepsRows ==
  ASSUME TypeInv, NEW a \in Actors, Continue(a), ~DeleteIssue(a)
  PROVE  RowsKept
<1>1. act[a] \in Handler
  BY DEF TypeInv, HandlersOK
<1>2. act[a].to # "REMOVED"
  BY <1>1, StatusesExist DEF Handler
<1> USE <1>2 DEF TypeInv, RowsOK, RowsKept, Exists, dbVars
<1>3. CASE ActorWrite(a)
  BY <1>3 DEF ActorWrite, SetStatus
<1>4. CASE ClearWorktree(a)
  BY <1>4 DEF ClearWorktree
<1>5. CASE InsertSteering(a)
  BY <1>5 DEF InsertSteering
<1>6. CASE ~ActorWrite(a) /\ ~ClearWorktree(a) /\ ~InsertSteering(a)
  BY <1>6 DEF Continue, Teardown, AbandonCheck, PruneOrphans, RetryRun
<1> QED
  BY <1>3, <1>4, <1>5, <1>6

\* Command, tick, run-now, consumption, crash and recovery.
LEMMA OtherKeepsRows ==
  ASSUME TypeInv,
         \/ \E o \in Ops : Command(o)
         \/ \E t \in Tasks, i \in Issues : RunNow(t, i)
         \/ \E i \in Issues : ConsumeSteering(i)
         \/ TickStep \/ Crash \/ Restart \/ RecoverRun \/ Recovered
         \/ UNCHANGED vars
  PROVE  RowsKept
<1> USE DEF TypeInv, RowsOK, RowsKept, Exists, dbVars
<1>1. CASE RecoverRun
  BY <1>1 DEF RecoverRun, Actionable
<1>2. ASSUME NEW i \in Issues, ConsumeSteering(i) PROVE RowsKept
  BY <1>2 DEF ConsumeSteering
<1>3. CASE UNCHANGED dbVars
  BY <1>3
<1>4. ASSUME NEW o \in Ops, Command(o) PROVE UNCHANGED dbVars
  BY <1>4 DEF Command, Retry, Approve, SetIssueStatus, Abandon, Cleanup,
              RemoveIssue, AddSteering, Prune
<1>5. ASSUME NEW t \in Tasks, NEW i \in Issues, RunNow(t, i)
      PROVE  UNCHANGED dbVars
  BY <1>5 DEF RunNow
<1>6. CASE TickStep
  BY <1>3, <1>6 DEF TickStep, TickSnapshot, TickDecide, TickGate, TickTeardown,
                    TickSpawn
<1>7. CASE Crash \/ Restart \/ Recovered \/ UNCHANGED vars
  BY <1>3, <1>7 DEF Crash, Restart, Recovered, vars
<1> QED
  BY <1>1, <1>2, <1>3, <1>4, <1>5, <1>6, <1>7

LEMMA NextKeepsRows ==
  ASSUME TypeInv, [Next]_vars, \A a \in Actors : ~DeleteIssue(a)
  PROVE  RowsKept
  BY TaskKeepsRows, ContinueKeepsRows, OtherKeepsRows DEF Next

LEMMA RemovedNext ==
  ASSUME TypeInv, RemovedLeavesNothing, [Next]_vars
  PROVE  RemovedLeavesNothing'
<1>1. ASSUME NEW a \in Actors, DeleteIssue(a) PROVE RemovedLeavesNothing'
  BY <1>1 DEF DeleteIssue, AtA, SetStatus, TypeInv, RowsOK, HandlersOK, Exists,
              RemovedLeavesNothing
<1>2. CASE RowsKept
  BY <1>2 DEF RowsKept, RemovedLeavesNothing, Exists
<1> QED
  BY <1>1, <1>2, NextKeepsRows

\* RemovedLeavesNothing: once issues::remove has deleted an issue and its
\* cascade, no task or handler still in progress brings back its worktree,
\* its messages or its runs.
THEOREM RemovalFinal == Spec => []RemovedLeavesNothing
<1>1. Init => RemovedLeavesNothing
  BY DEF Init, RemovedLeavesNothing, Exists
<1> QED
  BY <1>1, RemovedNext, TypeInvAlways, PTL DEF Spec

-----------------------------------------------------------------------------
(* Recovery has the database for itself                                    *)

LEMMA DownIdleNext ==
  ASSUME TypeInv, DownIdle, [Next]_vars
  PROVE  DownIdle'
<1> USE DEF DownIdle
<1>1. ASSUME NEW t \in Tasks, TaskStep(t) PROVE DownIdle'
  <2>1. Live(t)
    BY <1>1, TaskStepMoves DEF TaskExit, At, Live
  <2>2. daemon = "up" /\ daemon' = daemon
    BY <1>1, <2>1 DEF TaskStep, TaskBegin, TaskEnterPlanning, TaskCreateTree,
         TaskRecordTree, TaskSetupFailed, TaskStartRun, TaskPrepareFails,
         TaskAgentEnds, TaskDispatch, TaskApplyMerge, TaskApplied, TaskWrite,
         TaskReload, TaskUnchanged, TaskConsume, TaskRework, TaskReworkCheck,
         TaskReworkWrite, TaskFailCheck, TaskFailWrite, TaskFinish, TaskExit,
         envVars
  <2> QED
    BY <2>2
<1>2. ASSUME NEW t \in Tasks, NEW i \in Issues, RunNow(t, i) PROVE DownIdle'
  BY <1>2 DEF RunNow, envVars
<1>3. ASSUME NEW o \in Ops, Command(o) PROVE DownIdle'
  <2>1. CASE Prune(o)
    <3>1. task' = task /\ todo' = todo /\ daemon' = daemon
      BY <2>1 DEF Prune, envVars
    <3>2. act'[o].pc = "prune" /\ \A a \in Actors \ {o} : act'[a] = act[a]
      BY <2>1 DEF Prune, Turn, TypeInv, HandlersOK, Actors, IdleActor
    <3> QED
      BY <3>1, <3>2 DEF Live
  <2>2. CASE ~Prune(o)
    BY <1>3, <2>2 DEF Command, Retry, Approve, SetIssueStatus, Abandon,
         Cleanup, RemoveIssue, AddSteering, Accept, envVars
  <2> QED
    BY <2>1, <2>2
<1>4. ASSUME NEW i \in Issues, ConsumeSteering(i) PROVE DownIdle'
  BY <1>4 DEF ConsumeSteering, envVars
<1>5. ASSUME NEW a \in Actors, Continue(a) PROVE DownIdle'
  <2>1. CASE PruneOrphans(a)
    BY <2>1 DEF PruneOrphans, Done, Turn, IdleActor, TypeInv, HandlersOK,
         envVars, Live
  <2>2. CASE ~PruneOrphans(a)
    BY <1>5, <2>2 DEF Continue, ActorWrite, Teardown, ClearWorktree,
         AbandonCheck, DeleteIssue, InsertSteering, RetryRun, AtA, envVars
  <2> QED
    BY <2>1, <2>2
<1>6. CASE TickStep
  <2>1. Tick \in Actors
    BY DEF Actors
  <2> QED
    BY <1>6, <2>1 DEF TickStep, TickSnapshot, TickDecide, TickGate,
         TickTeardown, TickSpawn, AtA, envVars
<1>7. CASE Crash
  BY <1>7 DEF Crash, Live, IdleTask, IdleActor, AtA
<1>8. CASE Restart \/ RecoverRun \/ Recovered \/ UNCHANGED vars
  BY <1>8 DEF Restart, RecoverRun, Recovered, vars, memVars, envVars, Live
<1> QED
  BY <1>1, <1>2, <1>3, <1>4, <1>5, <1>6, <1>7, <1>8 DEF Next

LEMMA OwnRunNext ==
  ASSUME TypeInv, DownIdle, PhaseOwnsOpenRun, [Next]_vars
  PROVE  PhaseOwnsOpenRun'
<1> SUFFICES ASSUME NEW t \in Tasks, task'[t].pc \in InRun,
                    Exists(task[t].issue)'
             PROVE  RunRow(t)' \in openRuns'
  BY DEF PhaseOwnsOpenRun
<1>0. ASSUME task'[t] = task[t], Exists(task[t].issue),
             RunRow(t) \in openRuns => RunRow(t) \in openRuns'
      PROVE  RunRow(t)' \in openRuns'
  BY <1>0 DEF PhaseOwnsOpenRun, RunRow
<1>1. ASSUME NEW u \in Tasks, TaskStep(u) PROVE RunRow(t)' \in openRuns'
  <2>1. KeepsRun(u)
    BY <1>1, TaskKeepsRun
  <2>2. RowsKept
    BY <1>1, TaskKeepsRows
  <2>3. CASE u # t
    <3>1. task'[t] = task[t] /\ RunRow(t).slot # u
      BY <2>1, <2>3 DEF KeepsRun, RunRow
    <3>2. task[t].issue \in Issues
      BY <3>1 DEF TypeInv, TasksOK, InRun, Live
    <3>3. Exists(task[t].issue)
      BY <2>2, <3>1, <3>2 DEF RowsKept, Exists
    <3> QED
      BY <1>0, <2>1, <3>1, <3>3 DEF KeepsRun
  <2>4. CASE u = t
    <3>1. CASE task[t].pc \in InRun /\ RunRow(t)' = RunRow(t)
      <4>1. task'[t].issue = task[t].issue
        BY <3>1 DEF RunRow
      <4>2. task[t].issue \in Issues
        BY <3>1 DEF TypeInv, TasksOK, InRun, Live
      <4>3. Exists(task[t].issue)
        BY <2>2, <4>1, <4>2 DEF RowsKept, Exists
      <4>4. RunRow(t) \in openRuns
        BY <3>1, <4>3 DEF PhaseOwnsOpenRun
      <4> QED
        BY <2>1, <2>4, <3>1, <4>4 DEF KeepsRun
    <3> QED
      BY <2>1, <2>4, <3>1 DEF KeepsRun
  <2> QED
    BY <2>3, <2>4
<1>2. ASSUME NEW a \in Actors, DeleteIssue(a) PROVE RunRow(t)' \in openRuns'
  <2>1. task' = task /\ task[t].issue \in Issues /\ act[a].issue \in Issues
    BY <1>2 DEF DeleteIssue, AtA, TypeInv, TasksOK, HandlersOK, InRun, Live
  <2>2. task[t].issue # act[a].issue /\ Exists(task[t].issue)
    BY <1>2, <2>1 DEF DeleteIssue, SetStatus, Exists, TypeInv, RowsOK
  <2>3. RunRow(t) \in openRuns => RunRow(t) \in openRuns'
    BY <1>2, <2>2 DEF DeleteIssue, RunRow
  <2> QED
    BY <1>0, <2>1, <2>2, <2>3
<1>3. ASSUME NEW u \in Tasks, NEW i \in Issues, Spawn(u, i),
             UNCHANGED <<status, openRuns>>
      PROVE  RunRow(t)' \in openRuns'
  <2>1. task'[t] = task[t]
    BY <1>3 DEF Spawn, Become, IdleTask, InRun, TypeInv, TasksOK
  <2> QED
    BY <1>0, <1>3, <2>1 DEF Exists
<1>4. CASE Crash
  BY <1>4 DEF Crash, IdleTask, InRun
<1>5. CASE RecoverRun
  BY <1>5 DEF RecoverRun, memVars, DownIdle, Live, InRun
<1>6. ASSUME UNCHANGED <<task, openRuns>>, \A a \in Actors : ~DeleteIssue(a)
      PROVE  RunRow(t)' \in openRuns'
  <2>1. task[t].issue \in Issues
    BY <1>6 DEF TypeInv, TasksOK, InRun, Live
  <2>2. Exists(task[t].issue)
    BY <1>6, <2>1, NextKeepsRows DEF RowsKept, Exists
  <2> QED
    BY <1>0, <1>6, <2>2
<1>7. ASSUME NEW a \in Actors, NEW u \in Tasks, RetryRun(a, u)
      PROVE  RunRow(t)' \in openRuns'
  <2>1. act[a].issue \in Issues
    BY <1>7 DEF RetryRun, AtA, TypeInv, HandlersOK
  <2>2. UNCHANGED <<status, openRuns>>
    BY <1>7 DEF RetryRun, dbVars
  <2>3. CASE Spawn(u, act[a].issue)
    BY <1>3, <2>1, <2>2, <2>3
  <2>4. CASE UNCHANGED task
    BY <1>0, <2>2, <2>4 DEF Exists
  <2> QED
    BY <1>7, <2>3, <2>4 DEF RetryRun
<1>8. ASSUME NEW u \in Tasks, NEW i \in Issues, RunNow(u, i) \/ TickSpawn(u, i)
      PROVE  RunRow(t)' \in openRuns'
  BY <1>3, <1>8 DEF RunNow, TickSpawn, dbVars
<1>9. ASSUME NEW o \in Ops, Command(o) PROVE UNCHANGED <<task, dbVars>>
  BY <1>9 DEF Command, Retry, Approve, SetIssueStatus, Abandon, Cleanup,
              RemoveIssue, AddSteering, Prune
<1>10. ASSUME NEW a \in Actors, Continue(a), ~DeleteIssue(a),
              \A u \in Tasks : ~RetryRun(a, u)
       PROVE  UNCHANGED <<task, openRuns>>
  BY <1>10 DEF Continue, ActorWrite, Teardown, ClearWorktree, AbandonCheck,
               InsertSteering, PruneOrphans, dbVars
<1>11. ASSUME TickStep, \A u \in Tasks, i \in Issues : ~TickSpawn(u, i)
       PROVE  UNCHANGED <<task, openRuns>>
  BY <1>11 DEF TickStep, TickSnapshot, TickDecide, TickGate, TickTeardown,
               dbVars
<1>12. ASSUME \/ \E i \in Issues : ConsumeSteering(i)
              \/ Restart \/ Recovered \/ UNCHANGED vars
       PROVE  UNCHANGED <<task, openRuns>>
  BY <1>12 DEF ConsumeSteering, Restart, Recovered, vars, dbVars, memVars
<1>13. CASE \E a \in Actors : DeleteIssue(a)
  BY <1>2, <1>13
<1>14. CASE \A a \in Actors : ~DeleteIssue(a)
  BY <1>1, <1>4, <1>5, <1>6, <1>7, <1>8, <1>9, <1>10, <1>11, <1>12, <1>14
     DEF Next, dbVars
<1> QED
  BY <1>13, <1>14

\* PhaseOwnsOpenRun: while a phase is between agent_runs::start and finish its
\* row stays open; in particular recovery, the only other code that closes
\* runs, never runs while a phase does.
THEOREM RunStaysOpen == Spec => []PhaseOwnsOpenRun
<1>1. Init => DownIdle /\ PhaseOwnsOpenRun
  BY DEF Init, DownIdle, PhaseOwnsOpenRun, IdleTask, InRun
<1>2. TypeInv /\ DownIdle /\ PhaseOwnsOpenRun /\ [Next]_vars
        => (DownIdle /\ PhaseOwnsOpenRun)'
  BY DownIdleNext, OwnRunNext
<1> QED
  BY <1>1, <1>2, TypeInvAlways, PTL DEF Spec

-----------------------------------------------------------------------------
(* The queue of messages                                                   *)

\* The tick never deletes: only a handler of an operator gets that far.
TickKeepsIssues ==
  \/ act[Tick].pc \in {"idle", "decide", "write"}
  \/ act[Tick].pc \in {"teardown", "clear"} /\ act[Tick].kind = "cleanup"

\* A phase task touches neither the handlers nor, but where it consumes its
\* messages, the queue.
LEMMA TaskKeepsQueue ==
  ASSUME NEW t \in Tasks, TaskStep(t)
  PROVE  act' = act /\ (TaskConsume(t) \/ queued' = queued)
<1> USE DEF dbVars
<1>1. CASE TaskBegin(t)
  BY <1>1 DEF TaskBegin
<1>2. CASE TaskEnterPlanning(t)
  BY <1>2 DEF TaskEnterPlanning
<1>3. CASE TaskCreateTree(t)
  BY <1>3 DEF TaskCreateTree
<1>4. CASE TaskRecordTree(t)
  BY <1>4 DEF TaskRecordTree
<1>5. CASE TaskSetupFailed(t)
  BY <1>5 DEF TaskSetupFailed
<1>6. CASE TaskStartRun(t)
  BY <1>6 DEF TaskStartRun
<1>7. CASE TaskPrepareFails(t)
  BY <1>7 DEF TaskPrepareFails
<1>8. CASE TaskAgentEnds(t)
  BY <1>8, Zenon DEF TaskAgentEnds
<1>9. CASE TaskDispatch(t)
  BY <1>9 DEF TaskDispatch
<1>10. CASE TaskApplyMerge(t)
  BY <1>10 DEF TaskApplyMerge
<1>11. CASE TaskApplied(t)
  BY <1>11 DEF TaskApplied
<1>12. CASE TaskWrite(t)
  BY <1>12 DEF TaskWrite
<1>13. CASE TaskReload(t)
  BY <1>13 DEF TaskReload
<1>14. CASE TaskUnchanged(t)
  BY <1>14 DEF TaskUnchanged
<1>15. CASE TaskConsume(t)
  BY <1>15 DEF TaskConsume
<1>16. CASE TaskRework(t)
  BY <1>16 DEF TaskRework
<1>17. CASE TaskReworkCheck(t)
  BY <1>17 DEF TaskReworkCheck
<1>18. CASE TaskReworkWrite(t)
  BY <1>18 DEF TaskReworkWrite
<1>19. CASE TaskFailCheck(t)
  BY <1>19 DEF TaskFailCheck
<1>20. CASE TaskFailWrite(t)
  BY <1>20 DEF TaskFailWrite
<1>21. CASE TaskFinish(t)
  BY <1>21 DEF TaskFinish
<1>22. CASE TaskExit(t)
  BY <1>22 DEF TaskExit
<1> QED
  BY <1>1, <1>2, <1>3, <1>4, <1>5, <1>6, <1>7, <1>8, <1>9, <1>10, <1>11,
     <1>12, <1>13, <1>14, <1>15, <1>16, <1>17, <1>18, <1>19, <1>20, <1>21, <1>22
  DEF TaskStep

LEMMA CommandOnlyEnters ==
  ASSUME NEW o \in Ops, Command(o)
  PROVE  UNCHANGED dbVars /\ \E h : Turn(o, h)
<1>1. CASE Prune(o)
  BY <1>1 DEF Prune
<1> SUFFICES ASSUME NEW i \in Issues,
                    \/ Retry(o, i) \/ Approve(o, i) \/ SetIssueStatus(o, i)
                    \/ Abandon(o, i) \/ Cleanup(o, i) \/ RemoveIssue(o, i)
                    \/ AddSteering(o, i)
             PROVE  UNCHANGED dbVars /\ \E h : Turn(o, h)
  BY <1>1 DEF Command
<1>2. ASSUME NEW k, NEW q, NEW s, Enter(o, k, i, q, s) PROVE \E h : Turn(o, h)
  BY <1>2 DEF Enter
<1>3. CASE AddSteering(o, i)
  BY <1>3, Zenon DEF AddSteering
<1>4. CASE Retry(o, i) \/ Approve(o, i)
  BY <1>2, <1>4 DEF Retry, Approve
<1>5. CASE SetIssueStatus(o, i)
  BY <1>2, <1>5 DEF SetIssueStatus
<1>6. CASE Abandon(o, i)
  BY <1>2, <1>6 DEF Abandon
<1>7. CASE Cleanup(o, i) \/ RemoveIssue(o, i)
  BY <1>2, <1>7 DEF Cleanup, RemoveIssue
<1> QED
  BY <1>3, <1>4, <1>5, <1>6, <1>7

LEMMA TickKeepsNext ==
  ASSUME TypeInv, TickKeepsIssues, [Next]_vars
  PROVE  TickKeepsIssues'
<1>0. Tick \in Actors /\ Tick \notin Ops /\ act \in [Actors -> Handler]
  BY PipelineAssumption DEF Actors, TypeInv, HandlersOK
<1>1. CASE act'[Tick] = act[Tick]
  BY <1>1 DEF TickKeepsIssues
<1>2. ASSUME NEW t \in Tasks, TaskStep(t) PROVE act' = act
  BY <1>2, TaskKeepsQueue
<1>3. ASSUME NEW a \in Actors \ {Tick}, NEW h, Turn(a, h) PROVE act'[Tick] = act[Tick]
  BY <1>0, <1>3 DEF Turn
<1>4. ASSUME NEW o \in Ops, Command(o) PROVE act'[Tick] = act[Tick]
  <2>1. o \in Actors \ {Tick}
    BY <1>0 DEF Actors
  <2> QED
    BY <1>3, <1>4, <2>1, CommandOnlyEnters
<1>5. ASSUME NEW a \in Actors, Continue(a) PROVE TickKeepsIssues'
  <2>1. CASE a # Tick
    <3>1. \E h : Turn(a, h)
      BY <1>5 DEF Continue, ActorWrite, Teardown, ClearWorktree, AbandonCheck,
         DeleteIssue, InsertSteering, PruneOrphans, RetryRun, Done, Move
    <3> QED
      BY <1>1, <1>3, <2>1, <3>1
  <2>2. CASE a = Tick
    <3>1. CASE Done(a)
      BY <1>0, <2>2, <3>1 DEF Done, Turn, IdleActor, TickKeepsIssues
    <3>2. CASE Teardown(a)
      <4>1. act[a].kind = "cleanup" /\ (Done(a) \/ Move(a, "clear"))
        BY <2>2, <3>2 DEF Teardown, AtA, TickKeepsIssues
      <4> QED
        BY <1>0, <2>2, <3>1, <4>1 DEF Move, Turn, Handler, TickKeepsIssues
    <3>3. CASE ClearWorktree(a)
      <4>1. Done(a)
        BY <2>2, <3>3 DEF ClearWorktree, AtA, TickKeepsIssues
      <4> QED
        BY <3>1, <4>1
    <3>4. CASE ActorWrite(a)
      <4>1. Done(a)
        BY <2>2, <3>4 DEF ActorWrite, AtA, TickKeepsIssues
      <4> QED
        BY <3>1, <4>1
    <3> QED
      BY <1>5, <2>2, <3>1, <3>2, <3>3, <3>4 DEF Continue, AbandonCheck,
         DeleteIssue, InsertSteering, PruneOrphans, RetryRun, AtA, TickKeepsIssues
  <2> QED
    BY <2>1, <2>2
<1>6. CASE TickStep
  <2>1. ASSUME NEW k, NEW i, NEW q, NEW s, Enter(Tick, k, i, q, s),
               \/ q = "write"
               \/ q = "teardown" /\ k = "cleanup"
        PROVE  TickKeepsIssues'
    BY <1>0, <2>1 DEF Enter, Turn, IdleActor, TickKeepsIssues
  <2>2. CASE TickSnapshot
    <3> DEFINE h == [IdleActor EXCEPT !.pc = "decide", !.known = running]
    <3>1. Turn(Tick, h) /\ h.pc = "decide"
      BY <2>2 DEF TickSnapshot, IdleActor
    <3> HIDE DEF h
    <3> QED
      BY <1>0, <3>1 DEF Turn, TickKeepsIssues
  <2>3. CASE TickDecide
    BY <1>0, <2>3 DEF TickDecide, Done, Turn, IdleActor, TickKeepsIssues
  <2>4. ASSUME NEW i \in Issues, TickGate(i) PROVE TickKeepsIssues'
    <3>1. \/ UNCHANGED act
          \/ \E s \in {"WORKING", "MERGING"} : Enter(Tick, "none", i, "write", s)
      BY <2>4, Zenon DEF TickGate
    <3>2. CASE UNCHANGED act
      BY <1>1, <3>2
    <3>3. ASSUME NEW s, Enter(Tick, "none", i, "write", s) PROVE TickKeepsIssues'
      BY <1>0, <3>3 DEF Enter, Turn, IdleActor, TickKeepsIssues
    <3> QED
      BY <3>1, <3>2, <3>3
  <2>5. ASSUME NEW i \in Issues, TickTeardown(i) PROVE TickKeepsIssues'
    BY <1>1, <2>1, <2>5 DEF TickTeardown
  <2>6. ASSUME NEW t \in Tasks, NEW i \in Issues, TickSpawn(t, i)
        PROVE  TickKeepsIssues'
    BY <1>1, <2>6 DEF TickSpawn
  <2> QED
    BY <1>6, <2>2, <2>3, <2>4, <2>5, <2>6 DEF TickStep
<1>7. CASE Crash
  BY <1>0, <1>7 DEF Crash, IdleActor, TickKeepsIssues
<1>8. ASSUME \/ \E t \in Tasks, i \in Issues : RunNow(t, i)
             \/ \E i \in Issues : ConsumeSteering(i)
             \/ Restart \/ RecoverRun \/ Recovered \/ UNCHANGED vars
      PROVE  act' = act
  BY <1>8 DEF RunNow, ConsumeSteering, Restart, RecoverRun, Recovered, vars,
         memVars
<1> QED
  BY <1>1, <1>2, <1>4, <1>5, <1>6, <1>7, <1>8 DEF Next

\* NoGuidanceDropped: whatever runs beside it, the end of a phase consumes the
\* messages of its own prompt and no other (consume_ids); the rest of the queue
\* goes only with an operator's ConsumeSteering or with the issue.
THEOREM GuidanceOutlivesPhase == Spec => NoGuidanceDropped
<1> DEFINE Taken == \A i \in Issues : \A m \in queued[i] \ queued'[i] :
         \/ ConsumeSteering(i) \/ \E o \in Ops : DeleteIssue(o) /\ act[o].issue = i
         \/ \E t \in Tasks : task[t].issue = i /\ m \in task[t].seen
<1>1. TypeInv /\ TickKeepsIssues /\ [Next]_vars => [Taken]_vars
  <2> SUFFICES ASSUME TypeInv, TickKeepsIssues, Next, NEW i \in Issues,
                      NEW m \in queued[i] \ queued'[i]
               PROVE  \/ ConsumeSteering(i)
                      \/ \E o \in Ops : DeleteIssue(o) /\ act[o].issue = i
                      \/ \E t \in Tasks : task[t].issue = i /\ m \in task[t].seen
    OBVIOUS
  <2>0. queued \in [Issues -> SUBSET Msgs] /\ queued' # queued
    BY DEF TypeInv, RowsOK
  <2>1. ASSUME NEW t \in Tasks, TaskStep(t)
        PROVE  task[t].issue = i /\ m \in task[t].seen
    <3>1. TaskConsume(t)
      BY <2>0, <2>1, TaskKeepsQueue
    <3> QED
      BY <2>0, <3>1 DEF TaskConsume
  <2>2. ASSUME NEW a \in Actors, Continue(a)
        PROVE  a \in Ops /\ DeleteIssue(a) /\ act[a].issue = i
    <3>1. ~InsertSteering(a)
      BY <2>0 DEF InsertSteering
    <3>2. DeleteIssue(a)
      BY <2>0, <2>2, <3>1 DEF Continue, ActorWrite, Teardown, ClearWorktree,
         AbandonCheck, PruneOrphans, RetryRun, dbVars
    <3>3. act[a].issue = i
      BY <2>0, <3>2 DEF DeleteIssue
    <3>4. a # Tick
      BY <3>2 DEF DeleteIssue, AtA, TickKeepsIssues
    <3> QED
      BY <3>2, <3>3, <3>4 DEF Actors
  <2>3. ASSUME NEW j \in Issues, ConsumeSteering(j) PROVE ConsumeSteering(i)
    BY <2>0, <2>3 DEF ConsumeSteering
  <2>4. ASSUME NEW o \in Ops, Command(o) PROVE FALSE
    BY <2>0, <2>4, CommandOnlyEnters DEF dbVars
  <2>5. ASSUME TickStep \/ \E t \in Tasks, j \in Issues : RunNow(t, j)
        PROVE  FALSE
    BY <2>0, <2>5 DEF TickStep, TickSnapshot, TickDecide, TickGate,
         TickTeardown, TickSpawn, RunNow, dbVars
  <2>6. ~(Crash \/ Restart \/ RecoverRun \/ Recovered)
    BY <2>0 DEF Crash, Restart, RecoverRun, Recovered, dbVars
  <2> QED
    BY <2>1, <2>2, <2>3, <2>4, <2>5, <2>6 DEF Next
<1>2. Init => TickKeepsIssues
  BY DEF Init, TickKeepsIssues, IdleActor, Actors
<1>3. Spec => []TickKeepsIssues
  BY <1>2, TickKeepsNext, TypeInvAlways, PTL DEF Spec
<1> QED
  BY <1>1, <1>3, TypeInvAlways, PTL DEF Spec, NoGuidanceDropped


-----------------------------------------------------------------------------
(* What the quiet commands keep                                            *)

\* One handler at a time, of the commands that look both at the running set
\* and at the status, and no approval by the tick itself: run now, retry,
\* approve, and everything about the queue.
Quiet ==
  /\ OpKinds \subseteq {"run", "retry", "approve", "steer", "consume"}
  /\ ~AutoCompletion
  /\ \A o, p \in Ops : o = p

Archived == {"DONE", "ABANDONED"}

\* Where execute() relies on the status it was started for.
Held == {"tree", "record", "setupFailed", "start", "agent", "dispatch", "merge",
         "applied", "write", "unchanged", "failCheck", "failWrite"}

\* Where its run row may be open.
OpenPC == InRun \cup {"failCheck", "failWrite", "finish"}

\* What a task at r knows of the status s and of the checkout (is there one?)
\* of its issue.
Knows(r, s, disk) ==
  /\ r.pc = "enter" => s = "NEW" /\ r.before = "PLANNING"
  /\ r.pc \in Held => s = r.before
  /\ r.pc \in Held \cup {"reload"} => r.before \in Actionable
  /\ r.pc = "write" => LegalTransition(s, r.target)
  /\ r.pc \in {"reworkCheck", "reworkWrite"} => s = "READY_TO_MERGE"
  /\ r.pc \in {"enter", "tree"} /\ r.checkout => disk
  /\ r.pc \in {"record", "start", "agent"} => disk
TaskKnows(t) ==
  Live(t) => Knows(task[t], status[task[t].issue], wtDisk[task[t].issue])

\* No phase of i is between its first look at the row and its end.
Waiting(i) ==
  \A t \in Tasks : task[t].pc # "idle" /\ task[t].issue = i
                     => task[t].pc \in {"begin", "exit"}

\* What a handler has checked before it writes is still so.
HandlerKnows(o) ==
  LET h == act[o] IN
  /\ h.pc \in {"idle", "write", "force", "rerun", "insert"}
  /\ h.pc \in {"write", "force"} => Waiting(h.issue)
  /\ h.pc = "write" => status[h.issue] = "READY_TO_MERGE" /\ h.to = "MERGING"
  /\ h.pc = "force" => /\ status[h.issue] = "FAILED" /\ h.to = lastPhase[h.issue]
                       /\ h.kind = "retry"

\* And so is what the tick has checked.
TickKnows ==
  LET h == act[Tick] IN
  /\ h.pc \in {"idle", "decide", "write", "teardown", "clear"}
  /\ h.pc = "write" => status[h.issue] = "PLAN_READY" /\ h.to = "WORKING"
  /\ h.pc \in {"teardown", "clear"} => h.kind = "cleanup" /\ status[h.issue] \in Archived

\* A recorded worktree is there, until the issue is archived; only then does
\* the tick take it away.
IssueGood(i) ==
  /\ Exists(i)
  /\ wtRow[i] /\ status[i] \notin Archived => wtDisk[i]
  /\ todo[i] = "teardown" => status[i] \in Archived

\* An open run row is that of the task in its slot.
RunsOwned ==
  daemon = "up" =>
    \A r \in openRuns : task[r.slot].pc \in OpenPC /\ RunRow(r.slot) = r

QuietInv == /\ \A t \in Tasks : TaskKnows(t)
            /\ \A o \in Ops : HandlerKnows(o)
            /\ TickKnows
            /\ \A i \in Issues : IssueGood(i)
            /\ RunsOwned

\* A step of LegalStatusSteps.
Legal == \A i \in Issues : status'[i] # status[i]
           => \/ LegalTransition(status[i], status'[i])
              \/ status[i] = "FAILED" /\ status'[i] = lastPhase[i]

LEMMA LegalEdges ==
  /\ \A s \in Actionable : LegalTransition(s, "FAILED")
  /\ LegalTransition("NEW", "PLANNING") /\ LegalTransition("PLAN_READY", "WORKING")
  /\ LegalTransition("READY_TO_MERGE", "WORKING")
  /\ LegalTransition("READY_TO_MERGE", "MERGING")
BY DEF LegalTransition, PhaseEdges, CancelEdges, Actionable

\* Task t leaves its issue with status s, and with a checkout (disk) and a
\* recorded worktree (row) or without; other issues stay as they are, and so
\* does the last phase while a handler may rely on it.
RowAfter(t, s, disk, row) ==
  \A j \in Issues :
    /\ status'[j] = IF j = task[t].issue THEN s ELSE status[j]
    /\ wtDisk'[j] = IF j = task[t].issue THEN disk ELSE wtDisk[j]
    /\ wtRow'[j] = IF j = task[t].issue THEN row ELSE wtRow[j]
    /\ lastPhase'[j] # lastPhase[j] =>
         j = task[t].issue /\ task[t].pc \notin {"begin", "exit"}

\* A step that leaves t at r with what r must know still true, that changes
\* the status along the matrix and only between the first look and the end, and
\* that keeps an open run row for itself, is quiet.
LEMMA TaskQuiet ==
  ASSUME TypeInv, OnePhasePerIssue, QuietInv, NEW t \in Tasks, Live(t),
         NEW r, Become(t, r), r.pc # "idle" => r.issue = task[t].issue,
         UNCHANGED <<act, todo, daemon>>,
         NEW s, NEW disk, NEW row, Knows(r, s, disk),
         RowAfter(t, s, disk, row),
         s # "REMOVED", row /\ s \notin Archived => disk,
         s # status[task[t].issue] =>
           /\ status[task[t].issue] \in Actionable \cup {"READY_TO_MERGE"}
           /\ LegalTransition(status[task[t].issue], s)
           /\ task[t].pc \notin {"begin", "exit"},
         task[t].pc \in {"begin", "exit"} =>
           r.pc \in {"begin", "exit", "idle"} \/ HasPhase(s),
         \A x \in openRuns' :
           IF x.slot = t THEN /\ r.pc \in OpenPC
                              /\ x = [issue |-> r.issue, before |-> r.before, slot |-> t]
                         ELSE x \in openRuns
  PROVE  QuietInv' /\ Legal
<1> DEFINE i == task[t].issue
<1>0. /\ i \in Issues /\ task'[t] = r
      /\ \A u \in Tasks \ {t} : task'[u] = task[u]
  BY DEF TypeInv, TasksOK, Become
<1>1. Legal
  BY <1>0 DEF Legal, RowAfter
<1>2. ASSUME NEW u \in Tasks PROVE TaskKnows(u)'
  <2>1. CASE u = t
    BY <1>0, <2>1 DEF TaskKnows, Live, RowAfter
  <2>2. CASE u # t
    <3> SUFFICES ASSUME Live(u)
                 PROVE  Knows(task[u], status'[task[u].issue], wtDisk'[task[u].issue])
      BY <1>0, <2>2 DEF TaskKnows, Live
    <3>1. task[u].issue # i /\ task[u].issue \in Issues
      BY <2>2 DEF OnePhasePerIssue, TypeInv, TasksOK
    <3>2. Knows(task[u], status[task[u].issue], wtDisk[task[u].issue])
      BY DEF QuietInv, TaskKnows
    <3> QED
      BY <3>1, <3>2 DEF RowAfter
  <2> QED
    BY <2>1, <2>2
<1>3. ASSUME NEW o \in Ops PROVE HandlerKnows(o)'
  <2>1. HandlerKnows(o) /\ act' = act
    BY DEF QuietInv
  <2>2. act[o].pc \in {"write", "force"} => act[o].issue \in Issues
    BY DEF TypeInv, HandlersOK, Actors
  <2>3. ASSUME act[o].pc \in {"write", "force"}
        PROVE  /\ status'[act[o].issue] = status[act[o].issue]
               /\ lastPhase'[act[o].issue] = lastPhase[act[o].issue]
               /\ Waiting(act[o].issue)'
    <3>1. CASE act[o].issue = i
      <4>1. task[t].pc \in {"begin", "exit"} /\ ~HasPhase(status[i])
        BY <1>0, <2>1, <2>3, <3>1 DEF HandlerKnows, Waiting, Live, HasPhase
      <4>2. s = status[i] /\ r.pc \in {"begin", "exit", "idle"}
        BY <4>1
      <4> QED
        BY <1>0, <2>1, <2>2, <2>3, <3>1, <4>1, <4>2 DEF HandlerKnows, Waiting, RowAfter
    <3>2. CASE act[o].issue # i
      BY <1>0, <2>1, <2>2, <2>3, <3>2 DEF HandlerKnows, Waiting, RowAfter
    <3> QED
      BY <3>1, <3>2
  <2> QED
    BY <2>1, <2>3 DEF HandlerKnows
<1>4. TickKnows'
  <2>1. TickKnows /\ act' = act
    BY DEF QuietInv
  <2>2. act[Tick].pc \in {"write", "teardown", "clear"} => act[Tick].issue \in Issues
    BY DEF TypeInv, HandlersOK, Actors
  <2>3. status[i] \in Archived \cup {"PLAN_READY"} => s = status[i]
    BY DEF Archived, Actionable
  <2>4. act[Tick].pc \in {"write", "teardown", "clear"} =>
          status'[act[Tick].issue] = status[act[Tick].issue]
    BY <2>1, <2>2, <2>3 DEF TickKnows, RowAfter
  <2> QED
    BY <2>1, <2>4 DEF TickKnows
<1>5. ASSUME NEW j \in Issues PROVE IssueGood(j)'
  <2>1. IssueGood(j) /\ todo' = todo
    BY DEF QuietInv
  <2>2. status[i] \in Archived => s = status[i]
    BY DEF Archived, Actionable
  <2> QED
    BY <2>1, <2>2 DEF IssueGood, Exists, RowAfter
<1>6. RunsOwned'
  <2> SUFFICES ASSUME daemon' = "up", NEW x \in openRuns'
               PROVE  task'[x.slot].pc \in OpenPC /\ RunRow(x.slot)' = x
    BY DEF RunsOwned
  <2>1. CASE x.slot = t
    BY <1>0, <2>1 DEF RunRow
  <2>2. CASE x.slot # t
    <3>1. x \in openRuns /\ x.slot \in Tasks
      BY <2>2 DEF TypeInv, RowsOK
    <3>2. task[x.slot].pc \in OpenPC /\ RunRow(x.slot) = x
      BY <3>1 DEF QuietInv, RunsOwned
    <3> QED
      BY <1>0, <2>2, <3>1, <3>2 DEF RunRow
  <2> QED
    BY <2>1, <2>2
<1> QED
  BY <1>1, <1>2, <1>3, <1>4, <1>5, <1>6 DEF QuietInv

\* Most steps move the program counter and touch no row.
LEMMA GotoQuiet ==
  ASSUME TypeInv, OnePhasePerIssue, QuietInv, daemon = "up", NEW t \in Tasks, Live(t),
         NEW q, Goto(t, q), q # "idle",
         UNCHANGED <<status, wtRow, wtDisk, lastPhase, openRuns, act, todo, daemon>>,
         task[t].pc \in OpenPC => q \in OpenPC,
         task[t].pc \in {"begin", "exit"} => q \in {"begin", "exit"},
         q = "enter" => FALSE,
         q \in Held => task[t].pc \in Held,
         q = "reload" => task[t].pc \in Held,
         q = "write" => LegalTransition(status[task[t].issue], task[t].target),
         q \in {"reworkCheck", "reworkWrite"} => status[task[t].issue] = "READY_TO_MERGE",
         q = "tree" => FALSE,
         q \in {"record", "start", "agent"} => wtDisk[task[t].issue]
  PROVE  QuietInv' /\ Legal
<1> DEFINE i == task[t].issue
           r == [task[t] EXCEPT !.pc = q]
<1>1. /\ i \in Issues /\ task[t] \in PhaseTask /\ r.pc = q /\ r.issue = i
      /\ r.before = task[t].before /\ r.target = task[t].target
      /\ r.checkout = task[t].checkout /\ Become(t, r)
  BY DEF TypeInv, TasksOK, PhaseTask, Goto
<1>2. Knows(task[t], status[i], wtDisk[i]) /\ IssueGood(i)
  BY <1>1 DEF QuietInv, TaskKnows
<1>3. Knows(r, status[i], wtDisk[i])
  BY <1>1, <1>2 DEF Knows, Held
<1>4. \A x \in openRuns' :
        IF x.slot = t THEN /\ r.pc \in OpenPC
                           /\ x = [issue |-> r.issue, before |-> r.before, slot |-> t]
                      ELSE x \in openRuns
  BY <1>1 DEF QuietInv, RunsOwned, RunRow
<1>5. /\ status[i] # "REMOVED" /\ (wtRow[i] /\ status[i] \notin Archived => wtDisk[i])
      /\ task[t].pc \in {"begin", "exit"} => r.pc \in {"begin", "exit", "idle"}
  BY <1>1, <1>2 DEF IssueGood, Exists
<1>6. RowAfter(t, status[i], wtDisk[i], wtRow[i])
  BY DEF RowAfter
<1> HIDE DEF r
<1> QED
  BY <1>1, <1>3, <1>4, <1>5, <1>6, TaskQuiet

\* Or write the status, at a place where the task knows it.
LEMMA WriteQuiet ==
  ASSUME TypeInv, OnePhasePerIssue, QuietInv, daemon = "up", NEW t \in Tasks,
         NEW s \in Status, SetStatus(task[t].issue, s),
         NEW q, Goto(t, q),
         UNCHANGED <<wtRow, wtDisk, lastPhase, openRuns, act, todo, daemon>>,
         \/ task[t].pc = "enter" /\ s = "PLANNING" /\ q = "tree"
         \/ task[t].pc = "write" /\ s = task[t].target /\ q = "reload"
         \/ task[t].pc = "unchanged" /\ s = "FAILED" /\ q = "consume"
         \/ task[t].pc = "reworkWrite" /\ s = "WORKING" /\ q = "finish"
         \/ task[t].pc = "failWrite" /\ s = "FAILED" /\ q = "finish"
  PROVE  QuietInv' /\ Legal
<1> DEFINE i == task[t].issue
           r == [task[t] EXCEPT !.pc = q]
<1>0. Live(t) /\ task[t].pc \notin {"begin", "exit"} /\ q # "idle"
  BY DEF Live
<1>1. /\ i \in Issues /\ task[t] \in PhaseTask /\ r.pc = q /\ r.issue = i
      /\ r.before = task[t].before /\ r.target = task[t].target
      /\ r.checkout = task[t].checkout /\ Become(t, r)
  BY <1>0 DEF TypeInv, TasksOK, PhaseTask, Goto
<1>2. Knows(task[t], status[i], wtDisk[i]) /\ IssueGood(i)
  BY <1>0, <1>1 DEF QuietInv, TaskKnows
<1>3. /\ status[i] \in Actionable \cup {"READY_TO_MERGE"}
      /\ LegalTransition(status[i], s)
  <2>1. CASE task[t].pc = "enter"
    BY <1>2, <2>1, LegalEdges DEF Knows, Actionable
  <2>2. CASE task[t].pc \in {"write", "unchanged", "failWrite"}
    BY <1>2, <2>2, LegalEdges DEF Knows, Held
  <2>3. CASE task[t].pc = "reworkWrite"
    BY <1>2, <2>3, LegalEdges DEF Knows
  <2> QED
    BY <2>1, <2>2, <2>3
<1>4. Knows(r, s, wtDisk[i])
  BY <1>1, <1>2 DEF Knows, Held, Actionable
<1>5. \A x \in openRuns' :
        IF x.slot = t THEN /\ r.pc \in OpenPC
                           /\ x = [issue |-> r.issue, before |-> r.before, slot |-> t]
                      ELSE x \in openRuns
  BY <1>1 DEF QuietInv, RunsOwned, RunRow, OpenPC, InRun
<1>6. /\ s # "REMOVED" /\ (wtRow[i] => wtDisk[i])
  BY <1>2, <1>3, StatusesExist DEF IssueGood, Archived, Actionable
<1>7. RowAfter(t, s, wtDisk[i], wtRow[i])
  BY <1>1 DEF SetStatus, TypeInv, RowsOK, RowAfter
<1> HIDE DEF r
<1> QED
  BY <1>0, <1>1, <1>3, <1>4, <1>5, <1>6, <1>7, TaskQuiet

LEMMA TaskStepQuiet ==
  ASSUME TypeInv, OnePhasePerIssue, DownIdle, QuietInv, NEW t \in Tasks, TaskStep(t)
  PROVE  QuietInv' /\ Legal
<1> DEFINE i == task[t].issue
           Row(r) == [issue |-> r.issue, before |-> r.before, slot |-> t]
           Owned(r) == \A x \in openRuns' :
                         IF x.slot = t THEN r.pc \in OpenPC /\ x = Row(r)
                                       ELSE x \in openRuns
<1>0. /\ Live(t) /\ daemon = "up" /\ i \in Issues /\ task[t] \in PhaseTask
      /\ Exists(i) /\ status[i] \in Status
  <2>1. Live(t)
    BY TaskStepMoves DEF TaskExit, At, Live
  <2>2. daemon = "up" /\ i \in Issues /\ task[t] \in PhaseTask
    BY <2>1 DEF DownIdle, TypeInv, TasksOK
  <2> QED
    BY <2>1, <2>2 DEF QuietInv, IssueGood, Exists, TypeInv, RowsOK
<1>k. Knows(task[t], status[i], wtDisk[i]) /\ IssueGood(i)
  BY <1>0 DEF QuietInv, TaskKnows
<1>r. \A x \in openRuns : x.slot = t => task[t].pc \in OpenPC /\ x = Row(task[t])
  BY <1>0 DEF QuietInv, RunsOwned, RunRow
<1> USE DEF dbVars, envVars
<1>1. CASE TaskBegin(t)
  <2>0. /\ task[t].pc = "begin"
        /\ UNCHANGED <<status, wtRow, wtDisk, lastPhase, openRuns, act, todo, daemon>>
    BY <1>1 DEF TaskBegin, At
  <2>1. CASE HasPhase(status[i])
    <3> DEFINE q == IF status[i] = "NEW" THEN "enter" ELSE "tree"
               b == IF status[i] = "NEW" THEN "PLANNING" ELSE status[i]
               r == [task[t] EXCEPT !.pc = q, !.before = b, !.checkout = wtRow[i]]
    <3>1. /\ Become(t, r) /\ r.pc = q /\ r.issue = i /\ r.before = b
          /\ r.checkout = wtRow[i] /\ q \in {"enter", "tree"}
          /\ status[i] \in Actionable
      BY <1>0, <1>1, <2>1 DEF TaskBegin, PhaseTask, HasPhase, Actionable
    <3>2. Knows(r, status[i], wtDisk[i])
      BY <1>0, <1>k, <3>1 DEF Knows, Held, IssueGood, Archived, Actionable
    <3>3. Owned(r)
      BY <1>r, <2>0 DEF OpenPC, InRun
    <3>4. /\ status[i] # "REMOVED"
          /\ wtRow[i] /\ status[i] \notin Archived => wtDisk[i]
          /\ RowAfter(t, status[i], wtDisk[i], wtRow[i])
      BY <1>k, <2>0 DEF IssueGood, Exists, RowAfter
    <3> HIDE DEF r, q, b
    <3> QED
      BY <1>0, <2>0, <2>1, <3>1, <3>2, <3>3, <3>4, TaskQuiet
  <2>2. CASE ~HasPhase(status[i])
    <3>1. Goto(t, "exit")
      BY <1>1, <2>2 DEF TaskBegin
    <3> QED
      BY <1>0, <2>0, <3>1, GotoQuiet DEF Held, OpenPC, InRun
  <2> QED
    BY <2>1, <2>2
<1>2. CASE TaskEnterPlanning(t)
  <2>1. /\ task[t].pc = "enter" /\ SetStatus(i, "PLANNING") /\ Goto(t, "tree")
        /\ UNCHANGED <<wtRow, wtDisk, lastPhase, openRuns, act, todo, daemon>>
        /\ "PLANNING" \in Status
    BY <1>0, <1>2 DEF TaskEnterPlanning, At, Status, Actionable
  <2> QED
    BY <1>0, <2>1, WriteQuiet
<1>3. CASE TaskCreateTree(t)
  <2>0. /\ task[t].pc = "tree"
        /\ UNCHANGED <<status, wtRow, lastPhase, openRuns, act, todo, daemon>>
    BY <1>3 DEF TaskCreateTree, At
  <2>1. CASE task[t].checkout /\ Forget(t, "start") /\ UNCHANGED wtDisk
    <3> DEFINE r == [IdleTask EXCEPT !.pc = "start", !.issue = i, !.before = task[t].before]
    <3>1. Become(t, r) /\ r.pc = "start" /\ r.issue = i /\ r.before = task[t].before
      BY <2>1 DEF Forget, IdleTask
    <3>2. Knows(r, status[i], wtDisk[i])
      BY <1>k, <2>0, <2>1, <3>1 DEF Knows, Held
    <3>3. Owned(r)
      BY <1>r, <2>0 DEF OpenPC, InRun
    <3>4. /\ status[i] # "REMOVED"
          /\ wtRow[i] /\ status[i] \notin Archived => wtDisk[i]
          /\ RowAfter(t, status[i], wtDisk[i], wtRow[i])
      BY <1>k, <2>0, <2>1 DEF IssueGood, Exists, RowAfter
    <3> HIDE DEF r
    <3> QED
      BY <1>0, <2>0, <2>1, <3>1, <3>2, <3>3, <3>4, TaskQuiet
  <2>2. CASE CreateTree(i) /\ Goto(t, "record")
    <3> DEFINE r == [task[t] EXCEPT !.pc = "record"]
    <3>1. Become(t, r) /\ r.pc = "record" /\ r.issue = i /\ r.before = task[t].before
      BY <1>0, <2>2 DEF Goto, PhaseTask
    <3>2. Knows(r, status[i], TRUE)
      BY <1>k, <2>0, <3>1 DEF Knows, Held
    <3>3. Owned(r)
      BY <1>r, <2>0 DEF OpenPC, InRun
    <3>4. /\ status[i] # "REMOVED"
          /\ RowAfter(t, status[i], TRUE, wtRow[i])
      BY <1>k, <2>0, <2>2 DEF IssueGood, Exists, CreateTree, TypeInv, RowsOK, RowAfter
    <3> HIDE DEF r
    <3> QED
      BY <1>0, <2>0, <3>1, <3>2, <3>3, <3>4, TaskQuiet, ZenonT(60)
  <2>3. CASE Goto(t, "setupFailed") /\ UNCHANGED wtDisk
    BY <1>0, <2>0, <2>3, GotoQuiet DEF Held, OpenPC, InRun
  <2> QED
    BY <1>3, <2>1, <2>2, <2>3 DEF TaskCreateTree
<1>4. CASE TaskRecordTree(t)
  <2> DEFINE r == [task[t] EXCEPT !.pc = "start"]
  <2>0. /\ task[t].pc = "record" /\ Goto(t, "start")
        /\ wtRow' = [wtRow EXCEPT ![i] = TRUE]
        /\ UNCHANGED <<status, wtDisk, lastPhase, openRuns, act, todo, daemon>>
    BY <1>0, <1>4 DEF TaskRecordTree, At
  <2>1. Become(t, r) /\ r.pc = "start" /\ r.issue = i /\ r.before = task[t].before
    BY <1>0, <2>0 DEF Goto, PhaseTask
  <2>2. Knows(r, status[i], wtDisk[i]) /\ wtDisk[i]
    BY <1>k, <2>0, <2>1 DEF Knows, Held
  <2>3. Owned(r)
    BY <1>r, <2>0 DEF OpenPC, InRun
  <2>4. /\ status[i] # "REMOVED"
        /\ RowAfter(t, status[i], wtDisk[i], TRUE)
    BY <1>k, <2>0 DEF IssueGood, Exists, TypeInv, RowsOK, RowAfter
  <2> HIDE DEF r
  <2> QED
    BY <1>0, <2>0, <2>1, <2>2, <2>3, <2>4, TaskQuiet
<1>5. CASE TaskSetupFailed(t)
  <2>0. /\ task[t].pc = "setupFailed" /\ Goto(t, "failWrite")
        /\ lastPhase' = [lastPhase EXCEPT ![i] = task[t].before]
        /\ UNCHANGED <<status, wtRow, wtDisk, openRuns, act, todo, daemon>>
    <3>1. status[i] \in Actionable
      BY <1>k, <1>5 DEF TaskSetupFailed, At, Knows, Held
    <3> QED
      BY <1>0, <1>5, <3>1, LegalEdges DEF TaskSetupFailed, At
  <2> DEFINE r == [task[t] EXCEPT !.pc = "failWrite"]
  <2>1. Become(t, r) /\ r.pc = "failWrite" /\ r.issue = i /\ r.before = task[t].before
    BY <1>0, <2>0 DEF Goto, PhaseTask
  <2>2. Knows(r, status[i], wtDisk[i])
    BY <1>k, <2>0, <2>1 DEF Knows, Held
  <2>3. Owned(r)
    BY <1>r, <2>0 DEF OpenPC, InRun
  <2>4. /\ status[i] # "REMOVED"
        /\ wtRow[i] /\ status[i] \notin Archived => wtDisk[i]
        /\ RowAfter(t, status[i], wtDisk[i], wtRow[i])
    BY <1>k, <2>0 DEF IssueGood, Exists, TypeInv, RowsOK, RowAfter
  <2> HIDE DEF r
  <2> QED
    BY <1>0, <2>0, <2>1, <2>2, <2>3, <2>4, TaskQuiet
<1>6. CASE TaskStartRun(t)
  <2> DEFINE r == [task[t] EXCEPT !.pc = "agent", !.seen = queued[i]]
  <2>0. /\ task[t].pc = "start" /\ Become(t, r)
        /\ openRuns' = openRuns \cup {RunRow(t)}
        /\ lastPhase' = [lastPhase EXCEPT ![i] = task[t].before]
        /\ UNCHANGED <<status, wtRow, wtDisk, act, todo, daemon>>
    BY <1>0, <1>6 DEF TaskStartRun, At
  <2>1. r.pc = "agent" /\ r.issue = i /\ r.before = task[t].before
    BY <1>0 DEF PhaseTask
  <2>2. Knows(r, status[i], wtDisk[i])
    BY <1>k, <2>0, <2>1 DEF Knows, Held
  <2>3. Owned(r)
    BY <1>r, <2>0, <2>1 DEF OpenPC, InRun, RunRow
  <2>4. /\ status[i] # "REMOVED"
        /\ wtRow[i] /\ status[i] \notin Archived => wtDisk[i]
        /\ RowAfter(t, status[i], wtDisk[i], wtRow[i])
    BY <1>k, <2>0 DEF IssueGood, Exists, TypeInv, RowsOK, RowAfter
  <2> HIDE DEF r
  <2> QED
    BY <1>0, <2>0, <2>1, <2>2, <2>3, <2>4, TaskQuiet
<1>7. CASE TaskPrepareFails(t)
  BY <1>0, <1>7, GotoQuiet DEF TaskPrepareFails, At, Held, OpenPC, InRun
<1>8. CASE TaskAgentEnds(t)
  <2>0. /\ task[t].pc = "agent"
        /\ UNCHANGED <<status, wtRow, wtDisk, lastPhase, openRuns, act, todo, daemon>>
    BY <1>8, Zenon DEF TaskAgentEnds, At
  <2>1. ASSUME NEW s, Become(t, [task[t] EXCEPT !.pc = "dispatch", !.target = s])
        PROVE  QuietInv' /\ Legal
    <3> DEFINE r == [task[t] EXCEPT !.pc = "dispatch", !.target = s]
    <3>1. r.pc = "dispatch" /\ r.issue = i /\ r.before = task[t].before
      BY <1>0 DEF PhaseTask
    <3>2. Knows(r, status[i], wtDisk[i])
      BY <1>k, <2>0, <3>1 DEF Knows, Held
    <3>3. Owned(r)
      BY <1>r, <2>0, <3>1 DEF OpenPC, InRun
    <3>4. /\ status[i] # "REMOVED"
          /\ wtRow[i] /\ status[i] \notin Archived => wtDisk[i]
          /\ RowAfter(t, status[i], wtDisk[i], wtRow[i])
      BY <1>k, <2>0 DEF IssueGood, Exists, RowAfter
    <3>5. Become(t, r)
      BY <2>1
    <3> HIDE DEF r
    <3> QED
      BY <1>0, <2>0, <3>1, <3>2, <3>3, <3>4, <3>5, TaskQuiet
  <2>2. ASSUME NEW q \in {"reload", "merge", "failCheck"}, Goto(t, q)
        PROVE  QuietInv' /\ Legal
    BY <1>0, <2>0, <2>2, GotoQuiet DEF Held, OpenPC, InRun
  <2> QED
    BY <1>8, <2>1, <2>2, Zenon DEF TaskAgentEnds
<1>9. CASE TaskDispatch(t)
  <2>1. PICK q \in {"reload", "write", "failCheck"} :
          /\ Goto(t, q)
          /\ q = "write" => LegalTransition(status[i], task[t].target)
    BY <1>9 DEF TaskDispatch, At
  <2>2. /\ task[t].pc = "dispatch"
        /\ UNCHANGED <<status, wtRow, wtDisk, lastPhase, openRuns, act, todo, daemon>>
    BY <1>9 DEF TaskDispatch, At
  <2> QED
    BY <1>0, <2>1, <2>2, GotoQuiet DEF Held, OpenPC, InRun
<1>10. CASE TaskApplyMerge(t)
  <2>0. /\ task[t].pc = "merge"
        /\ UNCHANGED <<status, wtRow, wtDisk, lastPhase, openRuns, act, todo, daemon>>
    BY <1>10, Zenon DEF TaskApplyMerge, At
  <2>1. ASSUME NEW s, Become(t, [task[t] EXCEPT !.pc = "applied", !.target = s])
        PROVE  QuietInv' /\ Legal
    <3> DEFINE r == [task[t] EXCEPT !.pc = "applied", !.target = s]
    <3>1. r.pc = "applied" /\ r.issue = i /\ r.before = task[t].before
      BY <1>0 DEF PhaseTask
    <3>2. Knows(r, status[i], wtDisk[i])
      BY <1>k, <2>0, <3>1 DEF Knows, Held
    <3>3. Owned(r)
      BY <1>r, <2>0, <3>1 DEF OpenPC, InRun
    <3>4. /\ status[i] # "REMOVED"
          /\ wtRow[i] /\ status[i] \notin Archived => wtDisk[i]
          /\ RowAfter(t, status[i], wtDisk[i], wtRow[i])
      BY <1>k, <2>0 DEF IssueGood, Exists, RowAfter
    <3>5. Become(t, r)
      BY <2>1
    <3> HIDE DEF r
    <3> QED
      BY <1>0, <2>0, <3>1, <3>2, <3>3, <3>4, <3>5, TaskQuiet
  <2>2. CASE Goto(t, "failCheck")
    BY <1>0, <2>0, <2>2, GotoQuiet DEF Held, OpenPC, InRun
  <2> QED
    BY <1>10, <2>1, <2>2, Zenon DEF TaskApplyMerge
<1>11. CASE TaskApplied(t)
  <2>1. PICK q \in {"write", "failCheck"} :
          /\ Goto(t, q)
          /\ q = "write" => LegalTransition(status[i], task[t].target)
    BY <1>11 DEF TaskApplied, At
  <2>2. /\ task[t].pc = "applied"
        /\ UNCHANGED <<status, wtRow, wtDisk, lastPhase, openRuns, act, todo, daemon>>
    BY <1>11 DEF TaskApplied, At
  <2> QED
    BY <1>0, <2>1, <2>2, GotoQuiet DEF Held, OpenPC, InRun
<1>12. CASE TaskWrite(t)
  <2>1. /\ task[t].pc = "write" /\ SetStatus(i, task[t].target) /\ Goto(t, "reload")
        /\ UNCHANGED <<wtRow, wtDisk, lastPhase, openRuns, act, todo, daemon>>
        /\ task[t].target \in Status
    BY <1>0, <1>12 DEF TaskWrite, At, PhaseTask
  <2> QED
    BY <1>0, <2>1, WriteQuiet
<1>13. CASE TaskReload(t)
  <2>0. /\ task[t].pc = "reload"
        /\ UNCHANGED <<status, wtRow, wtDisk, lastPhase, openRuns, act, todo, daemon>>
    BY <1>13 DEF TaskReload, At
  <2>1. CASE status[i] = task[t].before
    <3> DEFINE r == [task[t] EXCEPT !.pc = "unchanged"]
    <3>1. Become(t, r) /\ r.pc = "unchanged" /\ r.issue = i /\ r.before = task[t].before
      BY <1>0, <1>13, <2>1 DEF TaskReload, Goto, PhaseTask
    <3>2. Knows(r, status[i], wtDisk[i])
      BY <1>k, <2>0, <2>1, <3>1 DEF Knows, Held
    <3>3. Owned(r)
      BY <1>r, <2>0, <3>1 DEF OpenPC, InRun
    <3>4. /\ status[i] # "REMOVED"
          /\ wtRow[i] /\ status[i] \notin Archived => wtDisk[i]
          /\ RowAfter(t, status[i], wtDisk[i], wtRow[i])
      BY <1>k, <2>0 DEF IssueGood, Exists, RowAfter
    <3> HIDE DEF r
    <3> QED
      BY <1>0, <2>0, <3>1, <3>2, <3>3, <3>4, TaskQuiet
  <2>2. CASE status[i] # task[t].before
    <3>1. Goto(t, "consume")
      BY <1>13, <2>2 DEF TaskReload
    <3> QED
      BY <1>0, <2>0, <3>1, GotoQuiet DEF Held, OpenPC, InRun
  <2> QED
    BY <2>1, <2>2
<1>14. CASE TaskUnchanged(t)
  <2>1. /\ task[t].pc = "unchanged" /\ SetStatus(i, "FAILED") /\ Goto(t, "consume")
        /\ UNCHANGED <<wtRow, wtDisk, lastPhase, openRuns, act, todo, daemon>>
        /\ "FAILED" \in Status
    BY <1>0, <1>14 DEF TaskUnchanged, At, Status, Terminal
  <2> QED
    BY <1>0, <2>1, WriteQuiet
<1>15. CASE TaskConsume(t)
  <2> DEFINE r == [IdleTask EXCEPT !.pc = "rework", !.issue = i, !.before = task[t].before]
  <2>0. /\ task[t].pc = "consume" /\ Become(t, r)
        /\ openRuns' = openRuns
        /\ UNCHANGED <<status, wtRow, wtDisk, lastPhase, act, todo, daemon>>
    BY <1>15 DEF TaskConsume, At, Forget
  <2>1. r.pc = "rework" /\ r.issue = i /\ r.before = task[t].before
    BY DEF IdleTask
  <2>2. Knows(r, status[i], wtDisk[i])
    BY <2>1 DEF Knows, Held
  <2>3. Owned(r)
    BY <1>r, <2>0, <2>1 DEF OpenPC, InRun, RunRow
  <2>4. /\ status[i] # "REMOVED"
        /\ wtRow[i] /\ status[i] \notin Archived => wtDisk[i]
        /\ RowAfter(t, status[i], wtDisk[i], wtRow[i])
    BY <1>k, <2>0 DEF IssueGood, Exists, RowAfter
  <2> HIDE DEF r
  <2> QED
    BY <1>0, <2>0, <2>1, <2>2, <2>3, <2>4, TaskQuiet
<1>16. CASE TaskRework(t)
  <2>1. PICK q \in {"reworkCheck", "finish"} :
          /\ Goto(t, q)
          /\ q = "reworkCheck" => status[i] = "READY_TO_MERGE"
    BY <1>16 DEF TaskRework, At
  <2>2. /\ task[t].pc = "rework"
        /\ UNCHANGED <<status, wtRow, wtDisk, lastPhase, openRuns, act, todo, daemon>>
    BY <1>16 DEF TaskRework, At
  <2> QED
    BY <1>0, <2>1, <2>2, GotoQuiet DEF Held, OpenPC, InRun
<1>17. CASE TaskReworkCheck(t)
  <2>1. /\ task[t].pc = "reworkCheck" /\ Goto(t, "reworkWrite")
        /\ status[i] = "READY_TO_MERGE"
        /\ UNCHANGED <<status, wtRow, wtDisk, lastPhase, openRuns, act, todo, daemon>>
    BY <1>k, <1>17, LegalEdges DEF TaskReworkCheck, At, Knows
  <2> QED
    BY <1>0, <2>1, GotoQuiet DEF Held, OpenPC, InRun
<1>18. CASE TaskReworkWrite(t)
  <2>1. /\ task[t].pc = "reworkWrite" /\ SetStatus(i, "WORKING") /\ Goto(t, "finish")
        /\ UNCHANGED <<wtRow, wtDisk, lastPhase, openRuns, act, todo, daemon>>
        /\ "WORKING" \in Status
    BY <1>0, <1>18 DEF TaskReworkWrite, At, Status, Actionable
  <2> QED
    BY <1>0, <2>1, WriteQuiet
<1>19. CASE TaskFailCheck(t)
  <2>1. /\ task[t].pc = "failCheck" /\ Goto(t, "failWrite")
        /\ UNCHANGED <<status, wtRow, wtDisk, lastPhase, openRuns, act, todo, daemon>>
    BY <1>k, <1>19, LegalEdges DEF TaskFailCheck, At, Knows, Held
  <2> QED
    BY <1>0, <2>1, GotoQuiet DEF Held, OpenPC, InRun
<1>20. CASE TaskFailWrite(t)
  <2>1. /\ task[t].pc = "failWrite" /\ SetStatus(i, "FAILED") /\ Goto(t, "finish")
        /\ UNCHANGED <<wtRow, wtDisk, lastPhase, openRuns, act, todo, daemon>>
        /\ "FAILED" \in Status
    BY <1>0, <1>20 DEF TaskFailWrite, At, Status, Terminal
  <2> QED
    BY <1>0, <2>1, WriteQuiet
<1>21. CASE TaskFinish(t)
  <2> DEFINE r == [IdleTask EXCEPT !.pc = "exit", !.issue = i, !.before = task[t].before]
  <2>0. /\ task[t].pc = "finish" /\ Become(t, r)
        /\ openRuns' = openRuns \ {RunRow(t)}
        /\ UNCHANGED <<status, wtRow, wtDisk, lastPhase, act, todo, daemon>>
    BY <1>21 DEF TaskFinish, At, Forget
  <2>1. r.pc = "exit" /\ r.issue = i /\ r.before = task[t].before
    BY DEF IdleTask
  <2>2. Knows(r, status[i], wtDisk[i])
    BY <2>1 DEF Knows, Held
  <2>3. Owned(r)
    BY <1>r, <2>0, <2>1 DEF OpenPC, InRun, RunRow
  <2>4. /\ status[i] # "REMOVED"
        /\ wtRow[i] /\ status[i] \notin Archived => wtDisk[i]
        /\ RowAfter(t, status[i], wtDisk[i], wtRow[i])
    BY <1>k, <2>0 DEF IssueGood, Exists, RowAfter
  <2> HIDE DEF r
  <2> QED
    BY <1>0, <2>0, <2>1, <2>2, <2>3, <2>4, TaskQuiet
<1>22. CASE TaskExit(t)
  <2>0. /\ task[t].pc = "exit" /\ Become(t, IdleTask)
        /\ UNCHANGED <<status, wtRow, wtDisk, lastPhase, openRuns, act, todo, daemon>>
    BY <1>22 DEF TaskExit, At
  <2>1. IdleTask.pc = "idle" /\ Knows(IdleTask, status[i], wtDisk[i])
    BY DEF IdleTask, Knows, Held
  <2>2. Owned(IdleTask)
    BY <1>r, <2>0 DEF OpenPC, InRun
  <2>3. /\ status[i] # "REMOVED"
        /\ wtRow[i] /\ status[i] \notin Archived => wtDisk[i]
        /\ RowAfter(t, status[i], wtDisk[i], wtRow[i])
    BY <1>k, <2>0 DEF IssueGood, Exists, RowAfter
  <2> QED
    BY <1>0, <2>0, <2>1, <2>2, <2>3, TaskQuiet
<1> QED
  BY <1>1, <1>2, <1>3, <1>4, <1>5, <1>6, <1>7, <1>8, <1>9, <1>10, <1>11,
     <1>12, <1>13, <1>14, <1>15, <1>16, <1>17, <1>18, <1>19, <1>20, <1>21, <1>22
  DEF TaskStep

\* What the tasks know, and what the handlers and the tick know.
TasksQuiet == (\A t \in Tasks : TaskKnows(t)) /\ RunsOwned
ActorsQuiet == (\A o \in Ops : HandlerKnows(o)) /\ TickKnows

\* A task that is spawned knows nothing yet.
LEMMA SpawnQuiet ==
  ASSUME TypeInv, QuietInv, daemon = "up", NEW t \in Tasks, NEW i, Spawn(t, i),
         UNCHANGED <<status, wtDisk, openRuns>>
  PROVE  TasksQuiet' /\ \A j \in Issues : Waiting(j) => Waiting(j)'
<1>1. CASE UNCHANGED task
  BY <1>1 DEF QuietInv, TasksQuiet, TaskKnows, Live, Waiting, RunsOwned, RunRow
<1>2. CASE ~Live(t) /\ Become(t, [IdleTask EXCEPT !.pc = "begin", !.issue = i])
  <2>1. /\ task'[t].pc = "begin" /\ task[t].pc = "idle"
        /\ \A u \in Tasks \ {t} : task'[u] = task[u]
    BY <1>2 DEF TypeInv, TasksOK, Become, IdleTask, Live
  <2>2. ASSUME NEW u \in Tasks PROVE TaskKnows(u)'
    BY <2>1 DEF QuietInv, TaskKnows, Live, Knows, Held
  <2>3. ASSUME NEW x \in openRuns
        PROVE  task'[x.slot].pc \in OpenPC /\ RunRow(x.slot)' = x
    <3>1. x.slot \in Tasks /\ task[x.slot].pc \in OpenPC /\ RunRow(x.slot) = x
      BY DEF QuietInv, RunsOwned, TypeInv, RowsOK
    <3> QED
      BY <2>1, <3>1 DEF OpenPC, InRun, RunRow
  <2> QED
    BY <2>1, <2>2, <2>3 DEF TasksQuiet, RunsOwned, Waiting
<1> QED
  BY <1>1, <1>2 DEF Spawn

\* Someone else writes a status that no phase relies on.
LEMMA WrittenQuiet ==
  ASSUME TypeInv, QuietInv, NEW i \in Issues, NEW s \in Status, SetStatus(i, s),
         UNCHANGED <<wtRow, wtDisk, openRuns, task, todo, daemon>>,
         status[i] \in {"FAILED", "READY_TO_MERGE", "PLAN_READY"},
         Waiting(i) \/ status[i] = "PLAN_READY"
  PROVE  TasksQuiet' /\ (\A j \in Issues : IssueGood(j)')
<1>1. \A j \in Issues : status'[j] = IF j = i THEN s ELSE status[j]
  BY DEF SetStatus, TypeInv, RowsOK
<1>2. ASSUME NEW u \in Tasks PROVE TaskKnows(u)'
  <2> SUFFICES ASSUME Live(u)
               PROVE  Knows(task[u], status'[task[u].issue], wtDisk[task[u].issue])
    BY DEF TaskKnows, Live
  <2>1. /\ task[u].issue \in Issues
        /\ Knows(task[u], status[task[u].issue], wtDisk[task[u].issue])
    BY DEF QuietInv, TaskKnows, TypeInv, TasksOK
  <2>2. CASE task[u].issue = i
    <3>1. task[u].pc \notin Held \cup {"enter", "reworkCheck", "reworkWrite"}
      BY <2>1, <2>2 DEF Knows, Held, Waiting, Live, Actionable
    <3> QED
      BY <2>1, <3>1 DEF Knows, Held
  <2>3. CASE task[u].issue # i
    BY <1>1, <2>1, <2>3
  <2> QED
    BY <2>2, <2>3
<1>3. ASSUME NEW j \in Issues PROVE IssueGood(j)'
  BY <1>1, StatusesExist DEF QuietInv, IssueGood, Exists, Archived
<1> QED
  BY <1>2, <1>3 DEF QuietInv, TasksQuiet, RunsOwned, RunRow

LEMMA CommandQuiet ==
  ASSUME Quiet, TypeInv, OnePhasePerIssue, QuietInv, NEW o \in Ops, Command(o)
  PROVE  QuietInv' /\ Legal
<1>1. \E i \in Issues : Retry(o, i) \/ Approve(o, i) \/ AddSteering(o, i)
  BY DEF Quiet, Command, Prune, SetIssueStatus, Abandon, Cleanup, RemoveIssue, Accept
<1>2. UNCHANGED <<status, wtRow, wtDisk, lastPhase, openRuns, task, todo, daemon>>
  <2>1. PICK i \in Issues : Retry(o, i) \/ Approve(o, i) \/ AddSteering(o, i)
    BY <1>1
  <2>2. UNCHANGED <<dbVars, wtDisk, task, todo, envVars>>
    BY <2>1, Zenon DEF Retry, Approve, AddSteering
  <2> QED
    BY <2>2 DEF dbVars, envVars
<1>3. TasksQuiet' /\ (\A i \in Issues : IssueGood(i)') /\ Legal
  BY <1>2 DEF QuietInv, TasksQuiet, TaskKnows, Live, RunsOwned, RunRow, IssueGood,
              Exists, Legal
<1>4. act'[Tick] = act[Tick] /\ HandlerKnows(o)'
  <2>1. PICK i \in Issues : Retry(o, i) \/ Approve(o, i) \/ AddSteering(o, i)
    BY <1>1
  <2>2. act \in [Actors -> Handler] /\ o \in Actors /\ Tick \in Actors /\ o # Tick
    BY PipelineAssumption DEF TypeInv, HandlersOK, Actors
  <2>3. i \notin running => Waiting(i)'
    BY <1>2 DEF OnePhasePerIssue, Live, Waiting
  <2>4. CASE Retry(o, i)
    BY <1>2, <2>2, <2>3, <2>4
       DEF Retry, Enter, Turn, Idle, IdleActor, HandlerKnows
  <2>5. CASE Approve(o, i)
    BY <1>2, <2>2, <2>3, <2>5
       DEF Approve, Enter, Turn, Idle, IdleActor, HandlerKnows
  <2>6. CASE AddSteering(o, i)
    BY <2>2, <2>6 DEF AddSteering, Turn, IdleActor, HandlerKnows
  <2> QED
    BY <2>1, <2>4, <2>5, <2>6
<1>5. \A p \in Ops : HandlerKnows(p)'
  BY <1>4 DEF Quiet
<1>6. TickKnows'
  BY <1>2, <1>4 DEF QuietInv, TickKnows
<1> QED
  BY <1>3, <1>5, <1>6 DEF QuietInv, TasksQuiet

LEMMA HandlerQuiet ==
  ASSUME Quiet, TypeInv, DownIdle, QuietInv, NEW o \in Ops, Continue(o)
  PROVE  QuietInv' /\ Legal
<1> DEFINE i == act[o].issue
<1>0. /\ act \in [Actors -> Handler] /\ o \in Actors /\ Tick \in Actors /\ o # Tick
      /\ HandlerKnows(o) /\ TickKnows
  BY PipelineAssumption DEF TypeInv, HandlersOK, Actors, QuietInv
<1>1. \/ ActorWrite(o) \/ InsertSteering(o) \/ \E t \in Tasks : RetryRun(o, t)
  BY <1>0 DEF Continue, Teardown, ClearWorktree, AbandonCheck, DeleteIssue,
              PruneOrphans, AtA, HandlerKnows
<1>2. /\ act[o].pc # "idle" /\ daemon = "up" /\ daemon' = daemon /\ todo' = todo
      /\ i \in Issues /\ act[o].to \in Status
  <2>1. act[o].pc \notin {"idle", "prune", "decide"}
    BY <1>0, <1>1 DEF ActorWrite, InsertSteering, RetryRun, AtA
  <2> QED
    BY <1>0, <1>1, <2>1 DEF DownIdle, TypeInv, HandlersOK, Handler, ActorWrite,
       InsertSteering, RetryRun, envVars
<1>3. ASSUME act'[Tick] = act[Tick], act'[o].pc \in {"idle", "rerun"},
             act[Tick].pc \in {"write", "teardown", "clear"} =>
               status'[act[Tick].issue] = status[act[Tick].issue]
      PROVE  ActorsQuiet'
  BY <1>0, <1>3 DEF ActorsQuiet, HandlerKnows, TickKnows, Quiet
<1>4. ASSUME ActorWrite(o) PROVE QuietInv' /\ Legal
  <2>1. /\ act[o].pc \in {"write", "force"} /\ SetStatus(i, act[o].to)
        /\ act' = [act EXCEPT ![o] = IF act[o].pc = "force"
                                     THEN [act[o] EXCEPT !.pc = "rerun"] ELSE IdleActor]
        /\ UNCHANGED <<wtRow, wtDisk, lastPhase, openRuns, task>>
    <3>1. act[o].pc \in {"write", "force"} /\ Exists(i)
      BY <1>2, <1>4 DEF ActorWrite, AtA, QuietInv, IssueGood
    <3>2. act[o].pc = "force" => act[o].kind = "retry"
      BY <1>0 DEF HandlerKnows
    <3> QED
      BY <1>4, <3>1, <3>2 DEF ActorWrite, AtA, Move, Done, Turn
  <2>2. /\ Waiting(i) /\ status[i] \in {"READY_TO_MERGE", "FAILED"}
        /\ \/ status[i] = "READY_TO_MERGE" /\ act[o].to = "MERGING"
           \/ status[i] = "FAILED" /\ act[o].to = lastPhase[i]
    BY <1>0, <2>1 DEF HandlerKnows
  <2>3. TasksQuiet' /\ (\A j \in Issues : IssueGood(j)')
    BY <1>2, <2>1, <2>2, WrittenQuiet
  <2>4. \A j \in Issues : status'[j] = IF j = i THEN act[o].to ELSE status[j]
    BY <2>1 DEF SetStatus, TypeInv, RowsOK
  <2>5. Legal
    BY <2>2, <2>4, LegalEdges DEF Legal
  <2>6. act[Tick].pc \in {"write", "teardown", "clear"} =>
          act[Tick].issue \in Issues /\ act[Tick].issue # i
    BY <1>0, <2>2 DEF TypeInv, HandlersOK, TickKnows, Archived
  <2>7. act'[Tick] = act[Tick] /\ act'[o].pc \in {"idle", "rerun"}
    BY <1>0, <2>1 DEF Handler, IdleActor
  <2>8. ActorsQuiet'
    BY <1>3, <2>4, <2>6, <2>7
  <2> QED
    BY <2>3, <2>5, <2>8 DEF QuietInv, TasksQuiet, ActorsQuiet
<1>5. ASSUME InsertSteering(o) PROVE QuietInv' /\ Legal
  <2>1. /\ act' = [act EXCEPT ![o] = IdleActor]
        /\ UNCHANGED <<status, wtRow, wtDisk, openRuns, task>>
    BY <1>5, Zenon DEF InsertSteering, Done, Turn
  <2>2. ActorsQuiet'
    BY <1>0, <1>3, <2>1 DEF IdleActor
  <2>3. TasksQuiet' /\ (\A j \in Issues : IssueGood(j)') /\ Legal
    BY <1>2, <2>1 DEF QuietInv, TasksQuiet, TaskKnows, Live, RunsOwned, RunRow,
                      IssueGood, Exists, Legal
  <2> QED
    BY <2>2, <2>3 DEF QuietInv, TasksQuiet, ActorsQuiet
<1>6. ASSUME NEW t \in Tasks, RetryRun(o, t) PROVE QuietInv' /\ Legal
  <2>1. /\ act' = [act EXCEPT ![o] = IdleActor]
        /\ UNCHANGED <<status, wtRow, wtDisk, openRuns>>
        /\ Spawn(t, i) \/ UNCHANGED task
    BY <1>6, Zenon DEF RetryRun, Done, Turn, dbVars
  <2>2. ActorsQuiet'
    BY <1>0, <1>3, <2>1 DEF IdleActor
  <2>3. TasksQuiet'
    <3>1. CASE UNCHANGED task
      BY <1>2, <2>1, <3>1 DEF QuietInv, TasksQuiet, TaskKnows, Live, RunsOwned, RunRow
    <3> QED
      BY <1>2, <2>1, <3>1, SpawnQuiet
  <2>4. (\A j \in Issues : IssueGood(j)') /\ Legal
    BY <1>2, <2>1 DEF QuietInv, IssueGood, Exists, Legal
  <2> QED
    BY <2>2, <2>3, <2>4 DEF QuietInv, TasksQuiet, ActorsQuiet
<1> QED
  BY <1>1, <1>4, <1>5, <1>6

LEMMA TickStepQuiet ==
  ASSUME Quiet, TypeInv, DownIdle, QuietInv, TickStep
  PROVE  QuietInv' /\ Legal
<1>0. /\ act \in [Actors -> Handler] /\ Tick \in Actors /\ Tick \notin Ops
      /\ Ops \subseteq Actors /\ todo \in [Issues -> {"none", "spawn", "gate", "teardown"}]
      /\ TickKnows /\ \A j \in Issues : IssueGood(j)
  BY PipelineAssumption DEF TypeInv, HandlersOK, RestOK, Actors, QuietInv
<1>1. UNCHANGED <<status, wtRow, wtDisk, lastPhase, openRuns, daemon>>
  <2>1. TickSnapshot \/ TickDecide => UNCHANGED <<dbVars, wtDisk, envVars>>
    BY DEF TickSnapshot, TickDecide
  <2>2. ASSUME NEW i \in Issues, TickGate(i) PROVE UNCHANGED <<dbVars, wtDisk, envVars>>
    BY <2>2 DEF TickGate
  <2>3. ASSUME NEW i \in Issues, TickTeardown(i)
        PROVE  UNCHANGED <<dbVars, wtDisk, envVars>>
    BY <2>3 DEF TickTeardown
  <2>4. ASSUME NEW i \in Issues, NEW t \in Tasks, TickSpawn(t, i)
        PROVE  UNCHANGED <<dbVars, wtDisk, envVars>>
    BY <2>4 DEF TickSpawn
  <2>5. UNCHANGED <<dbVars, wtDisk, envVars>>
    BY <2>1, <2>2, <2>3, <2>4 DEF TickStep
  <2> QED
    BY <2>5 DEF dbVars, envVars
<1>2. ASSUME TasksQuiet', \A j \in Issues : Waiting(j) => Waiting(j)',
             \A o \in Ops : act'[o] = act[o], TickKnows',
             \A j \in Issues : todo'[j] = "teardown" => status[j] \in Archived
      PROVE  QuietInv' /\ Legal
  <2>1. ASSUME NEW o \in Ops PROVE HandlerKnows(o)'
    <3>1. act[o].pc \in {"write", "force"} => act[o].issue \in Issues
      BY <1>0 DEF TypeInv, HandlersOK
    <3> QED
      BY <1>1, <1>2, <3>1 DEF QuietInv, HandlerKnows
  <2>2. ASSUME NEW j \in Issues PROVE IssueGood(j)'
    BY <1>0, <1>1, <1>2 DEF IssueGood, Exists
  <2> QED
    BY <1>1, <1>2, <2>1, <2>2 DEF QuietInv, TasksQuiet, Legal
<1>3. ASSUME UNCHANGED task
      PROVE  TasksQuiet' /\ \A j \in Issues : Waiting(j) => Waiting(j)'
  BY <1>1, <1>3 DEF QuietInv, TasksQuiet, TaskKnows, Live, RunsOwned, RunRow, Waiting
<1>4. ASSUME NEW i, Took(i)
      PROVE  /\ act[Tick].pc = "idle"
             /\ \A j \in Issues : todo'[j] = "teardown" => status[j] \in Archived
  BY <1>0, <1>4 DEF Took, AtA, IssueGood
<1>5. CASE TickSnapshot
  <2>1. /\ UNCHANGED <<task, todo>>
        /\ act' = [act EXCEPT ![Tick] = [IdleActor EXCEPT !.pc = "decide", !.known = running]]
    BY <1>5 DEF TickSnapshot, Turn
  <2>2. TickKnows' /\ \A o \in Ops : act'[o] = act[o]
    BY <1>0, <2>1 DEF TickKnows, IdleActor
  <2> QED
    BY <1>0, <1>2, <1>3, <2>1, <2>2 DEF IssueGood
<1>6. CASE TickDecide
  <2>1. /\ UNCHANGED task /\ act' = [act EXCEPT ![Tick] = IdleActor]
        /\ todo' = [i \in Issues |-> Decision(i, act[Tick].known)]
    BY <1>6 DEF TickDecide, Done, Turn
  <2>2. TickKnows' /\ \A o \in Ops : act'[o] = act[o]
    BY <1>0, <2>1 DEF TickKnows, IdleActor
  <2>3. ASSUME NEW j \in Issues, todo'[j] = "teardown" PROVE status[j] \in Archived
    BY <2>1, <2>3 DEF Decision, Archived
  <2> QED
    BY <1>2, <1>3, <2>1, <2>2, <2>3
<1>7. ASSUME NEW i \in Issues, TickGate(i) PROVE QuietInv' /\ Legal
  <2>1. /\ UNCHANGED task /\ Took(i)
        /\ \/ UNCHANGED act
           \/ status[i] = "PLAN_READY" /\ Enter(Tick, "none", i, "write", "WORKING")
    BY <1>7 DEF TickGate, Quiet
  <2>2. TickKnows' /\ \A o \in Ops : act'[o] = act[o]
    <3>1. CASE UNCHANGED act
      BY <1>0, <1>1, <3>1 DEF TickKnows
    <3>2. CASE ~UNCHANGED act
      <4>1. /\ act' = [act EXCEPT ![Tick] = [IdleActor EXCEPT
                         !.pc = "write", !.kind = "none", !.issue = i, !.to = "WORKING"]]
            /\ status[i] = "PLAN_READY"
        BY <1>0, <2>1, <3>2 DEF Enter, Turn
      <4>2. act'[Tick].pc = "write" /\ act'[Tick].issue = i /\ act'[Tick].to = "WORKING"
            /\ act'[Tick].kind = "none" /\ \A o \in Ops : act'[o] = act[o]
        BY <1>0, <4>1 DEF IdleActor
      <4> QED
        BY <1>1, <4>1, <4>2 DEF TickKnows
    <3> QED
      BY <3>1, <3>2
  <2> QED
    BY <1>2, <1>3, <1>4, <2>1, <2>2
<1>8. ASSUME NEW i \in Issues, TickTeardown(i) PROVE QuietInv' /\ Legal
  <2>1. /\ UNCHANGED task /\ Took(i) /\ todo[i] = "teardown"
        /\ \/ UNCHANGED act
           \/ Enter(Tick, "cleanup", i, "teardown", "FAILED")
    BY <1>8 DEF TickTeardown
  <2>2. TickKnows' /\ \A o \in Ops : act'[o] = act[o]
    <3>1. CASE UNCHANGED act
      BY <1>0, <1>1, <3>1 DEF TickKnows
    <3>2. CASE ~UNCHANGED act
      <4>1. /\ act' = [act EXCEPT ![Tick] = [IdleActor EXCEPT
                         !.pc = "teardown", !.kind = "cleanup", !.issue = i, !.to = "FAILED"]]
            /\ status[i] \in Archived
        BY <1>0, <2>1, <3>2 DEF Enter, Turn, IssueGood
      <4>2. act'[Tick].pc = "teardown" /\ act'[Tick].issue = i /\ act'[Tick].to = "FAILED"
            /\ act'[Tick].kind = "cleanup" /\ \A o \in Ops : act'[o] = act[o]
        BY <1>0, <4>1 DEF IdleActor
      <4> QED
        BY <1>1, <4>1, <4>2 DEF TickKnows
    <3> QED
      BY <3>1, <3>2
  <2> QED
    BY <1>2, <1>3, <1>4, <2>1, <2>2
<1>9. ASSUME NEW i \in Issues, NEW t \in Tasks, TickSpawn(t, i)
      PROVE  QuietInv' /\ Legal
  <2>1. /\ todo[i] = "spawn" /\ Took(i) /\ Spawn(t, i) /\ act' = act
    BY <1>9 DEF TickSpawn
  <2>2. TickKnows' /\ \A o \in Ops : act'[o] = act[o]
    BY <1>0, <1>1, <2>1 DEF TickKnows
  <2>3. daemon = "up"
    BY <2>1 DEF DownIdle
  <2>4. TasksQuiet' /\ \A j \in Issues : Waiting(j) => Waiting(j)'
    BY <1>1, <2>1, <2>3, SpawnQuiet
  <2> QED
    BY <1>2, <1>4, <2>1, <2>2, <2>4
<1> QED
  BY <1>5, <1>6, <1>7, <1>8, <1>9 DEF TickStep

\* The tick has three steps of its own left: it writes WORKING, or takes the
\* worktree of an archived issue away, on disk and then in the row.
LEMMA TickContinuesQuiet ==
  ASSUME Quiet, TypeInv, DownIdle, QuietInv, Continue(Tick)
  PROVE  QuietInv' /\ Legal
<1> DEFINE i == act[Tick].issue
<1>0. /\ act \in [Actors -> Handler] /\ Tick \in Actors /\ Tick \notin Ops
      /\ Ops \subseteq Actors /\ TickKnows
  BY PipelineAssumption DEF TypeInv, HandlersOK, Actors, QuietInv
<1>1. \/ act[Tick].pc = "write" /\ ActorWrite(Tick)
      \/ act[Tick].pc = "teardown" /\ Teardown(Tick)
      \/ act[Tick].pc = "clear" /\ ClearWorktree(Tick)
  BY <1>0 DEF Continue, ActorWrite, Teardown, ClearWorktree, AbandonCheck, DeleteIssue,
              InsertSteering, PruneOrphans, RetryRun, AtA, TickKnows
<1>2. /\ i \in Issues /\ act[Tick].to \in Status /\ IssueGood(i)
      /\ UNCHANGED <<lastPhase, openRuns, task, todo, daemon>>
  <2>1. act[Tick].pc \notin {"idle", "prune", "decide"}
    BY <1>1
  <2>2. UNCHANGED <<lastPhase, openRuns, task, todo, daemon>>
    BY <1>1 DEF ActorWrite, Teardown, ClearWorktree, dbVars, envVars
  <2> QED
    BY <1>0, <2>1, <2>2 DEF TypeInv, HandlersOK, Handler, QuietInv
<1>3. ASSUME \A j \in Issues : j # i => status'[j] = status[j], TickKnows',
             \A o \in Ops : act'[o] = act[o],
             status[i] \in Archived \cup {"PLAN_READY"}
      PROVE  ActorsQuiet'
  <2>1. ASSUME NEW o \in Ops PROVE HandlerKnows(o)'
    <3>1. HandlerKnows(o) /\ (act[o].pc \in {"write", "force"} => act[o].issue \in Issues)
      BY <1>0 DEF TypeInv, HandlersOK, QuietInv
    <3>2. act[o].pc \in {"write", "force"} =>
            status'[act[o].issue] = status[act[o].issue]
      BY <1>3, <3>1 DEF HandlerKnows, Archived
    <3> QED
      BY <1>2, <1>3, <3>1, <3>2 DEF HandlerKnows, Waiting
  <2> QED
    BY <1>3, <2>1 DEF ActorsQuiet
<1>4. ASSUME act[Tick].pc = "write", ActorWrite(Tick) PROVE QuietInv' /\ Legal
  <2>1. status[i] = "PLAN_READY" /\ act[Tick].to = "WORKING"
    BY <1>0, <1>4 DEF TickKnows
  <2>2. /\ SetStatus(i, act[Tick].to) /\ act' = [act EXCEPT ![Tick] = IdleActor]
        /\ UNCHANGED <<wtRow, wtDisk>>
    BY <1>2, <1>4 DEF ActorWrite, AtA, Done, Turn, IssueGood
  <2>3. TasksQuiet' /\ \A j \in Issues : IssueGood(j)'
    BY <1>2, <2>1, <2>2, WrittenQuiet
  <2>4. \A j \in Issues : status'[j] = IF j = i THEN "WORKING" ELSE status[j]
    BY <2>1, <2>2 DEF SetStatus, TypeInv, RowsOK
  <2>5. Legal
    BY <2>1, <2>4, LegalEdges DEF Legal
  <2>6. TickKnows' /\ \A o \in Ops : act'[o] = act[o]
    BY <1>0, <2>2 DEF TickKnows, IdleActor
  <2>7. ActorsQuiet'
    BY <1>3, <2>1, <2>4, <2>6
  <2> QED
    BY <2>3, <2>5, <2>7 DEF QuietInv, TasksQuiet, ActorsQuiet
<1>5. ASSUME act[Tick].pc = "teardown", Teardown(Tick) PROVE QuietInv' /\ Legal
  <2>1. status[i] \in Archived /\ act[Tick].kind = "cleanup"
    BY <1>0, <1>5 DEF TickKnows
  <2>2. /\ UNCHANGED <<status, wtRow>>
        /\ RemoveTree(i) \/ UNCHANGED wtDisk
        /\ \/ act' = [act EXCEPT ![Tick] = IdleActor]
           \/ act' = [act EXCEPT ![Tick] = [act[Tick] EXCEPT !.pc = "clear"]]
    BY <1>5 DEF Teardown, Move, Done, Turn, dbVars
  <2>3. TickKnows' /\ \A o \in Ops : act'[o] = act[o]
    BY <1>0, <2>1, <2>2 DEF TickKnows, IdleActor, Handler
  <2>4. ActorsQuiet'
    BY <1>3, <2>1, <2>2, <2>3
  <2>5. \A j \in Issues : status[j] \notin Archived => wtDisk'[j] = wtDisk[j]
    BY <2>1, <2>2 DEF RemoveTree, TypeInv, RowsOK
  <2>6. \A j \in Issues : IssueGood(j)'
    BY <1>2, <2>2, <2>5 DEF QuietInv, IssueGood, Exists
  <2>7. ASSUME NEW u \in Tasks PROVE TaskKnows(u)'
    <3> SUFFICES ASSUME Live(u)
                 PROVE  Knows(task[u], status[task[u].issue], wtDisk'[task[u].issue])
      BY <1>2, <2>2 DEF TaskKnows, Live
    <3>1. /\ task[u].issue \in Issues
          /\ Knows(task[u], status[task[u].issue], wtDisk[task[u].issue])
      BY DEF QuietInv, TaskKnows, TypeInv, TasksOK
    <3>2. CASE status[task[u].issue] \notin Archived
      BY <2>5, <3>1, <3>2
    <3>3. CASE status[task[u].issue] \in Archived
      BY <3>1, <3>3 DEF Knows, Held, Archived, Actionable
    <3> QED
      BY <3>2, <3>3
  <2>8. RunsOwned' /\ Legal
    BY <1>2, <2>2 DEF QuietInv, RunsOwned, RunRow, Legal
  <2> QED
    BY <2>4, <2>6, <2>7, <2>8 DEF QuietInv, ActorsQuiet
<1>6. ASSUME act[Tick].pc = "clear", ClearWorktree(Tick) PROVE QuietInv' /\ Legal
  <2>1. status[i] \in Archived /\ act[Tick].kind = "cleanup"
    BY <1>0, <1>6 DEF TickKnows
  <2>2. /\ UNCHANGED <<status, wtDisk>> /\ wtRow' = [wtRow EXCEPT ![i] = FALSE]
        /\ act' = [act EXCEPT ![Tick] = IdleActor]
    BY <1>2, <1>6, <2>1 DEF ClearWorktree, Done, Turn, IssueGood
  <2>3. TickKnows' /\ \A o \in Ops : act'[o] = act[o]
    BY <1>0, <2>2 DEF TickKnows, IdleActor
  <2>4. ActorsQuiet'
    BY <1>3, <2>1, <2>2, <2>3
  <2>5. \A j \in Issues : IssueGood(j)'
    BY <1>2, <2>1, <2>2 DEF QuietInv, IssueGood, Exists, TypeInv, RowsOK
  <2>6. TasksQuiet' /\ Legal
    BY <1>2, <2>2 DEF QuietInv, TasksQuiet, TaskKnows, Live, RunsOwned, RunRow, Legal
  <2> QED
    BY <2>4, <2>5, <2>6 DEF QuietInv, TasksQuiet, ActorsQuiet
<1> QED
  BY <1>1, <1>4, <1>5, <1>6

LEMMA QuietInit == Init => QuietInv
<1> SUFFICES ASSUME Init PROVE QuietInv
  OBVIOUS
<1>1. /\ \A t \in Tasks : task[t].pc = "idle"
      /\ \A o \in Ops : act[o].pc = "idle"
      /\ act[Tick].pc = "idle"
  BY DEF Init, IdleTask, IdleActor, Actors
<1>2. \A i \in Issues : IssueGood(i)
  BY DEF Init, IssueGood, Exists
<1> QED
  BY <1>1, <1>2 DEF QuietInv, TaskKnows, Live, HandlerKnows, TickKnows, RunsOwned, Init

LEMMA QuietNext ==
  ASSUME Quiet, TypeInv, OnePhasePerIssue, DownIdle, QuietInv, [Next]_vars
  PROVE  QuietInv' /\ Legal
<1>0. /\ act \in [Actors -> Handler] /\ Tick \in Actors /\ Tick \notin Ops
      /\ Ops \subseteq Actors /\ TickKnows /\ \A o \in Ops : HandlerKnows(o)
      /\ \A a \in Actors : a = Tick \/ a \in Ops
  BY PipelineAssumption DEF TypeInv, HandlersOK, Actors, QuietInv
<1>1. ASSUME UNCHANGED <<status, wtRow, wtDisk, lastPhase, openRuns, task, act, todo, daemon>>
      PROVE  QuietInv' /\ Legal
  BY <1>1 DEF QuietInv, TaskKnows, Live, HandlerKnows, Waiting, TickKnows, IssueGood,
              Exists, RunsOwned, RunRow, Legal
<1>2. ASSUME NEW t \in Tasks, NEW i \in Issues, RunNow(t, i)
      PROVE  QuietInv' /\ Legal
  <2>1. /\ daemon = "up" /\ Spawn(t, i)
        /\ UNCHANGED <<status, wtRow, wtDisk, lastPhase, openRuns, act, todo, daemon>>
    BY <1>2 DEF RunNow, dbVars, envVars
  <2>2. TasksQuiet' /\ \A j \in Issues : Waiting(j) => Waiting(j)'
    BY <2>1, SpawnQuiet
  <2>3. ASSUME NEW o \in Ops PROVE HandlerKnows(o)'
    <3>1. act[o].pc \in {"write", "force"} => act[o].issue \in Issues
      BY <1>0 DEF TypeInv, HandlersOK
    <3> QED
      BY <1>0, <2>1, <2>2, <3>1 DEF HandlerKnows
  <2>4. TickKnows' /\ (\A j \in Issues : IssueGood(j)') /\ Legal
    BY <2>1 DEF QuietInv, TickKnows, IssueGood, Exists, Legal
  <2> QED
    BY <2>2, <2>3, <2>4 DEF QuietInv, TasksQuiet
<1>3. CASE Crash
  <2>1. /\ \A a \in Actors : act'[a] = IdleActor
        /\ task' = [t \in Tasks |-> IdleTask] /\ todo' = [i \in Issues |-> "none"]
        /\ daemon' = "down" /\ UNCHANGED <<status, wtRow, wtDisk, lastPhase, openRuns>>
    BY <1>0, <1>3 DEF Crash, AtA, TickKnows, HandlerKnows, dbVars
  <2> QED
    BY <1>0, <2>1 DEF QuietInv, TaskKnows, Live, IdleTask, IdleActor, HandlerKnows,
                      TickKnows, IssueGood, Exists, RunsOwned, Legal
<1>4. CASE Restart \/ Recovered
  <2>1. /\ UNCHANGED <<status, wtRow, wtDisk, lastPhase, openRuns, task, act, todo>>
        /\ daemon' = "recovering" \/ openRuns = {}
    BY <1>4 DEF Restart, Recovered, dbVars, memVars
  <2> QED
    BY <2>1 DEF QuietInv, TaskKnows, Live, HandlerKnows, Waiting, TickKnows, IssueGood,
                Exists, RunsOwned, Legal
<1>5. CASE RecoverRun
  <2>1. /\ daemon = "recovering" /\ daemon' = daemon
        /\ UNCHANGED <<wtRow, lastPhase, wtDisk, task, act, todo>>
    BY <1>5 DEF RecoverRun, memVars, envVars
  <2>2. \A j \in Issues : \/ status'[j] = status[j]
                          \/ status[j] \in Actionable /\ status'[j] = "FAILED"
    BY <1>5 DEF RecoverRun, TypeInv, RowsOK
  <2>3. /\ \A t \in Tasks : ~Live(t)
        /\ act[Tick].pc = "idle" /\ \A o \in Ops : act[o].pc = "idle"
    BY <1>0, <2>1 DEF DownIdle, TickKnows, HandlerKnows
  <2>4. \A j \in Issues : IssueGood(j)'
    BY <2>1, <2>2 DEF QuietInv, IssueGood, Exists, Archived, Actionable
  <2>5. Legal
    BY <2>2, LegalEdges DEF Legal
  <2> QED
    BY <2>1, <2>3, <2>4, <2>5 DEF QuietInv, TaskKnows, Live, HandlerKnows, TickKnows,
                                  RunsOwned
<1>6. ASSUME NEW i \in Issues, ConsumeSteering(i)
      PROVE  UNCHANGED <<status, wtRow, wtDisk, lastPhase, openRuns, task, act, todo, daemon>>
  BY <1>6 DEF ConsumeSteering, memVars, envVars
<1>7. CASE UNCHANGED vars
  BY <1>1, <1>7 DEF vars, dbVars, memVars, envVars
<1>8. ASSUME NEW a \in Actors, Continue(a) PROVE QuietInv' /\ Legal
  BY <1>0, <1>8, HandlerQuiet, TickContinuesQuiet
<1> QED
  BY <1>1, <1>2, <1>3, <1>4, <1>5, <1>6, <1>7, <1>8, TaskStepQuiet, CommandQuiet,
     TickStepQuiet DEF Next

LEMMA QuietAlways == ASSUME Quiet PROVE Spec => [](TypeInv /\ QuietInv) /\ [][Legal]_vars
<1>1. Init => TypeInv /\ OnePhasePerIssue /\ DownIdle /\ QuietInv
  BY TypeInvInit, QuietInit DEF Init, OnePhasePerIssue, Live, IdleTask, DownIdle
<1>2. TypeInv /\ OnePhasePerIssue /\ DownIdle /\ QuietInv /\ [Next]_vars
        => (TypeInv /\ OnePhasePerIssue /\ DownIdle /\ QuietInv)' /\ [Legal]_vars
  BY TypeInvNext, OnePhaseNext, DownIdleNext, QuietNext
<1> QED
  BY <1>1, <1>2, PTL DEF Spec

\* NoStrayRun: with the quiet commands, every path through execute() closes the
\* run it opened, a crash at any await included, once recovery is through.
THEOREM RunsAreClosed == ASSUME Quiet PROVE Spec => []NoStrayRun
<1>1. TypeInv /\ QuietInv => NoStrayRun
  <2> SUFFICES ASSUME TypeInv, QuietInv, daemon = "up", NEW r \in openRuns
               PROVE  Live(r.slot) /\ RunRow(r.slot) = r
    BY DEF NoStrayRun
  <2> QED
    BY DEF QuietInv, RunsOwned, Live, OpenPC, InRun
<1> QED
  BY <1>1, QuietAlways, PTL

\* AgentRunsInCheckout: with the quiet commands, the tick takes a worktree away
\* only when no phase of its issue can start again, and every recorded path of
\* a live issue leads to a checkout, across crashes.
THEOREM AgentsHaveCheckout == ASSUME Quiet PROVE Spec => []AgentRunsInCheckout
<1>1. QuietInv => AgentRunsInCheckout
  BY DEF QuietInv, TaskKnows, Knows, Live, At, AgentRunsInCheckout
<1> QED
  BY <1>1, QuietAlways, PTL

\* LegalStatusSteps: with the quiet commands, whatever execute(), a handler, the
\* tick or recovery checked before an await still holds when it writes.
THEOREM StatusStepsAreLegal == ASSUME Quiet PROVE Spec => LegalStatusSteps
BY QuietAlways, PTL DEF LegalStatusSteps, Legal
=============================================================================
