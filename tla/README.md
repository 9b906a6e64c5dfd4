# auwsx: TLA+ models, model checking and proofs

auwsx is a daemon that drives software issues through a fixed pipeline of agent
phases (plan, work, review, audit, merge). It keeps its state in SQLite, runs one
agent subprocess per phase in a git worktree of the issue, and is steered over a
Unix socket by a TUI and a CLI. Everything runs as tokio tasks of one process;
there are no database transactions across an `await` and almost no locks. What can
go wrong is seldom in one function: it is in what happens between two `await`s of
one task while another task, a tick, an operator or a crash gets in. That is what
these modules model.

Paths below are relative to `src/crates/auwsx-core/src/` unless they name another
crate; documents are relative to `src/` or `src/knowledge/domain/`.

## 1. Inventory

### Components, their state and their operations

| Component | Source | State | Operations | Module |
|---|---|---|---|---|
| Issue state machine | `state.rs` | none | `scheduler_class`, `is_legal_transition`, `accepts_queue_message` | `IssueStatus` |
| Phase pipeline | `pipeline.rs` | issue row, run row, checkout | `execute`: reload, worktree, run start, agent, replay, rework, failure paths | `IssuePipeline` |
| Running set and issue commands | `scheduler.rs`, `ipc.rs` | `Scheduler.running` | run now, retry, approve, abandon, cleanup, remove, set status, queue messages | `IssuePipeline`, `ProjectTick` |
| Crash recovery | `scheduler.rs:1565-1677` | open rows of the last daemon | `recover_open_issue_runs`, `recover_open_main_jobs` | `IssuePipeline`, `MainJobs` |
| Queue messages | `steering.rs` | `issue_steering` rows, pending flag | `add`, `consume_ids`, `consume_all` | `IssuePipeline` |
| Issue rows | `db/issues.rs` | `issues` | `transition`, `force_status`, compare-and-set, `remove` with its cascade | `IssuePipeline`, `RemoteSync`, `LocalMerge` |
| Worktree adapter | `worktree.rs` | git checkouts | create, remove, prune | `IssuePipeline`, `LocalMerge` |
| Tick decisions and gates | `scheduler.rs:64-145, 431-597, 1680-1720` | the tick's snapshot, `wait_until` | `decide`, `service_soft_gate` | `ProjectTick` |
| Remote sync | `remote_workflow.rs`, `remote_executor.rs`, `remote_plan.rs`, `db/remote.rs` | sync rows, issue and pull request links | queue, claim, execute, observe | `RemoteSync` |
| Inbound webhooks | `remote_inbound.rs` | event rows | record, make an item, link, mark | `RemoteSync` |
| Backlog and routing | `backlog.rs`, `routing.rs` | items, route lock row | add, approve, dismiss, route (tick), run now, triage | `BacklogRouting`, abstractly `Intake` |
| Main jobs and routines | `main_jobs.rs`, `main_job_runner.rs`, `routines.rs` | job rows, run rows, `running_routines` | four launchers, `execute_routine`, recovery | `MainJobs` |
| Schedule cadence | `schedule.rs`, the loop of `scheduler.rs` | `schedule_cron`, `scheduler_runs` | normalize, parse, `next_after`, `is_due`, countdown | `Cadence` |
| Local merge | `local_merge.rs`, `ipc.rs` apply-merge | the user's checkout, the stash | stash, merge, conflict, pop, clean up | `LocalMerge` |
| Control outbox | `control_outbox.rs`, `issue_control.rs` | a JSONL file per run | record, validate, replay | `ControlOutbox`, replay in `LocalMerge` |
| Reconcile | `reconcile.rs`, `scheduler.rs:917-1160` | none beyond issues and jobs | diagnose, ask an agent, validate and apply its proposals | `Reconcile`, `LocalMerge`, `MainJobs` |
| Configuration rows | `ipc.rs`, `db/projects.rs`, `db/arsenal.rs`, `db/profiles.rs`, `db/memory_presets.rs`, `db/global_settings.rs`, `db/remote.rs` | projects, presets, profiles, settings | create, update, move, remove, resolution of commands | `ConfigRows` |
| Console | `auwsx-tui/src/app.rs`, `ui/vm.rs` | copies of rows, tree, board, cursor | keys, refreshes, reaction to events | `ConsoleView`, `Console` |
| Console forms | `auwsx-tui/src/app.rs` | one open form | open, move, edit, submit | `ConsoleForms` |
| Events | `events.rs`, `ipc.rs` subscribe | broadcast channel | publish, lag, end of stream | `Console` |
| IPC server | `ipc.rs` | none | one handler per command | the handlers that change rows, spread over the modules |
| Agent subprocess | `agent/` | child process, log | spawn, wait, kill at timeout | outcomes only |
| Memory, prompts, artifacts, setup | `memory.rs`, `prompt.rs`, ... | files | text | no |
| Rendering, CLI parsing, web | `auwsx-tui/src/ui`, `cli.rs`, `auwsx-web` | none of their own | draw, parse, forward | start order of the daemon only |

### How they interact

* **Shared state.** All components meet in SQLite rows. Only `Scheduler.running`
  (issues with a phase task), `running_routines` and the per-project tick guard are
  in memory and atomic; they vanish with the process.
* **Calls.** The heartbeat calls `tick_project`: route approved backlog, execute and
  queue remote syncs, observe pull requests, `decide()`, then carry the decisions
  out one by one. `spawn_phase` starts a task that runs `pipeline::execute`, whose
  agent leaves commands in an outbox the daemon replays through the IPC handlers.
* **Operators** call the same functions from handler tasks at any time, mostly
  through the console, which decides on copies of rows it refreshes on events and
  every five seconds.
* **The environment**: agents (any declared status, any exit, killed at a timeout),
  the git provider (pull requests opened, closed, merged by people), webhook
  deliveries that may be sent again, clients that start a dead daemon again.

### What is hard, and what makes each component correct

* *Pipeline.* `transition` is a read, a check and a later unconditional write. Two
  phases must never work on one issue; a run row must be closed by whoever opened
  it, or by recovery; an agent must find its checkout; guidance that arrives late
  must survive; a phase must not repeat itself for good; nothing may come back
  after an issue is deleted.
* *Tick.* It decides from a running set copied before minutes of routing and
  syncing: the cap, the single merge lane and the gates must hold nevertheless.
* *Remote sync.* Each provider call has an effect before its result is recorded:
  crashes and repeated approvals must not create things twice, and DONE must mean
  merged.
* *Routing.* An agent judges candidates that may be gone when it answers, a lock
  row outlives its holder, ids are reused: no item may become work unapproved, be
  in two issues or be lost.
* *Main jobs.* Two rows per job written by one task, repaired by another process:
  verdicts once, no orphan RUNNING row, no routine twice, nothing blocked for ever.
* *Local merge, outbox, reconcile.* A merge runs in the worktree the user works in;
  git, the rows and the user move between any two of its commands, and it may stop
  after each. Nobody's uncommitted changes or commits may be lost, and DONE must
  mean merged, also for issues that reconciliation repairs from a diagnosis that
  has aged.
* *Cadence.* Text is normalized by the console and again by the daemon; the loop
  decides by a project row and a run row that may both be stale. Every occurrence
  must be answered once, and what was accepted must be evaluable.
* *Console.* The cursor is an index into rows that come and go; a form outlives the
  place it was opened at. Commands must go to what the user chose, a refused draft
  must survive, untouched columns must keep their values, and the screen must come
  back to the rows after lost events.

`PROJECT.json` lists the hazards one by one with the line where each bites and the
properties that would notice.

## 2. Modules

`IssueStatus` is constant-level and extended by the modules that speak of
statuses. Each component module stands alone: it takes what the others do to its
state as actions of the environment (for instance, legal status steps in
`BacklogRouting`, `Ready` and `Rework` in `RemoteSync`, `PhaseEndsDone` in
`MainJobs`, `Others` in `ConsoleForms`). `LocalMerge` composes three: the phase and
the handlers that merge, `ControlOutbox` for what agents leave and `Reconcile` for
what is made of the leftovers. `Console` and `ConsoleForms` divide the TUI by its own
modality: an open form takes every key.

| Module | Models | State | Steps |
|---|---|---|---|
| `IssueStatus` | the status machine | none | none |
| `IssuePipeline` | phase tasks, handlers, tick, crash, recovery of one project, one step per stretch between two awaits | rows (`status`, `wtRow`, `queued`, `openRuns`, `lastPhase`), disk (`wtDisk`), memory (`running`, `task`, `act`, `todo`) | `Task...` for `execute`, one command per handler and `Continue` for its rest, `Tick...`, `Crash`, `RecoverRun` |
| `ProjectTick` | several issues, the cap, the merge lane, the gates and minutes | `status`, `wait`, `phase`, the tick's snapshot, `todo`, a history of minutes | the tick step by step; a phase as start, declaration, end; each operator command in one step |
| `ControlOutbox` | which commands an agent's outbox records, which files replay accepts | none | none |
| `Reconcile` | diagnosis of one issue, proposed action, validation of a proposal | none | none |
| `LocalMerge` | merges of a project in local mode | rows, refs, removed issues and deleted branches, the primary worktree with its stash, phases, appliers, the reconciler | one step per git command or write of `apply_issue_merge`, replay command by command, diagnosis and application, operators' commands with cleanup, abandon and remove, the user's edits, commits, squashes, crash |
| `RemoteSync` | sync rows, links, provider, webhooks | rows, what each actor read, provider state | queueing as check and insert, `TickClaim`/`Call`/`Store`/`Finish`, `TickLook`/`Update`/`Mark`, deliveries, people |
| `Intake` | what intake promises, whoever routes | gate and place of an item, door of an issue | file, judge, place, return, work |
| `BacklogRouting` | the three routers with their lock, the agent's late answer, removal | items, issues, lock row, what each actor read | `List`, `Candidates`, `AgentAnswers`, `Recheck`, `Create`, `Attach`, `DismissConsumed`, `DeleteIssue`, `LockAges` |
| `MainJobs` | the lane of jobs in the repository itself | job and run rows, tasks, guard, `running_routines` | four launchers, one step per call of `execute_routine`, recovery row by row |
| `Cadence` | the schedule text of a project and the loop that obeys it | the stored cadence, the loop's reading, run rows, clock | set the schedule, start a pass, decide, end a tick, tick by hand, fail, restart |
| `ConfigRows` | tables of configuration and every command on them | none: each command is an operator from tables to the tables it may lead to | none |
| `ConsoleForms` | the forms, on top of `ConfigRows` | the daemon's rows, the console's copies, place, form | open, navigate, type or choose, submit, lost answer, refresh, other clients |
| `ConsoleView` | the console's copies and what is made of them: tree, board, cursor, keys | none | none |
| `Console` | the console's loop beside the daemon | `ui`, the daemon's rows, undelivered events, session | one step per key, event or poll; the daemon changes rows, loses events, ends the stream |
| `MC...` | instances for TLC and the documented statement that fails | | |
| `...Proofs` | theorems and their lemmas | | |

A handler's in-memory locals are in its record (`act`, `actor`, `worker`): what it
read before an await is what it uses after it. A step that in the code is one
synchronous stretch or one SQL statement is one action.

Abstractions worth knowing:

* In `IssuePipeline` an agent's outbox replays one declared status, or an error;
  `LocalMerge` replays it command by command.
* File contents in `LocalMerge` are paths: dirty or not, and whose the change is. A
  branch is merged, or has HEAD's tree, or touches paths HEAD has changed since.
* Once an issue's branch is deleted (`dropped`), the one a later spawn makes is empty, as
  the code makes it off the default branch (`worktree.rs:312-336`), and stays so: the
  module has the merge lane only, where agents merge and add no work of their own. A
  leftover branch would be put aside under `auwsx/orphaned/`; an issue with a row leaves
  none, because its recorded checkout and its branch go together.
* A removed issue (`gone`) reads as ABANDONED in `LocalMerge`, and `remove_project` is the
  removal of each of its issues. The prune on the command line is in `IssuePipeline`.
* `Cadence` keeps the arithmetic of the calendar and makes its sizes and the date of
  each day parameters, so that a run sees months of unequal length; dates repeat after
  `Cycle` days (four years, century years aside), local time has no gaps, and the scan
  of `next_after` ends after `ScanMinutes`, as in the code.
* A row of `ConfigRows` is a function from columns to texts of small sets; the
  case-insensitive match of names is a parameter of the instance, and so is a text's
  normal form: what is stored after the client's and the daemon's normalization. So is
  what a text is without the blanks around it (`Trimmed`), which `Form::get`, the
  daemon's validations and some of its columns take it for. NULL and `''` are both
  `Blank`, as nearly all columns treat them; in a preset's review command, where they
  differ, `''` is one of the texts that are only blank when trimmed.
* `decide()` of `ProjectTick` is stated as the set of decisions it returns, not as the
  loop that collects them: slots go to candidates in the loop's order, and at most one
  merge is a candidate in local mode.
* The lists of the console are stated by what they hold and in which order (`Sorted`,
  `Only`), not by how they are sorted and filtered.
* A key of the console, with all the requests its handler awaits, is one step, as in
  the code, where one loop handles it to the end. Only `AskProject` waits for an
  agent there, and the console does nothing else meanwhile.
* `wtDisk[i]` says git has a live checkout of the issue's branch; the git commands
  behind create, remove and prune are effects on it.
* Statuses in `RemoteSync` are the four that remote sync tells apart, and DONE is written
  by the observation of a merge only: an agent or operator who declares DONE is left to
  `IssuePipeline` and `LocalMerge`.
* `Approve` and `Retry` of `IssuePipeline` fold the look at the running set and the read
  of the status, which the code makes one after the other, into one step.
* Rows nobody reads any more (ended sync rows, ended and closed jobs) are left out
  or forgotten, so the models run for ever on finitely many ids.
* In `MainJobs` whether a schedule is due is a boolean that the environment sets.
* Database errors other than those the code provokes itself (a deleted routine, a
  unique index, a foreign key) are not modelled.

## 3. What is checked

Every passing run reaches its full state space (TLC terminates) and fires every
action between them; every property of a passing run is broken by at least one
plausible change of the code (the definitions marked `Mutant` beside the faithful
ones, see `PROJECT.json`).

| Run | Asks | Bounds |
|---|---|---|
| `pipeline_recovery` | no doubled phase, every run row has its task, agents find their checkout, status changes follow the matrix, guidance survives | one issue, two task slots, one handler that runs, retries, approves, sends and consumes messages, one message, one crash |
| `pipeline_progress` | a deleted issue leaves nothing; no issue stays in an actionable status | one issue, one slot, one handler that retries, cleans up, prunes, abandons, removes, sets and forces statuses, automatic completion, one crash |
| `tick` | cap, one merge at a time, oldest merge served, a plan gate opens, and not before its time | two issues; a gate of two minutes with local merges under automatic completion, soft completion of one minute with cap 1, and PR mode |
| `remote_safety` | one remote issue that the daemon heard of, one item per delivery | one issue, a handler, two remote numbers, one delivery, one pull request, calls that fail before or after their effect, one crash at any await |
| `remote_progress` | DONE means merged; queued rows are executed, merges are found | two pull requests one after the other, one remote number, calls that fail before or after their effect, one crash |
| `remote_merge_unnoticed` | (violation) a merged pull request makes the issue DONE | one pull request, no crash |
| `backlog_routing` | routing implements `Intake`; issues have sources; approved items are routed | two items, three issue ids, the tick and one handler, two operator requests, one crash |
| `main_jobs` | a routine once at a time, RUNNING rows have tasks, verdicts written once, deepsleep is served | one routine, three rows, two tasks, two operator commands, one fault |
| `local_merge` | the user's uncommitted changes are in the tree or the stash; an issue the daemon took to DONE is in HEAD unless its branch was given up before; no branch is deleted with its work unless someone decided so; a replay works on the phase it was written for | two issues whose branches touch one file, seven outboxes, one handler that also cleans up, abandons and removes, five proposals, two acts of user and operators, one crash |
| `cadence` | an accepted cadence has its next occurrence within the scan unless it names a day no month has, the countdown agrees with the loop, every automatic run answers a new occurrence, every occurrence is answered | hours of 4 minutes, days of 2 hours, months of 3 and of 2 days, weeks of 2, a scan of 56 minutes (a cycle and a week), a clock that starts at 7 half-minutes and ends at 16, past an hour and at a midnight, sixteen typed texts, one of them for a third day of the short month, two commands, one fault |
| `console` | the cursor and the open issue stay on the chosen issue, the log is the open issue's, the screen converges to the rows | two projects, two issues, a backlog item, three keys, two changes, a channel of one event |
| `forms` | projects run resolved commands, a form edits the row it was opened on, refused drafts stay, untouched columns keep their values | two projects, two profiles, three presets, one edit, one submission, one foreign change of seventeen (among them texts with blanks around them and blank commands), one lost answer |

**Why the bounds are enough for what the runs ask.** Interference in this code is
between *two* actors on *one* object: two slots suffice for a phase that should
not have started, one handler beside the tick and a task for every three-way race,
one message for one that arrives too late, one crash because recovery reads only
rows and a second crash during recovery starts it again from a subset of them.
In `tick` one issue holds the lane or the slot and another competes for it, which is
all the cap of 1 and the lane can be violated with. Two items suffice for a batch
that is aborted before its second item and for two items in one issue; three issue
ids allow a reused one beside a live one. Two pull requests suffice for a link that
is overtaken. Two tasks and three rows let a job run beside a launcher while an
orphan row is left over. Two branches that touch one file are the least that
conflict. The calendar is small enough to see every field of a cron text match and
not match, and the clock crosses the midnight before the day that only the long month has.
One submission, one change by another client and one lost
answer are one conflict of two writers; three keys open an issue, move away and act.

**Named bounds.** `MaxCrashes`, `MaxRequests`, `MaxFaults`, `MaxPrs`, `Budget`,
`Horizon`, `MaxAsked`, `MaxKeys`, `MaxChanges`, `MaxEdits`, `MaxSubmits`,
`MaxOthers`, `MaxLost`, `Entered` (the values given to fields), `Rests` (what a
displaced cursor is followed to), `Limit` (this one is the code's own: sync rows per
tick) and the `OpKinds` and `UserActs` of an instance. They guard the environment's
actions only; the daemon's own steps are never cut off, except that a deepsleep is
spawned only while the instance has a task left. `CHECK_DEADLOCK FALSE` is set where
the system may really stop: a console that was quit or whose user is done, and a
project all of whose merges have ended.

**Quiet and rough commands.** The commands are split because some properties hold
only for commands that respect both the running set and the matrix. In
`pipeline_recovery` one handler runs at a time. With two handlers that write
statuses at once, or with abandon, prune or forced statuses, `LegalStatusSteps`,
`NoStrayRun` and `AgentRunsInCheckout` fail: section 6 says how.
`pipeline_progress` has those commands, and asks what survives them. Section 4 proves the
three for any instance with quiet commands.

**Fairness.** All of it is on steps the daemon owes:

* weak fairness of the tick's steps: the heartbeat (`scheduler.rs:373-392`) ticks
  for ever. This is about projects with a schedule that comes due again and again: the
  heartbeat skips a manual project and one that is not due (`scheduler.rs:397`), so that
  in those nothing moves before an operator asks. It also assumes that `gh` returns: a
  tick awaits it and `run_gh` has no timeout (`remote_executor.rs:642`), so one call that
  hangs holds up every later tick. Agents that a tick asks do have one;
* weak fairness of each phase task, job task and started handler: tokio runs what
  is spawned, and agents are killed at their timeout (section 6 names the one
  exception, an agent that never reads its prompt);
* weak fairness of restart and recovery: the next command or console starts a dead
  daemon (`ensure_daemon`, `auwsx-tui/src/cli.rs:923`) and recovery runs before
  anything else (`auwsx-tui/src/cli.rs:829-850`). While nobody uses the program,
  nothing restarts it;
* weak fairness of the loop of `Cadence` (`LoopStarts`, `LoopDecides`, `TickEnds`): its
  interval fires again after every pass, and a pass ends if its calls of `gh` do;
* weak fairness of the console's `Poll`: its loop has a five-second interval beside
  keys and events (nothing is asked of the event stream);
* weak fairness of the passing of time (`Minute`, `LockAges`);
* strong fairness of one action only: `TickLook` of an issue, since a provider that
  is asked on every tick answers some day, though it may fail any number of times.

Operators, people on the provider's side, webhooks, crashes, agents' choices and
the schedule owe nothing. `BacklogRouting`'s operator requests are finite:
otherwise run-now commands could keep the route lock busy for ever. Liveness is
stated as `[]<>` of a state that must come back, or as a leads-to.

## 4. What is proved

`tlapm` checks the following for every value of the constants (any number of
issues, tasks, handlers, items, pull requests, crashes...), from the named ASSUME
of each component alone, except for the three theorems that say `Quiet`.

| Module | Theorem | States |
|---|---|---|
| `IssuePipelineProofs` | `TypeCorrect` | `[]TypeOK` |
| | `OnePhase` | `[]OnePhasePerIssue` |
| | `RunStaysOpen` | `[]PhaseOwnsOpenRun` |
| | `RemovalFinal` | `[]RemovedLeavesNothing` |
| | `GuidanceOutlivesPhase` | `NoGuidanceDropped` (action property) |
| | `RunsAreClosed` | `Quiet` implies `[]NoStrayRun` |
| | `AgentsHaveCheckout` | `Quiet` implies `[]AgentRunsInCheckout` |
| | `StatusStepsAreLegal` | `Quiet` implies `LegalStatusSteps` (action property) |
| `RemoteSyncProofs` | `RemoteTypeCorrect` | `[]TypeOK` |
| | `DoneMeansMerged` | `[]DoneOnlyIfMerged` |
| | `DoneLeavesReady` | `DoneFromReady` (action property) |
| | `DeliveryMakesOneItem` | `[]DeliveryOnce` |
| | `OneRemoteIssue` | `[]RemoteIssueOnce` |
| `BacklogRoutingProofs` | `BacklogTypeCorrect` | `[]TypeOK` |
| | `RoutingImplementsIntake` | `IntakePromise`: refinement of `Intake` |
| | `JoinsOnlyOpenIssues` | `JoinsOpenIssue` (action property) |
| | `IssuesHaveSources` | `[]EveryIssueHasSource` |
| `MainJobsProofs` | `LaneTypeCorrect` | `[]TypeOK` |
| | `RoutineRunsOnce` | `[]RoutineOnce` |
| | `RunningHasTask` | `[]RunningIsAttended` |
| | `ReconcilesOnce` | `[]OneReconcile` |
| | `VerdictsAreKept` | `VerdictKept` (action property) |
| `LocalMergeProofs` | `LocalMergeTypeCorrect` | `[]TypeOK` |
| | `UncommittedKept` | `[]UserChangesKept` |
| | `DoneWorkInHead` | `[]DoneIsMerged` |
| | `BranchesKept` | `NoWorkLost` (action property) |
| | `OutboxInPhase` | `AgentStaysInPhase` (action property) |
| `SchedulerProofs` | `TickTypeCorrect` | `[]TypeOK` of `ProjectTick` |
| | `CapIsRespected` | `[]CapRespected` |
| | `MergesAreSerial` | `[]OneMergeAtATime` |
| | `GatesGiveFullTime` | `FullGate` (action property) |
| | `StoredIsNormal` | `[]StoredIsFinal` (these four of `Cadence`, of `LoopSpec`) |
| | `StoredHasOccurrence` | `[]StoredCadenceRuns` |
| | `CountdownIsRight` | `[]CountdownTellsDue` |
| | `RunsAnswer` | `RunsAnswerOccurrences` (action property) |
| `ConsoleFormsProofs` | `FormsTypeCorrect` | `[]TypeOK` |
| | `CommandsAreResolved` | `[]CommandsResolved` |
| | `OnlyTheirRow` | `EditsTheirRow` (action property) |
| | `DraftsAreKept` | `DraftKept` (action property) |
| | `UntouchedIsKept` | `UntouchedKept` (action property) |
| `ConsoleProofs` | `ConsoleTypeCorrect` | `[]TypeOK` |
| | `RunsShown` | `[]RunsOfOpenIssue` |
| | `DetailKept` | `DetailKeepsIssue` (action property) |
| | `CursorFollows` | `CursorFollowsIssue` (action property) |

**IssuePipeline.** `TypeOK` is not inductive: a task's `issue` may be `NoIssue` by
its type, and then every write to its issue would leave the type. `TypeInv` adds
that a live task and a busy handler name an issue. `OnePhasePerIssue` is inductive
on top of it, because the mutual exclusion rests on one critical section (the
check-and-insert of `spawn_phase`) and on the set being exactly the issues of live
tasks, which is why the second conjunct is part of the property. For
`PhaseOwnsOpenRun` one needs that only the task itself finishes its row
(`KeepsRun`, step by step through `execute`), and that recovery meets no live task
(`DownIdle`: while the daemon is down or recovering nothing is in progress).
`RemovedLeavesNothing` follows from `RowsKept`: no step but the deletion itself
takes an issue away, and none adds to one that is gone.

`NoGuidanceDropped` needs one fact about the handlers, that the tick never gets as far
as deleting an issue (`TickKeepsIssues`); everything else is the comparison of each
step's `queued` with the messages its phase has `seen`.

`NoStrayRun`, `AgentRunsInCheckout` and `LegalStatusSteps` are not true of every
instance: section 6 lists the commands that break them. Their theorems assume `Quiet`,
which is what `pipeline_recovery` admits: run-now, retry, approve and the queue's
commands, one handler at a time, and no approval by the tick itself; issues, tasks,
messages and crashes are as many as one likes. One invariant, `QuietInv`, carries all
three. It says of each stretch between two awaits that what was read before is still
so when it is written: a task's status is the one it started with from the checkout to
the write (`Knows`), an approval or a retry finds its issue READY_TO_MERGE or FAILED
with no phase past its first look (`HandlerKnows`, `Waiting`), the tick finds
PLAN_READY or an archived issue (`TickKnows`). These statuses are disjoint, and that
is the whole reason why unconditional writes do no harm here. With two handlers, or
with a command outside `Quiet`, two writers may hold one status, and the proof stops
at the step where the runs of section 6 do.

**RemoteSync.** `DoneOnlyIfMerged` speaks of what the tick *read* and of what the
provider *is*. `MergeInv` therefore says that everything read is honest (a pull
request that was read as merged is merged, for a merged one stays so), that the
tick's local list and row never name an issue that is DONE and whose link it could
overwrite (`TickSparesDone`), and that DONE issues link a merged pull request
(`DoneLinked`). Honesty of the late write is the heart: the write uses the state
read before the await. `DeliveryOnce` rests on `DeliveryStages`: until the row of a
delivery is there it has neither handler nor item, and the handler that is about to
add one is the first. `RemoteIssueOnce` counts the remote issues the daemon heard of:
not those opened by a call that then failed, or whose answer a crash took (`unheard`,
a history variable; section 6 says what becomes of them). `LinkInv` says that a link row
belongs to the issue its remote issue was opened for, and that an issue has one; that
while the tick creates, its issue is not linked; and that every remote issue opened for
an issue is linked to it, about to be recorded, unheard, or taken over by a delivery.

**BacklogRouting.** `IntakeInv` says that everything in an actor's locals has passed
the admission gate, however long ago it was read (`Admits`). With it each step maps
to a step of `Intake` or a stutter: the creation or the attachment is `Place`, the
deletion `Return`, `DismissConsumed` and `SetApproval` are `Judge`, and all waiting
and locking stutter. The door of an issue is its status: absent, open while it
accepts messages, closed otherwise (`Doors`), and a step that opens or closes it is
`Work`; so a join to an issue that has closed meanwhile would not be a step of
`Intake`. Since `Intake` has no idea of actors, this is the statement
that locks, agents and crashes do not matter to intake. Intake lets a *dismissed*
item be placed because the code does (section 6).

**MainJobs.** `LaneInv` relates three records of one job: where its task is, what
its row says and what its run row says (`OwnRow`, by the call the task is about to
make), plus what is known of rows without a task (`LooseRow`), that two tasks never
hold one row (`OneTask`), who may hold the guard (`Shape`), and that between the
reconcile question and the INSERT there is no reconcile job (`ReconcileAlone`).
`RunningIsAttended` alone is not inductive: a crash makes it vacuous and `Boot`
must re-establish it from the rows recovery left. `VerdictKept` needs `OwnRow`: at
`finish` the row is RUNNING, although `main_jobs::finish` does not look.

**LocalMerge.** `MergeInv` is a conjunction over the actors, each part about what the
actor knows and what is true by now. `RepoGood` says where every uncommitted path of the
user is, and that after a failed pop the top entry of the stash is contained in the
files (`PopOpen`): otherwise dropping that entry once the files are resolved would lose
it. `ApplyGood`, `PhaseGood` and `RecGood` say what a merge, a replay and a
reconciliation have established when they reach a write. All of them survive whatever
others do because HEAD only gains work (`Gains`, lemma `RepoNext`, from one lemma per
git command); that is the argument, and no step depends on how many files, issues or
handlers there are. `DoneGood` also covers `last`, the status a retry may bring back.

What an actor has established is kept as `Held`: the work is in HEAD, or was deleted with
its branch, which no spawn brings back (lemma `HeldNext`). So `DoneWorkInHead` excepts
issues whose branch was deleted before, and `BranchesKept` says who may delete one that
still holds work: a teardown or a reconciliation under the conditions they check, and
the handler of an operator who asked for a cleanup, an abandon or a removal. `GoneGood`
says that a branch no row names is left of a removed issue only, which is why the prune
at the start of a reconciliation takes no other.

**ProjectTick.** `decide()` walks the issues in order and takes a slot for each it
picks. The module states its result by sets (which issues are candidates, how many slots
are left, which merge goes first), and lemmas say of it what the proof uses: it picks
issues that are not in the snapshot, no more than the slots, and at most one merge when
the lane is free. The invariant then bridges the time between the snapshot and the
spawns. `SnapshotGood`: nothing that runs is missing in the snapshot unless a human
started it. `CapGood`: what runs and what is yet to be spawned are within the cap
together; `LaneGood` says so of the merge lane. `PhasesGood`: only a human changes an
issue between its choice and its start. `CapRespected` and `OneMergeAtATime` leave out
issues somebody ran by hand, because the code does. `FullGate` needs `GatesGood`: the
minutes a human has had and those still on the clock add up to the gate.

**Cadence.** `StoredIsFinal` (normalizing what is stored changes nothing and refuses
nothing) comes from a lemma about the two normalizations a text goes through, by cases on
its kind; the rest reads `Normalize` no more. `CadenceInv` says of a tick that holds the
guard that its cadence had come due when it was decided, and carries that across the
moments at which the project, the clock and the last run were read. That `NextAfter` is
the *next* occurrence is a lemma about least elements of sets of numbers.

`StoredHasOccurrence` says of every cron a project may store that the scan finds an
occurrence from any moment on exactly if its day exists. One direction reads the day off
the occurrence. For the other, a cron the parser accepted has in each field a value in
range, except that a day of the month may be missing from the months that are named; so
it suffices to find a day. A named date comes round within a cycle (a remainder does,
lemma about `%`), a day of the week within any month, since every month holds a whole
week, and on that day the hour and the minute are there; the sum of the three distances
is within `(Cycle + WeekDays)` days. That is what `DatesAssumption` asks of the scan, and
the code's scan, five years of 366 days, is longer than four years and a week.

**ConsoleForms.** `TypeOK` is the inductive invariant here, and the part that matters is
not the types: `RowsOK` says that the tables hold together (cadences are normal forms,
and every command a project and a preset must give is there), `FormOK` that an open form
shows, in each field the user has not changed, what its row held when it was opened.
`CommandsResolved` follows from the first since `validate_agent_source` and the
resolution in `PROJECT_SELECT` agree, but for two commands that may be blank: one of the
role `review`, and a project's own one that stands before its preset's. The action
properties follow from the second part and from lemmas that say which rows each command
may write and what trimming (`Got`, `Stored`) leaves of a text. The theorems assume of an instance
that the first tables are such tables and that commands carry the columns `ipc.rs`
declares for them (`FormsAssumption`); TLC evaluates both for the instance of `forms`.

**Console.** Each handler chains refreshes that each ask where the cursor is by then, so
a proof about a handler is one about the fields each refresh may touch (`Same`). The
inductive invariant `ConsoleInv` has five parts. `OpenOK`: where one can be, and that the
runs are those of the open issue; this part alone gives `RunsShown` and `DetailKept`.
`Fit`: what is shown fits together, that is, what is unfolded are projects in the list,
each loaded list is of issues of its project, live and archived issues are disjoint, and
a detail has a status exactly if there is one. `DbOK`, `EventsOK` and `SessionOK` say
what the daemon's rows and the events in the channel are. `CursorFollows` needs `Fit`:
the cursor is moved to a row of the kind and the project the cache now says, so every
other row about the issue must be ruled out, under another project or as a live issue
that is archived as well.

The facts about lists under it are lemmas too. `Sorted` is a choice, and a finite set can
be listed in every order (`HasList`, by the least counterexample among its subsets: the
last element of an order taken away leaves a shorter list); `Only` keeps a list a list;
the rows of the tree, a concatenation of one list per project, are rows of those lists
(`FlattenType`, by the first prefix for which it fails). `None` is 0, and so ids are
assumed to be positive, as SQLite's are.

Greatest and least elements (fresh ids, the next occurrence, the first issue of an
order, the last row of a list) are found by well-foundedness of inclusion between finite subsets, which the
library states without an operator parameter: a set without a least element would have a
smaller one like it. Nothing else of the proofs needs an induction over data.

Some theorems state properties no run checks, since the runs spend their properties
elsewhere: the type invariants, `PhaseOwnsOpenRun`, `DoneFromReady`,
`JoinsOpenIssue`, `OneReconcile` and `StoredIsFinal`. The theorems are in eight modules,
one for each component with an inductive invariant of its own; the tick and the cadence
share `SchedulerProofs`.

**Only model-checked**, and why:

* all liveness properties: fairness and ENABLED are beyond the prover;
* `MergedMeansDone`, which is false (section 6);
* beyond what is proved, `NoStrayRun`, `AgentRunsInCheckout` and `LegalStatusSteps` for
  commands that are not quiet: there they are false.

So every invariant and every action property of the passing runs is proved.

## 5. What is not modelled

* Findings, subtasks, iteration notes, reports and the routing log: single statements
  nothing races with that a property here could state. In `ControlOutbox` they are one
  command without effect.
* Prompts, memory files, artifacts, skills, project setup, notifications: text and
  files that nothing decides on.
* Rendering (`ui/mod.rs`, `ui/overview.rs`), scrolling, text editing inside a field and
  the mouse. The key handlers themselves are in `Console` and `ConsoleForms`.
* The agent behind `Ask`: it is read-only, and its row has one writer.
* Parsing of the command line and of the provider's output; the socket's framing; the
  web adapter, which checks a signature and forwards one command. `inbox.rs` and
  `launchd.rs` hold no code.
* Two daemons at a time. `Restart` of the models starts one after the other has died;
  what a start lock, a stale socket and a daemon that is still stopping can do is in
  section 6, read off the code.
* Comments, labels and drafts on the provider's side: calls without a row of their own.
* Migrations and opening of the database, failing statements, a full disk.

## 6. Divergences

What the models showed of the code that a document, a comment or a careful reader
would not expect. The first is a run of this project; the others were met as
counterexamples while the instances were chosen, or read off the modelled code.

**A merge goes unnoticed** (`remote_merge_unnoticed`). A sync row executed after
the merge writes `merged` into the link; the observation passes merged links over
(`remote_executor.rs:255`) and the issue stays READY_TO_MERGE (`README.md:43-45`).

Tick and gates:

* The completion gate is cut short. Only an attached backlog item clears `wait_until`
  (`routing.rs:788`), no status change does: the deadline that the plan gate armed has
  passed when the issue reaches READY_TO_MERGE, and `service_soft_gate`
  (`scheduler.rs:1705`) releases it at once (`issue-model.md:97`). Answering a PLAN_READY issue carries the deadline along too.
  `FullGate` therefore exempts an issue that took an armed deadline along.
* In PR mode an older MERGING issue can be starved by newer work under the cap: the
  lane that `OldestMergeGetsTurn` is about exists for local merges only.

Pipeline and commands:

* A queue message that sends READY_TO_MERGE back to WORKING at the end of a phase
  races with an approval: the failed transition returns from `execute` before
  `agent_runs::finish` (`pipeline.rs:511`), the run row stays open and the next
  phase opens a second one, which `scheduler.rs:1573` wants prevented.
* A terminal status is left: `transition` writes unconditionally after its check
  (`db/issues.rs:166`), so a write checked earlier overwrites DONE or ABANDONED when
  two handlers write at once (`issue-model.md:60`).
* Abandon checks the running set, then awaits git (`scheduler.rs:1230`): a run-now in
  between leaves the agent without a checkout (`worktree.rs:3`). An abandon of an
  issue that fails meanwhile removes a FAILED worktree (`README.md:59`).
* Prune may take a checkout that was created, but not recorded, after it read the
  rows (`worktree.rs:246`).
* A message to a READY_TO_MERGE issue is accepted but never activates it
  (`steering.rs:13`, `state.rs:147`).
* Execute starts a local merge whatever the merge mode (`scheduler.rs:666`, against
  `README.md:42`), and run-now ignores the cap. Ticks look at the newest issues first
  (`db/issues.rs:130`): under the cap older ones may wait for ever.
* An agent that dies leaves its issue FAILED, not untouched (`issue-model.md:28`);
  the review round counter is never compared with a cap (`issue-model.md:74`);
  `PLAN_READY` and `READY_TO_MERGE` admit messages (`issue-model.md:87`).

Backlog:

* Removing an issue dismisses its items and deletes its row in two statements
  (`scheduler.rs:1219`): an item attached in between is approved live backlog again,
  against `db-schema.md:56` (`removed promoted work must not reappear`).
* An item dismissed while the route agent judges it is still made into an issue.
* Routing that aborts, or a crash after it, drops the remote rows of the issues it
  had created; a project's lock release deletes a newer holder's lock; issue ids
  are reused.

Remote:

* A crash leaves a sync row `running` for ever: later approvals answer Ok and queue
  nothing. Check-then-insert may queue a row twice (`db-schema.md:46`); with a crash
  in between, two remote issues are made.
* A call may fail after the provider has opened the issue: `gh` exits with an error, its
  answer is lost, or no number can be read from it (`remote_executor.rs:110-119`,
  `642-658`). The row fails and no link is written; the next approval opens a second
  remote issue. A pull request is found again by its branch (`remote_executor.rs:141-153`).
* `gh` is awaited without a timeout (`remote_executor.rs:642`): a call that hangs stops
  the ticks of every project.
* An `/auwsx-run` comment on the remote issue of a local one overwrites the link
  with `issue_id` NULL (`db/remote.rs:558-566`), and a second remote issue follows
  (`db-schema.md:43`). The link of an inbound item is never moved to the issue it
  becomes.
* A webhook is recorded before it is processed; a crash in between loses it.

Main jobs:

* "One main writer per project" (`main_jobs.rs:11-12`) is not enforced: routines,
  dreams, deepsleep and reconcile run side by side in the repository.
* A queued job whose task is gone is never taken up again (`scheduler.rs:1616`). It
  blocks every later deepsleep (`scheduler.rs:617`) and, if it is a reconcile, every
  later reconcile (`:976`). `DeepsleepServed` excepts it.
* Deepsleep is due by a project row read before minutes of routing, and its check
  and insert are apart: it can run twice in a period (`README.md:172-174`); one that
  fails is tried again on every tick.
* A routine removed under its job makes `mark_ran` fail, and the run row stays open
  until the next start (`main_job_runner.rs:175-187`).

Agents and daemons (read off the code):

* The prompt is written to the agent's standard input before the timeout starts
  (`agent/mod.rs:209-215`): an agent that neither reads nor exits is never killed once
  the prompt exceeds the pipe. The fairness of the agent steps leaves this out.
* A second daemon may start beside a live one: `auwsx daemon` asks for no lock, a client
  takes a start lock over after 15 seconds, and a daemon that is stopping still waits
  for its scheduler. The second recovers the runs of the first as interrupted
  (`auwsx-tui/src/cli.rs:830`) and replaces its socket (`ipc.rs:1487-1489`); the first,
  when it ends, removes the socket of the second (`ipc.rs:1511`).

Local merge, outbox and reconcile:

* A merge that stops on a conflict leaves the user's changes in the stash, and no
  later successful merge pops them (`local_merge.rs:88`, against the comment at
  `local_merge.rs:4-5`). `UserChangesKept` counts the stash as kept.
* Reconciliation stops its list at the first `ApplyMerge` of a MERGING issue, because
  the release accepts READY_TO_MERGE only (`scheduler.rs:1163`).
* Retry and run-now start MERGING outside the lane; a spawn decided from an old
  reading may start a second merge. Execute does not look for CONFLICT_BLOCKED
  siblings, and a direct apply-merge does not look whether a phase runs
  (`ipc.rs:1083`).
* Cleanup, abandon and removal by an operator delete the branch whatever is on it
  (`scheduler.rs:1206-1268`, `worktree.rs:280`), an abandon before it writes the status.
  After the cleanup of a FAILED merge, by an operator or by an agreed proposal, and a
  retry, the phase gets a new and empty branch (`worktree.rs:312-336`): apply-merge finds
  it up to date, and the issue is DONE with nothing in HEAD. `DoneIsMerged` excepts issues
  whose branch was deleted, and `NoWorkLost` names the decisions that delete one.
* A crash in the middle of a replay drops the rest of the outbox; an agent may declare
  DONE itself; `CleanupWorktree` is not looked at again after its validation
  (`scheduler.rs:1108`).

Cadence:

* `45m`, `7h` or `10d` become step fields that do not run evenly (`schedule.rs:163`;
  `README.md:94-96` says where it is exact). `1500m`, `768h` and `40d` get a normal
  form that the daemon's own second normalization refuses.
* A catch-up after downtime runs off the matching minutes; a project moved from manual
  to cron runs at once when it is old; a failed read of the run rows makes even a
  manual project tick.
* A cron for a day no month has, `0 0 31 2 *`, is accepted by both sides, stored, searched
  for five years ahead in every pass and never due; only a warning in the daemon's log
  says so (`scheduler.rs:408`). `StoredCadenceRuns` therefore speaks of crons whose day exists.

Console and forms:

* `E` and `d` in the issue detail opened from the board act on the row under the
  tree's cursor (`README.md:105`); `d` and `e` on a project act on the active project,
  which may not be the highlighted one; `E` on a backlog row after drift may open
  another issue. Keys act on the hidden tree in Logs and Ask; the move mode survives
  Tab.
* The project form writes to the project that is active when it is submitted, and
  creates go to the project or issue selected then. It writes every column back, so
  that a change made meanwhile is lost, and it erases the project's own command
  overrides.
* `deepsleep_cron` is a required field, although its help and `README.md:171` say that
  blank disables it; a project with NULL there cannot be saved. The cron of a routine
  is never validated.
* Effective commands may be blank. A preset's review command is stored unvalidated
  (`arsenal.rs:103`), and `''` or white space there wins over the fallback to the work
  command (`projects.rs:175-178`, `242`), which its comment promises for one that is
  unset. A white-space own command wins over the preset's.
* `Form::get` trims every field (`app.rs:778-784`): a column that another client stored
  with blanks around its text loses them although its field was not touched.
* While the `arsenal` combo is closed, the fields below it are out of reach of Down and
  Tab (`app.rs:3428`, against `README.md:298`). A preset looked up without regard to
  case relinks `Codex` to `codex`.
* A form that updates drops its draft when the daemon refuses; one whose answer is lost
  invites a duplicate. Ids are used again, so a `RoutineEdit` form may write another
  routine after a removal and a creation. `DraftKept` and `EditsTheirRow` are stated for
  what the code does keep.
* Status events refresh the active project only, and events between the first refresh
  and the subscription are lost; the poll repairs both. `[` and `]` never refresh the
  detail. The Done lane of the board is always empty. A question awaits its agent in
  the loop, and the console stands still meanwhile.

## 7. Plan

Done so far: the inventory; all modules of section 2; the proofs of section 4. What is
left, in this order:

1. An abstract "one agent per issue" that `IssuePipeline`, `ProjectTick` and
   `LocalMerge` implement, and the abstract "agent declares one status" that
   `IssuePipeline` takes for granted, implemented by the replay of `LocalMerge`.
2. `Cadence` joined with `MainJobs` as a refinement of its boolean `due`.
3. The start of a daemon: start lock, socket, recovery and the end of the previous
   daemon, and what of `OnePhasePerIssue` survives two of them.
4. `Console` with `ConsoleForms` in one loop, so that a form's submission and the
   refresh after it are seen by the cursor properties too.
