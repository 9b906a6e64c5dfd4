---------------------------- MODULE ProjectTick ----------------------------
(***************************************************************************)
(* The scheduling decisions of one project: which idle issues a tick       *)
(* spawns under the concurrency cap and the local merge lane, when it arms *)
(* and releases soft gates, and what operators do to the same issues       *)
(* meanwhile.  Several issues and the passing of minutes; a phase is       *)
(* reduced to its start, the status it declares and its end.  How the      *)
(* steps of one phase and one handler interleave is the subject of         *)
(* IssuePipeline: here each is one step, except the tick, which works from *)
(* an old snapshot.                                                        *)
(***************************************************************************)
EXTENDS IssueStatus, Integers, FiniteSets, FiniteSetsExt

CONSTANTS
  Issues,         \* ids of the project's issues; larger ids are newer
  Start,          \* statuses the database may hold when the daemon starts
  Declared,       \* statuses the agents declare
  Settings,       \* the project rows considered, with the columns below
  NoWait,         \* wait_until NULL
  OpKinds         \* the operator commands in use

ASSUME TickAssumption ==
  /\ Issues \subseteq Nat /\ IsFiniteSet(Issues)
  /\ Start \subseteq Status /\ Declared \subseteq Status
  /\ Settings \subseteq [max_concurrency : Nat, merge_mode : {"local", "pr"},
                          completion_policy : {"manual", "soft", "auto"},
                          plan_gate_min : Nat, completion_min : Nat]
  /\ NoWait \notin Nat
  /\ OpKinds \subseteq {"run", "approve", "execute", "answer"}

VARIABLES
  project,  \* the project's row
  status,   \* issues.status
  wait,     \* minutes until issues.wait_until, 0 once it has passed
  phase,    \* of an issue in the running set: not begun, its status, or over
  tick,     \* where the tick is, and the snapshot it took
  todo,     \* decisions of the tick not executed yet: what, and for which issue;
            \* merge, whether it was a local merge, for the order
  past      \* history: age, minutes an issue has waited at its gate; byHand,
            \* issues a human has started a phase of; rearmed, issues that took
            \* an armed deadline along into another status

vars == <<project, status, wait, phase, tick, todo, past>>

MaxConcurrency == project.max_concurrency
Local == project.merge_mode = "local"
Policy == project.completion_policy
PlanGateMin == project.plan_gate_min
CompletionMin == project.completion_min

\* age counts no further than the longest gate.
MaxAge == IF PlanGateMin > CompletionMin THEN PlanGateMin ELSE CompletionMin

IdleTick == [pc |-> "idle", running |-> {}, due |-> {}]
Running == {i \in Issues : phase[i] # "none"}

TypeOK ==
  /\ project \in Settings
  /\ status \in [Issues -> Status]
  /\ wait \in [Issues -> {NoWait} \cup 0..MaxAge]
  /\ phase \in [Issues -> Actionable \cup {"none", "spawned", "over"}]
  /\ tick \in [pc : {"idle", "decide", "run"}, running : SUBSET Issues,
               due : SUBSET Issues]
  /\ todo \subseteq [kind : {"spawn", "gate"}, issue : Issues, merge : BOOLEAN]
  /\ past \in [age : [Issues -> 0..MaxAge], byHand : SUBSET Issues,
               rearmed : SUBSET Issues]

\* A daemon starts on whatever statuses the last one left, with nothing running.
Init ==
  /\ project \in Settings
  /\ status \in [Issues -> Start]
  /\ wait = [i \in Issues |-> NoWait]
  /\ phase = [i \in Issues |-> "none"]
  /\ tick = IdleTick
  /\ todo = {}
  /\ past = [age |-> [i \in Issues |-> 0], byHand |-> {}, rearmed |-> {}]

Goes(i, s) == /\ status' = [status EXCEPT ![i] = s]
              /\ past' = [past EXCEPT !.age[i] = 0, !.rearmed =
                            IF wait[i] = NoWait THEN @ ELSE @ \cup {i}]

-----------------------------------------------------------------------------
(* decide()                                                                *)

IsMerge(i) == Local /\ status[i] = "MERGING"
MergeBlocked == Local /\ \E i \in Issues : status[i] = "CONFLICT_BLOCKED"

\* Mutant of Precedes: newest first, merges too.
PrecedesNewest(d, e) == d.issue > e.issue

\* list_by_project is newest first; in local mode the merges go in front of
\* it, oldest first.
Precedes(d, e) ==
  IF d.merge # e.merge THEN d.merge
  ELSE IF d.merge THEN d.issue < e.issue ELSE d.issue > e.issue

Decision(k, i) == [kind |-> k, issue |-> i, merge |-> IsMerge(i)]
Before(i, j) == Precedes(Decision("spawn", i), Decision("spawn", j))

\* The gates that time may open.
Gates == {"PLAN_READY", "READY_TO_MERGE"}

\* soft_gate_due: released by time at all, and unarmed or past its deadline.
SoftReleasable(i) ==
  \/ status[i] = "PLAN_READY"
  \/ status[i] = "READY_TO_MERGE" /\ Local /\ Policy \in {"soft", "auto"}

SoftGateDue(i, due) == SoftReleasable(i) /\ (wait[i] = NoWait \/ i \in due)

\* Mutant of HasLane: the merge just spawned does not take the lane.
HasLaneOpen(i, run) == ~MergeBlocked /\ ~\E j \in run : IsMerge(j)

\* The lane of local merges: free, not blocked by a conflict, and i the first
\* in front of it.
HasLane(i, run) ==
  /\ ~MergeBlocked /\ ~\E j \in run : IsMerge(j)
  /\ \A j \in Issues \ run : IsMerge(j) => ~Before(j, i)

\* run is the running set, due the issues whose deadline had passed, when the
\* tick began.
Candidates(run) == {i \in Issues \ run : /\ status[i] \in Actionable
                                         /\ IsMerge(i) => HasLane(i, run)}

Slots(run) == IF Cardinality(run) > MaxConcurrency THEN 0
              ELSE MaxConcurrency - Cardinality(run)

\* The loop over the issues: the free slots go to the first candidates.
\* Worktree teardown is the subject of IssuePipeline.
Spawned(run) == {i \in Candidates(run) :
                   Cardinality({j \in Candidates(run) : Before(j, i)}) < Slots(run)}
Decide(run, due) == {Decision("spawn", i) : i \in Spawned(run)}
                    \cup {Decision("gate", i) : i \in {j \in Issues : SoftGateDue(j, due)}}

-----------------------------------------------------------------------------
(* The tick                                                                *)

TickStart ==
  /\ tick.pc = "idle"
  /\ tick' = [pc |-> "decide", running |-> Running,
              due |-> {i \in Issues : wait[i] = 0}]
  /\ UNCHANGED <<status, wait, phase, todo, past>>

\* Mutant of TickDecide: the running set is lost on the way.
TickDecideBlind ==
  /\ tick.pc = "decide"
  /\ todo' = Decide({}, tick.due)
  /\ tick' = [IdleTick EXCEPT !.pc = "run"]
  /\ UNCHANGED <<status, wait, phase, past>>

\* Routing, remote syncs and pull request observation happened in between.
TickDecide ==
  /\ tick.pc = "decide"
  /\ todo' = Decide(tick.running, tick.due)
  /\ tick' = [IdleTick EXCEPT !.pc = "run"]
  /\ UNCHANGED <<status, wait, phase, past>>

TickEnd ==
  /\ tick.pc = "run" /\ todo = {}
  /\ tick' = IdleTick
  /\ UNCHANGED <<status, wait, phase, todo, past>>

\* The decisions are executed in the order of the loop.
Takes(d, k) == /\ tick.pc = "run" /\ d.kind = k
               /\ \A e \in todo \ {d} : Precedes(d, e)
               /\ todo' = todo \ {d}

\* spawn_phase: nothing if the issue is in the running set.
Spawn(i) ==
  phase' = IF phase[i] = "none" THEN [phase EXCEPT ![i] = "spawned"] ELSE phase

TickSpawn ==
  /\ \E d \in todo : Takes(d, "spawn") /\ Spawn(d.issue)
  /\ UNCHANGED <<status, wait, tick, past>>

\* service_soft_gate looks at the issue as it is now.  Conflict-blocked merges
\* hold the completion gate; the merge mode is not looked at again.
Serviceable(i) ==
  \/ status[i] = "PLAN_READY"
  \/ status[i] = "READY_TO_MERGE" /\ ~MergeBlocked /\ Policy # "manual"
Target(i) == IF status[i] = "PLAN_READY" THEN "WORKING" ELSE "MERGING"
Minutes(i) == IF status[i] = "PLAN_READY" THEN PlanGateMin
              ELSE IF Policy = "auto" THEN 0 ELSE CompletionMin

\* Mutant of GateReleases: a gate that was not armed is released.
GateReleasesUnarmed(i) ==
  Serviceable(i) /\ (Minutes(i) = 0 \/ wait[i] \in {NoWait, 0})

\* Mutant of GateReleases: a passed deadline is not recognised.
GateReleasesNever(i) == Serviceable(i) /\ Minutes(i) = 0

GateReleases(i) == Serviceable(i) /\ (Minutes(i) = 0 \/ wait[i] = 0)
GateArms(i) == Serviceable(i) /\ ~GateReleases(i) /\ wait[i] = NoWait

TickGate ==
  /\ \E d \in todo :
       /\ Takes(d, "gate")
       /\ LET i == d.issue IN
          \/ GateReleases(i) /\ Goes(i, Target(i)) /\ UNCHANGED wait
          \/ /\ GateArms(i)
             /\ wait' = [wait EXCEPT ![i] = Minutes(i)]
             /\ UNCHANGED <<status, past>>
          \/ ~GateReleases(i) /\ ~GateArms(i) /\ UNCHANGED <<status, wait, past>>
  /\ UNCHANGED <<phase, tick>>

-----------------------------------------------------------------------------
(* Phases                                                                  *)

\* execute() reads the status; NEW is entered as PLANNING.
PhaseBegins(i) ==
  /\ phase[i] = "spawned"
  /\ IF status[i] = "NEW"
     THEN Goes(i, "PLANNING") /\ phase' = [phase EXCEPT ![i] = "PLANNING"]
     ELSE /\ phase' = [phase EXCEPT ![i] = IF HasPhase(status[i])
                                           THEN status[i] ELSE "over"]
          /\ UNCHANGED <<status, past>>
  /\ UNCHANGED <<wait, tick, todo>>

\* The agent ends: its outbox declares a legal status, or the phase fails.
PhaseDeclares(i) ==
  /\ phase[i] \in Actionable
  /\ \E s \in Declared \cup {"FAILED"} :
       LegalTransition(status[i], s) /\ Goes(i, s)
  /\ phase' = [phase EXCEPT ![i] = "over"]
  /\ UNCHANGED <<wait, tick, todo>>

PhaseExits(i) ==
  /\ phase[i] = "over"
  /\ phase' = [phase EXCEPT ![i] = "none"]
  /\ UNCHANGED <<status, wait, tick, todo, past>>

-----------------------------------------------------------------------------
(* Operators                                                               *)

\* run_issue_now, and execute_issue in a phase.
RunNow(i) ==
  /\ "run" \in OpKinds /\ phase[i] = "none" /\ HasPhase(status[i])
  /\ i \notin past.byHand  \* bound: once for each issue
  /\ Spawn(i)
  /\ past' = [past EXCEPT !.byHand = @ \cup {i}]
  /\ UNCHANGED <<status, wait, tick, todo>>

\* approve_issue_merge in local mode, and one issue of approve_project_merge.
\* In PR mode both queue a remote sync and leave the status alone.
ApproveMerge(i) ==
  /\ "approve" \in OpKinds /\ Local /\ ~MergeBlocked
  /\ phase[i] = "none" /\ status[i] = "READY_TO_MERGE"
  /\ Goes(i, "MERGING")
  /\ UNCHANGED <<wait, phase, tick, todo>>

\* execute_issue of a READY_TO_MERGE issue: neither the merge mode nor
\* conflict-blocked merges are looked at.
ExecuteMerge(i) ==
  /\ "execute" \in OpKinds
  /\ phase[i] = "none" /\ status[i] = "READY_TO_MERGE"
  /\ Goes(i, "MERGING")
  /\ UNCHANGED <<wait, phase, tick, todo>>

\* SetIssueStatus answers a human gate: back to planning or work, or on.
AnswerGate(i) ==
  /\ "answer" \in OpKinds /\ status[i] \in HumanGated
  /\ \E s \in Actionable : LegalTransition(status[i], s) /\ Goes(i, s)
  /\ UNCHANGED <<wait, phase, tick, todo>>

\* observe_project_pull_requests: the tick finds the pull request merged.
TickObserve(i) ==
  /\ ~Local /\ tick.pc = "decide" /\ status[i] = "READY_TO_MERGE"
  /\ Goes(i, "DONE")
  /\ UNCHANGED <<wait, phase, tick, todo>>

\* A minute passes.
Minute ==
  /\ wait' = [i \in Issues |-> IF wait[i] \in {NoWait, 0} THEN wait[i]
                               ELSE wait[i] - 1]
  /\ past' = [past EXCEPT !.age = [i \in Issues |->
                 IF status[i] \in Gates /\ @[i] < MaxAge THEN @[i] + 1 ELSE @[i]]]
  /\ UNCHANGED <<project, status, phase, tick, todo>>

-----------------------------------------------------------------------------
TickStep == /\ TickStart \/ TickDecide \/ TickSpawn \/ TickGate \/ TickEnd
            /\ UNCHANGED project
PhaseStep(i) == /\ PhaseBegins(i) \/ PhaseDeclares(i) \/ PhaseExits(i)
                /\ UNCHANGED project
Operator(i) == RunNow(i) \/ ApproveMerge(i) \/ ExecuteMerge(i) \/ AnswerGate(i)

Next ==
  \/ TickStep
  \/ \E i \in Issues : PhaseStep(i)
  \/ \E i \in Issues : (Operator(i) \/ TickObserve(i)) /\ UNCHANGED project
  \/ Minute

Spec == Init /\ [][Next]_vars

\* The heartbeat ticks (the project has a schedule, and calls of gh return),
\* agents end at their timeout at the latest, and time passes.  Operators and
\* remote merges owe nothing.
FairSpec ==
  /\ Spec
  /\ WF_vars(TickStep) /\ WF_vars(Minute)
  /\ \A i \in Issues : WF_vars(PhaseStep(i))

-----------------------------------------------------------------------------
(* Properties                                                              *)

\* "At most max_concurrency issues run at once" (scheduler.rs:62), those a human
\* started apart, although ticks count the agents before routing and remote
\* syncs and spawn after them.
CapRespected == Cardinality(Running \ past.byHand) <= MaxConcurrency

\* Local merges are serialised: no two agents the tick started are in the
\* MERGING phase at the same time, although the lane is assigned from an old
\* snapshot.  (Run-now looks at no lane, and a phase it ran to its end between
\* the decision and the spawn of a tick leaves the spawn to another status.)
OneMergeAtATime ==
  Local => \A i, j \in Issues \ past.byHand :
             phase[i] = "MERGING" /\ phase[j] = "MERGING" => i = j

\* The lane is not starved by newer work: the oldest issue of the project
\* does not wait for its merge for ever, unless a conflict that only a human
\* resolves blocks the lane.  A newer merge may, while older ones keep coming
\* back from conflict resolution.
OldestMergeGetsTurn ==
  \A i \in {Min(Issues)} : []<>(Local /\ status[i] = "MERGING" => MergeBlocked)

\* A plan nobody answers is released some day, whatever the tick was doing
\* when its deadline passed.
PlanGateOpens == \A i \in Issues : []<>(status[i] # "PLAN_READY")

\* A gate gives the human its full time: a tick releases the issue only after
\* it has been there for the configured minutes.  No status change clears
\* wait_until, so an issue that took an armed deadline along is exempt (README,
\* Divergences).
FullGate ==
  [][\A i \in Issues \ past.rearmed :
       TickGate /\ status'[i] # status[i] => past.age[i] >= Minutes(i)]_vars

=============================================================================
