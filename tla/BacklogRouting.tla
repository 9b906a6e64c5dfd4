--------------------------- MODULE BacklogRouting ---------------------------
(***************************************************************************)
(* Backlog intake of one project: filing and judging items, the three      *)
(* routers that turn approved items into issues (the tick and "run now"    *)
(* under the project's route lock, triage without it), the route agent     *)
(* they wait for, the removal of issues meanwhile, and crashes, which      *)
(* leave the lock row behind until it is ten minutes old.                  *)
(*                                                                         *)
(* Phases and operators move the issues by legal transitions; how is the   *)
(* subject of IssuePipeline.  Whether two texts are duplicates is the      *)
(* environment's choice, as is what the route agent answers.               *)
(***************************************************************************)
EXTENDS IssueStatus, Integers

CONSTANTS
  Items,        \* backlog item ids, filed in this order
  Issues,       \* issue ids the instance has room for
  Tick,         \* the project tick
  Handlers,     \* concurrent IPC handlers
  Stages,       \* the issue statuses of the instance
  None,         \* NULL
  MaxRequests,  \* bound on operator requests
  MaxCrashes    \* bound on daemon crashes

ASSUME BacklogAssumption ==
  /\ Items \subseteq Nat /\ Issues \subseteq Nat \ {0}
  /\ None \notin Issues \cup Items
  /\ Tick \notin Handlers
  /\ Stages \subseteq Status /\ {"NEW", "PLANNING", "WORKING"} \subseteq Stages
  /\ MaxRequests \in Nat /\ MaxCrashes \in Nat

VARIABLES
  approval,   \* backlog_items.approval, "unfiled" before the row exists
  consumed,   \* backlog_items.consumed_issue_id
  status,     \* issues.status, "absent" without a row
  lock,       \* the project_route_locks row: "free", "fresh" or "stale"
  actor,      \* what the tick and each handler are doing
  requests,   \* operator requests so far
  crashes     \* crashes so far

backlog == <<approval, consumed>>
bounds == <<requests, crashes>>
vars == <<backlog, status, lock, actor, bounds>>

Actors == Handlers \cup {Tick}
Approvals == {"pending", "approved", "dismissed"}
Routing == {"candidates", "agent", "recheck", "create", "attach"}
Steps == Routing \cup {"idle", "list", "read", "approve", "next", "release",
                      "dismiss", "delete"}
Doing == [pc : Steps, locked : BOOLEAN, left : SUBSET Items,
          item : Items \cup {None}, candidates : SUBSET Issues,
          target : Issues \cup {None}]
Idle == [pc |-> "idle", locked |-> FALSE, left |-> {}, item |-> None,
         candidates |-> {}, target |-> None]

TypeOK ==
  /\ approval \in [Items -> Approvals \cup {"unfiled"}]
  /\ consumed \in [Items -> Issues \cup {None}]
  /\ status \in [Issues -> Stages \cup {"absent"}]
  /\ lock \in {"free", "fresh", "stale"}
  /\ actor \in [Actors -> Doing]
  /\ requests \in 0..MaxRequests /\ crashes \in 0..MaxCrashes

Init ==
  /\ approval = [it \in Items |-> "unfiled"]
  /\ consumed = [it \in Items |-> None]
  /\ status = [i \in Issues |-> "absent"]
  /\ lock = "free"
  /\ actor = [a \in Actors |-> Idle]
  /\ requests = 0 /\ crashes = 0

At(a, pc) == actor[a].pc = pc
Become(a, r) == actor' = [actor EXCEPT ![a] = r]
Goto(a, pc) == actor' = [actor EXCEPT ![a].pc = pc]
Live == {i \in Issues : status[i] # "absent"}
Joinable == {i \in Issues : status[i] \in AcceptsQueueMessage}

\* An operator's request: one of finitely many.
Request == requests < MaxRequests /\ requests' = requests + 1

-----------------------------------------------------------------------------
(* The backlog                                                             *)

\* add(): the source decides whether the item waits for a human.
AddBacklog(it) ==
  /\ approval[it] = "unfiled" /\ \A k \in Items : k < it => approval[k] # "unfiled"
  /\ \E g \in {"pending", "approved"} : approval' = [approval EXCEPT ![it] = g]
  /\ UNCHANGED <<consumed, status, lock, actor, bounds>>

\* ApproveBacklog and DismissBacklog, in whatever state the item is.
SetApproval(it, g) ==
  /\ Request
  /\ approval[it] # "unfiled"
  /\ approval' = [approval EXCEPT ![it] = g]
  /\ UNCHANGED <<consumed, status, lock, actor, crashes>>

\* Mutant: items nobody judged yet are listed as well.
PromotableUnjudged ==
  {it \in Items : approval[it] \in {"pending", "approved"} /\ consumed[it] = None}

\* list_by_approval(approved).
Promotable == {it \in Items : approval[it] = "approved" /\ consumed[it] = None}

-----------------------------------------------------------------------------
(* Routers                                                                 *)

\* acquire_project_route_lock: stale rows go first; false under a fresh one.
Acquire == lock # "fresh" /\ lock' = "fresh"

TickStart ==
  /\ At(Tick, "idle") /\ Acquire
  /\ Become(Tick, [Idle EXCEPT !.pc = "list", !.locked = TRUE])
  /\ UNCHANGED <<backlog, status, bounds>>

RunNow(h, it) ==
  /\ At(h, "idle") /\ Request
  /\ approval[it] # "unfiled" /\ Acquire
  /\ Become(h, [Idle EXCEPT !.pc = "read", !.locked = TRUE, !.item = it])
  /\ UNCHANGED <<backlog, status, crashes>>

Triage(h) ==
  /\ At(h, "idle") /\ Request
  /\ Become(h, [Idle EXCEPT !.pc = "list"])
  /\ UNCHANGED <<backlog, status, lock, crashes>>

List(a) ==
  /\ At(a, "list")
  /\ Become(a, [actor[a] EXCEPT !.pc = "next", !.left = Promotable])
  /\ UNCHANGED <<backlog, status, lock, bounds>>

\* route_one_now reads its item once: dismissed and consumed ones are refused.
Read(h) ==
  /\ At(h, "read")
  /\ LET it == actor[h].item IN
       Goto(h, IF approval[it] = "dismissed" \/ consumed[it] # None THEN "release"
               ELSE IF approval[it] = "pending" THEN "approve" ELSE "candidates")
  /\ UNCHANGED <<backlog, status, lock, bounds>>

NowApprove(h) ==
  /\ At(h, "approve")
  /\ approval' = [approval EXCEPT ![actor[h].item] = "approved"]
  /\ Goto(h, "candidates")
  /\ UNCHANGED <<consumed, status, lock, bounds>>

\* The next listed item in id order, or the end of the batch.
NextItem(a) ==
  /\ At(a, "next")
  /\ \/ \E it \in actor[a].left :
          /\ \A k \in actor[a].left : it <= k
          /\ Become(a, [actor[a] EXCEPT
               !.pc = IF actor[a].locked THEN "candidates" ELSE "create",
               !.left = @ \ {it}, !.item = it, !.candidates = {}, !.target = None])
     \/ /\ actor[a].left = {}
        /\ IF actor[a].locked THEN Goto(a, "release") ELSE Become(a, Idle)
  /\ UNCHANGED <<backlog, status, lock, bounds>>

\* The issue whose words the item repeats, if it is one of them.
Duplicate(a, among) ==
  \E i \in among : Become(a, [actor[a] EXCEPT !.pc = "attach", !.target = i])

\* What the route agent may say of the candidates it was given: one of them, or
\* None when it fails, wants a new issue, or names an issue not among them.
Decisions(a) == actor[a].candidates \cup {None}

\* route_item_semantic up to the route agent: no candidate, a duplicate of one
\* of them, or a question to the agent about those read now.
Candidates(a) ==
  /\ At(a, "candidates")
  /\ \/ Joinable = {} /\ Goto(a, "create")
     \/ Duplicate(a, Joinable)
     \/ /\ Joinable # {}
        /\ Become(a, [actor[a] EXCEPT !.pc = "agent", !.candidates = Joinable])
  /\ UNCHANGED <<backlog, status, lock, bounds>>

AgentAnswers(a) ==
  /\ At(a, "agent")
  /\ \E i \in Decisions(a) :
       IF i = None THEN Goto(a, "recheck")
       ELSE Become(a, [actor[a] EXCEPT !.pc = "attach", !.target = i])
  /\ UNCHANGED <<backlog, status, lock, bounds>>

\* attach_duplicate_if_present.
Recheck(a) ==
  /\ At(a, "recheck")
  /\ Duplicate(a, Joinable) \/ Goto(a, "create")
  /\ UNCHANGED <<backlog, status, lock, bounds>>

\* An error ends the batch, a success goes on to its next item.
Abort(a) == IF actor[a].locked THEN Goto(a, "release") ELSE Become(a, Idle)

\* SQLite gives the next id after the largest one in use.
NewId(i) == (\A k \in Live : k < i) /\ (i = 1 \/ i - 1 \in Live)

\* Mutant: no transaction (as in run_triage), the row of a lost race stays.
CreateUnwrapped(a) ==
  /\ At(a, "create")
  /\ \E i \in Issues :
       /\ NewId(i)
       /\ status' = [status EXCEPT ![i] = "NEW"]
       /\ LET it == actor[a].item IN
          \/ /\ consumed[it] = None
             /\ consumed' = [consumed EXCEPT ![it] = i]
             /\ Goto(a, "next")
          \/ /\ consumed[it] # None
             /\ Abort(a)
             /\ UNCHANGED consumed
  /\ UNCHANGED <<approval, lock, bounds>>

\* create_issue_from_item: one transaction.
Create(a) ==
  /\ At(a, "create")
  /\ LET it == actor[a].item IN
     \/ /\ consumed[it] = None
        /\ \E i \in Issues :
             /\ NewId(i)
             /\ status' = [status EXCEPT ![i] = "NEW"]
             /\ consumed' = [consumed EXCEPT ![it] = i]
        /\ Goto(a, "next")
     \/ /\ consumed[it] # None
        /\ Abort(a)
        /\ UNCHANGED <<consumed, status>>
  /\ UNCHANGED <<approval, lock, bounds>>

\* Where an issue goes when an item joins it.
Joined(s) == CASE s = "READY_TO_MERGE" -> "WORKING"
               [] s \in {"PLAN_READY", "PLAN_BLOCKED"} -> "PLANNING"
               [] OTHER -> s

\* Mutant: a join that is refused is tried again instead of ending the batch.
AttachRetries(a) ==
  /\ At(a, "attach")
  /\ LET it == actor[a].item  i == actor[a].target IN
     \/ /\ i \in Joinable /\ consumed[it] = None
        /\ status' = [status EXCEPT ![i] = Joined(@)]
        /\ consumed' = [consumed EXCEPT ![it] = i]
        /\ Goto(a, "next")
     \/ /\ i \notin Joinable \/ consumed[it] # None
        /\ UNCHANGED <<actor, consumed, status>>
  /\ UNCHANGED <<approval, lock, bounds>>

\* attach_item_to_issue: one transaction, which looks at the issue again.  The
\* message it adds is guidance like an operator's (IssuePipeline).
Attach(a) ==
  /\ At(a, "attach")
  /\ LET it == actor[a].item  i == actor[a].target IN
     \/ /\ i \in Joinable /\ consumed[it] = None
        /\ status' = [status EXCEPT ![i] = Joined(@)]
        /\ consumed' = [consumed EXCEPT ![it] = i]
        /\ Goto(a, "next")
     \/ /\ i \notin Joinable \/ consumed[it] # None
        /\ Abort(a)
        /\ UNCHANGED <<consumed, status>>
  /\ UNCHANGED <<approval, lock, bounds>>

\* release_project_route_lock deletes whatever row the project has.
Release(a) ==
  /\ At(a, "release")
  /\ lock' = "free"
  /\ Become(a, Idle)
  /\ UNCHANGED <<backlog, status, bounds>>

RouterStep(a) ==
  \/ List(a) \/ Read(a) \/ NowApprove(a) \/ NextItem(a) \/ Candidates(a)
  \/ AgentAnswers(a) \/ Recheck(a) \/ Create(a) \/ Attach(a) \/ Release(a)

-----------------------------------------------------------------------------
(* Issues, time and crashes                                                *)

\* remove_issue: the worktree goes, then the source items are dismissed, then
\* the row is deleted and its items lose their issue (ON DELETE SET NULL).
RemoveIssue(h, i) ==
  /\ At(h, "idle") /\ Request
  /\ i \in Live
  /\ Become(h, [Idle EXCEPT !.pc = "dismiss", !.target = i])
  /\ UNCHANGED <<backlog, status, lock, crashes>>

DismissConsumed(h) ==
  /\ At(h, "dismiss")
  /\ approval' = [it \in Items |-> IF consumed[it] = actor[h].target
                                   THEN "dismissed" ELSE approval[it]]
  /\ Goto(h, "delete")
  /\ UNCHANGED <<consumed, status, lock, bounds>>

DeleteIssue(h) ==
  /\ At(h, "delete")
  /\ status' = [status EXCEPT ![actor[h].target] = "absent"]
  /\ consumed' = [it \in Items |-> IF consumed[it] = actor[h].target
                                   THEN None ELSE consumed[it]]
  /\ Become(h, Idle)
  /\ UNCHANGED <<approval, lock, bounds>>

\* A phase, a gate or an operator moves an issue.
IssueMoves(i) ==
  /\ i \in Live
  /\ \E s \in Stages : /\ LegalTransition(status[i], s)
                       /\ status' = [status EXCEPT ![i] = s]
  /\ UNCHANGED <<backlog, lock, actor, bounds>>

\* Ten minutes pass.
LockAges ==
  /\ lock = "fresh" /\ lock' = "stale"
  /\ UNCHANGED <<backlog, status, actor, bounds>>

\* The daemon dies and starts again: the lock row is still there.
Crash ==
  /\ crashes < MaxCrashes /\ crashes' = crashes + 1
  /\ actor' = [a \in Actors |-> Idle]
  /\ UNCHANGED <<backlog, status, lock, requests>>

Operator(h) ==
  \/ \E it \in Items : RunNow(h, it)
  \/ Triage(h)
  \/ \E i \in Issues : RemoveIssue(h, i)

Next ==
  \/ \E it \in Items : AddBacklog(it)
  \/ \E it \in Items, g \in {"approved", "dismissed"} : SetApproval(it, g)
  \/ TickStart
  \/ \E a \in Actors : RouterStep(a)
  \/ \E h \in Handlers : Operator(h) \/ DismissConsumed(h) \/ DeleteIssue(h)
  \/ \E i \in Issues : IssueMoves(i)
  \/ LockAges \/ Crash

Spec == Init /\ [][Next]_vars

\* The daemon ticks, its tasks and the agents they wait for make progress
\* (the agent has a timeout), and time passes.
FairSpec ==
  /\ Spec
  /\ WF_vars(TickStart) /\ WF_vars(LockAges)
  /\ \A a \in Actors : WF_vars(RouterStep(a))
  /\ \A h \in Handlers : WF_vars(DismissConsumed(h)) /\ WF_vars(DeleteIssue(h))

-----------------------------------------------------------------------------
(* Properties                                                              *)

\* Whatever the routers, removals and crashes do in between, the backlog
\* behaves like Intake: no pending item becomes work, an item is in one issue
\* at a time, only the removal of that issue takes it out, and a minutes old
\* answer of the route agent puts it in no issue that takes no messages.
Doors == [i \in Issues |-> IF status[i] = "absent" THEN "absent"
                           ELSE IF i \in Joinable THEN "open" ELSE "closed"]
Intakes == INSTANCE Intake WITH gate <- approval, place <- consumed, door <- Doors
IntakePromise == Intakes!Spec

\* Every issue came from an item that still says so, and no item names an
\* issue that is gone: a failed creation leaves no orphan, a removal no
\* dangling link.
EveryIssueHasSource == {consumed[it] : it \in Items} \ {None} = Live

\* The agent's answer is minutes old when it is applied: an item joins an
\* existing issue only while that issue still takes messages.
JoinsOpenIssue ==
  [][\A it \in Items, i \in Live :
       consumed[it] = None /\ consumed'[it] = i => i \in Joinable]_vars

\* An approved item becomes part of an issue or is dismissed, also when a
\* router died with the lock or aborted the batch before the item's turn.
RoutedEventually ==
  \A it \in Items : it \in Promotable ~> it \notin Promotable
=============================================================================
