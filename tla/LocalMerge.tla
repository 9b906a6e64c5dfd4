----------------------------- MODULE LocalMerge -----------------------------
(***************************************************************************)
(* The merges of a project in local mode: the phase that ends in           *)
(* `issue apply-merge`, replayed from the agent's outbox (pipeline.rs,     *)
(* control_outbox.rs, ipc.rs), the stash, merge and pop it runs in the     *)
(* primary worktree of the user (local_merge.rs), the tick that lets one   *)
(* merge after the other go, operators, the reconciliation that repairs    *)
(* what is left behind (reconcile.rs, scheduler.rs), the user at work in   *)
(* the same worktree, and a crash of the daemon.                           *)
(*                                                                         *)
(* A git command is one step.  issues::transition is two, as in            *)
(* IssuePipeline: the check is folded into the read before it, the         *)
(* unconditional write is a step of its own.  What an agent adds to its    *)
(* branch while it merges is not told apart from the branch, and a branch  *)
(* that had to be made anew stays empty.                                   *)
(***************************************************************************)
EXTENDS ControlOutbox, Reconcile, FiniteSets, SequencesExt

CONSTANTS
  Issues,     \* issues of the project, ordered by id
  Paths,      \* files
  Changes,    \* files the branch of an issue changes
  Start,      \* status of each issue at first
  Boxes,      \* outboxes agents leave
  Handlers,   \* IPC handlers
  OpKinds,    \* what operators do, see Operator and Discarding
  UserActs,   \* what the user does in the primary worktree, see User
  Proposals,  \* proposals of reconcile jobs: sequences of [issue, action]
  Budget,     \* bound: acts of the user and of operators
  MaxCrashes  \* bound

ASSUME MergeAssumption ==
  /\ Issues \subseteq Nat /\ Changes \in [Issues -> SUBSET Paths]
  /\ Start \in [Issues -> Status] /\ Handlers \cap Issues = {}
  /\ Boxes \subseteq Seq(Command)
  /\ Budget \in Nat /\ MaxCrashes \in Nat

VARIABLES
  status,   \* issues.status
  row,      \* issues whose branch and worktree_path are recorded
  ref,      \* issues whose git branch exists
  last,     \* status_before of the latest run of each issue
  repo,     \* the primary worktree and its repository
  ahead,    \* files changed on HEAD since the branch of an issue was rebased
  same,     \* issues whose branch has the tree of HEAD without being merged
  phase,    \* the phase task of an issue
  apply,    \* apply_issue_merge: of the replay of an issue, or of a handler
  rec,      \* reconcile_project or apply_reconcile_job, under the tick guard
  declared, \* issues declared DONE by an agent or an operator
  gone,     \* issues whose row is deleted; they read as ABANDONED
  dropped,  \* issues whose branch was deleted: one made later is empty
  acts, crashes

rows == <<status, row, last, declared, gone>>
git == <<ref, dropped, repo, ahead, same>>
vars == <<rows, git, phase, apply, rec, acts, crashes>>

User == 0
Appliers == Issues \cup Handlers
IdlePhase == [pc |-> "idle", before |-> "NEW", rest |-> <<>>, erred |-> FALSE]
IdleApply == [pc |-> "idle", issue |-> User, saved |-> FALSE, to |-> "NEW"]
IdleRec == [pc |-> "idle", job |-> FALSE, items |-> <<>>, was |-> "NEW"]

Running(i) == phase[i].pc # "idle"
Merged(i) == i \in repo.main

\* The work of the branch is in HEAD: merged, or squashed by the user.
Represented(i) == Merged(i) \/ i \in repo.squashed

\* HEAD has whatever is on the branch, be it because nothing is.
UpToDate(i) == Merged(i) \/ i \in dropped

Entry == [by : Issues \cup {User}, paths : SUBSET Paths, moved : SUBSET Paths]
RepoType == [main : SUBSET Issues, squashed : SUBSET Issues,
             edits : SUBSET Paths, mine : SUBSET Paths,
             broken : {"no", "merge", "pop"}, stash : Seq(Entry)]
PhaseType == [pc : {"idle", "agent", "replay", "set", "apply", "fail",
                    "failWrite", "end"},
              before : Status, rest : Seq(Command), erred : BOOLEAN]
Discarding == {"cleanup", "abandon", "remove"}
ApplyType == [pc : {"idle", "clean", "recheck", "merge", "pop", "write", "set",
                    "giveUp", "delete", "ok", "err"} \cup Discarding,
              issue : Issues \cup {User}, saved : BOOLEAN, to : Status]

\* What a reconciliation goes through may name an issue of another project.
TypeOK ==
  /\ status \in [Issues -> Status] /\ last \in [Issues -> Status]
  /\ row \subseteq Issues /\ ref \subseteq Issues /\ same \subseteq Issues
  /\ declared \subseteq Issues /\ gone \subseteq Issues /\ dropped \subseteq Issues
  /\ repo \in RepoType /\ ahead \in [Issues -> SUBSET Paths]
  /\ phase \in [Issues -> PhaseType] /\ apply \in [Appliers -> ApplyType]
  /\ rec \in [pc : {"idle", "act", "write", "tidy", "refused"}, job : BOOLEAN,
              items : {rec.items}, was : Status]
  /\ acts \in Nat /\ crashes \in Nat

Init ==
  /\ status = Start /\ last = Start
  /\ row = Issues /\ ref = Issues /\ same = {} /\ gone = {} /\ dropped = {}
  /\ \E P \in SUBSET Paths :
       repo = [main |-> {}, squashed |-> {}, edits |-> P, mine |-> P,
               broken |-> "no", stash |-> <<>>]
  /\ ahead = [i \in Issues |-> {}]
  /\ phase = [i \in Issues |-> IdlePhase]
  /\ apply = [a \in Appliers |-> IdleApply]
  /\ rec = IdleRec
  /\ declared = {i \in Issues : Start[i] = "DONE"}
  /\ acts = 0 /\ crashes = 0

\* An UPDATE: of no row once it is deleted.
SetRow(i, s) == status' = IF i \in gone THEN status ELSE [status EXCEPT ![i] = s]
Declare(i, s) == declared' = IF s = "DONE" THEN declared \cup {i} ELSE declared

\* HEAD moves on by a commit that changes P: branches fall behind, and a stash
\* taken before may no longer pop.
Aged(stash, P) ==
  [n \in DOMAIN stash |-> [stash[n] EXCEPT !.moved = @ \cup P]]
Commits(r, P) == [r EXCEPT !.stash = Aged(@, P)]
FallBehind(except, P) ==
  /\ ahead' = [j \in Issues |-> IF j \in except THEN ahead[j]
                                ELSE ahead[j] \cup P]
  /\ same' = IF P = {} THEN same ELSE {}

-----------------------------------------------------------------------------
(* apply_issue_merge, by a, in the order of its git commands               *)

AtApply(a, pc) == apply[a].pc = pc
Step(a, pc) == apply' = [apply EXCEPT ![a].pc = pc]

\* Mutant of Result: a blocked merge is taken for a merge.
ResultDone(a, s) ==
  apply' = [apply EXCEPT ![a].to = "DONE",
              ![a].pc = IF LegalTransition(status[apply[a].issue], "DONE")
                        THEN "write" ELSE "err"]

\* The transition to its result: checked here, written by ApplyWrite.
Result(a, s) ==
  apply' = [apply EXCEPT ![a].to = s,
              ![a].pc = IF LegalTransition(status[apply[a].issue], s) THEN "write"
                        ELSE "err"]

\* The command is taken up: the issue must be MERGING and have a branch.
Apply(a, i) ==
  apply' = [apply EXCEPT ![a] =
              [IdleApply EXCEPT !.issue = i,
                 !.pc = IF status[i] = "MERGING" /\ i \in row THEN "clean" ELSE "err"]]

Stashed(r, by) ==
  [r EXCEPT !.stash = <<[by |-> by, paths |-> r.edits, moved |-> {}]>> \o @,
            !.edits = {}]

\* is_worktree_clean, stash push: git refuses with unmerged files.
ApplyClean(a) ==
  /\ AtApply(a, "clean")
  /\ \/ repo.broken # "no" /\ Result(a, "CONFLICT_BLOCKED") /\ UNCHANGED repo
     \/ /\ repo.broken = "no" /\ repo.edits = {}
        /\ Step(a, "merge") /\ UNCHANGED repo
     \/ /\ repo.broken = "no" /\ repo.edits # {}
        /\ repo' = Stashed(repo, apply[a].issue)
        /\ apply' = [apply EXCEPT ![a].pc = "recheck", ![a].saved = TRUE]
  /\ UNCHANGED <<ref, dropped, ahead, same>>

\* snapshot_dirty_state: still dirty, so the stash stays where it is.
ApplyRecheck(a) ==
  /\ AtApply(a, "recheck")
  /\ IF repo.edits = {} /\ repo.broken = "no" THEN Step(a, "merge")
     ELSE Result(a, "CONFLICT_BLOCKED")
  /\ UNCHANGED git

Conflicts(i) == ~UpToDate(i) /\ ahead[i] \cap Changes[i] # {}

\* git merge refuses to start.
MergeRefused(i) ==
  \/ repo.broken # "no" \/ i \notin ref
  \/ ~UpToDate(i) /\ repo.edits \cap Changes[i] # {}

\* git merge --no-ff: a conflict leaves the merge open in the primary
\* worktree, and a stash unpopped; "Already up to date" passes for a merge.
ApplyMerges(a) ==
  LET i == apply[a].issue IN
  /\ AtApply(a, "merge")
  /\ \/ /\ MergeRefused(i)
        /\ Result(a, "CONFLICT_BLOCKED") /\ UNCHANGED git
     \/ /\ ~MergeRefused(i) /\ Conflicts(i)
        /\ repo' = [repo EXCEPT !.broken = "merge"]
        /\ Result(a, "CONFLICT_BLOCKED") /\ UNCHANGED <<ref, dropped, ahead, same>>
     \/ /\ ~MergeRefused(i) /\ ~Conflicts(i)
        /\ repo' = IF UpToDate(i) THEN repo
                   ELSE [Commits(repo, Changes[i]) EXCEPT !.main = @ \cup {i}]
        /\ IF UpToDate(i) THEN UNCHANGED <<ahead, same>>
           ELSE FallBehind({i}, Changes[i])
        /\ IF apply[a].saved THEN Step(a, "pop") ELSE Result(a, "DONE")
        /\ UNCHANGED <<ref, dropped>>

\* Mutant of Popped: the entry goes even if it did not apply.
PoppedDropping(r) == [r EXCEPT !.stash = Tail(@)]

\* git stash pop of stash@{0}, whoever pushed it: refused over local changes,
\* left unmerged over files HEAD has changed since; then the entry is kept.
Popped(r) ==
  LET top == Head(r.stash) IN
  CASE r.stash = <<>> \/ r.broken # "no" -> r
    [] r.stash # <<>> /\ r.broken = "no" /\ top.paths \cap r.edits # {} -> r
    [] r.stash # <<>> /\ r.broken = "no" /\ top.paths \cap r.edits = {}
       /\ top.paths \cap top.moved # {} ->
         [r EXCEPT !.edits = @ \cup top.paths, !.broken = "pop"]
    [] OTHER -> [r EXCEPT !.edits = @ \cup top.paths, !.stash = Tail(@)]

ApplyPops(a) ==
  /\ AtApply(a, "pop")
  /\ repo' = Popped(repo)
  /\ Result(a, IF Len(repo'.stash) < Len(repo.stash) THEN "DONE"
               ELSE "CONFLICT_BLOCKED")
  /\ UNCHANGED <<ref, dropped, ahead, same>>

ApplyWrite(a) ==
  /\ AtApply(a, "write")
  /\ SetRow(apply[a].issue, apply[a].to)
  /\ Step(a, "ok")
  /\ UNCHANGED <<row, last, declared, gone, git>>

Applies(a) ==
  /\ \/ /\ ApplyClean(a) \/ ApplyRecheck(a) \/ ApplyMerges(a) \/ ApplyPops(a)
        /\ UNCHANGED rows
     \/ ApplyWrite(a)
  /\ UNCHANGED <<phase, rec, acts, crashes>>

-----------------------------------------------------------------------------
(* Phases: pipeline::execute from the spawn of the agent on                *)

Goto(i, pc) == phase' = [phase EXCEPT ![i].pc = pc]

\* The running set of one merge and the gate behind a blocked one (decide).
LaneFree == /\ \A k \in Issues : status[k] # "CONFLICT_BLOCKED"
            /\ \A k \in Issues : ~(status[k] = "MERGING" /\ Running(k))
FirstMerging(i) ==
  \A k \in Issues : status[k] = "MERGING" /\ ~Running(k) => i <= k

\* The phase for status s is spawned, in the checkout that is recorded.  Without
\* one a branch is made off the default branch, never out of what was deleted: a
\* leftover branch of that name is put aside, but a row loses its checkout and
\* its branch together, so that an issue with a row leaves none.
Spawns(i, s) ==
  /\ phase' = [phase EXCEPT ![i] = [IdlePhase EXCEPT !.pc = "agent", !.before = s]]
  /\ last' = [last EXCEPT ![i] = s]
  /\ row' = row \cup {i} /\ ref' = ref \cup {i}

\* retry_failed_issue: back to the status of the last phase, which is run at
\* once, whatever the lane.
Retriable(i) == status[i] = "FAILED" /\ ~Running(i)
Retries(i) == SetRow(i, last[i]) /\ Spawns(i, last[i])

\* The tick, which the guard keeps out while a reconciliation is at work.
TickSpawns(i) ==
  /\ rec.pc = "idle" /\ ~Running(i)
  /\ \/ status[i] = "MERGING" /\ LaneFree /\ FirstMerging(i)
     \/ status[i] = "RESOLVING_CONFLICT"
  /\ Spawns(i, status[i])
  /\ UNCHANGED <<status, declared, gone, dropped, repo, ahead, same, apply, rec,
                 acts, crashes>>

\* cleanup_issue_worktree: the checkout and its branch, whatever is on it, then
\* the row; nothing if no checkout was recorded when the row was read.
Cleaned(i, recorded) ==
  /\ ref' = IF recorded THEN ref \ {i} ELSE ref
  /\ dropped' = dropped \cup (ref \ ref')
  /\ row' = IF recorded THEN row \ {i} ELSE row

TickTearsDown(i) ==
  /\ rec.pc = "idle" /\ i \in row /\ status[i] \in {"DONE", "ABANDONED"}
  /\ Cleaned(i, TRUE)
  /\ UNCHANGED <<status, last, declared, gone, repo, ahead, same, phase, apply,
                 rec, acts, crashes>>

\* The agent may rebase its branch, fills its outbox and exits or is killed.
AgentExits(i) ==
  /\ phase[i].pc = "agent"
  /\ \E rebases \in BOOLEAN, box \in Boxes :
       /\ ahead' = IF rebases THEN [ahead EXCEPT ![i] = {}] ELSE ahead
       /\ phase' = [phase EXCEPT
            ![i].pc = IF Accepted(phase[i].before, box) THEN "replay" ELSE "fail",
            ![i].rest = IF Accepted(phase[i].before, box) THEN box ELSE <<>>]
  /\ UNCHANGED <<rows, ref, dropped, repo, same, apply, rec, acts, crashes>>

\* The next command; an error is remembered and does not stop the others.
ReplayNext(i) ==
  LET c == Head(phase[i].rest)
      next == [phase[i] EXCEPT !.rest = Tail(@)]
      go(p) == phase' = [phase EXCEPT ![i] = p]
  IN /\ phase[i].pc = "replay" /\ phase[i].rest # <<>>
     /\ \/ c.cmd = "apply" /\ Apply(i, i) /\ go([next EXCEPT !.pc = "apply"])
        \/ /\ c.cmd = "status" /\ status[i] # c.to
           /\ go(IF LegalTransition(status[i], c.to)
                 THEN [phase[i] EXCEPT !.pc = "set"]
                 ELSE [next EXCEPT !.erred = TRUE])
           /\ UNCHANGED apply
        \/ /\ c.cmd # "apply" /\ (c.cmd = "status" => status[i] = c.to)
           /\ go(next) /\ UNCHANGED apply
     /\ UNCHANGED <<rows, git, rec, acts, crashes>>

ReplaySets(i) ==
  LET c == Head(phase[i].rest) IN
  /\ phase[i].pc = "set"
  /\ SetRow(i, c.to) /\ Declare(i, c.to)
  /\ phase' = [phase EXCEPT ![i].pc = "replay", ![i].rest = Tail(@)]
  /\ UNCHANGED <<row, last, gone, git, apply, rec, acts, crashes>>

ReplayApplied(i) ==
  /\ phase[i].pc = "apply" /\ apply[i].pc \in {"ok", "err"}
  /\ phase' = [phase EXCEPT ![i].pc = "replay",
                            ![i].erred = @ \/ apply[i].pc = "err"]
  /\ apply' = [apply EXCEPT ![i] = IdleApply]
  /\ UNCHANGED <<rows, git, rec, acts, crashes>>

\* After the last command: an error fails the issue, and so does a phase that
\* leaves the status as it was.
ReplayEnds(i) ==
  /\ phase[i].pc = "replay" /\ phase[i].rest = <<>>
  /\ Goto(i, IF phase[i].erred \/ status[i] = phase[i].before THEN "fail"
             ELSE "end")
  /\ UNCHANGED <<rows, git, apply, rec, acts, crashes>>

\* transition to FAILED, which a terminal status refuses.
PhaseFails(i) ==
  /\ phase[i].pc = "fail"
  /\ Goto(i, IF LegalTransition(status[i], "FAILED") THEN "failWrite" ELSE "end")
  /\ UNCHANGED <<rows, git, apply, rec, acts, crashes>>

PhaseFailWrites(i) ==
  /\ phase[i].pc = "failWrite"
  /\ SetRow(i, "FAILED") /\ Goto(i, "end")
  /\ UNCHANGED <<row, last, declared, gone, git, apply, rec, acts, crashes>>

PhaseEnds(i) ==
  /\ phase[i].pc = "end"
  /\ phase' = [phase EXCEPT ![i] = IdlePhase]
  /\ UNCHANGED <<rows, git, apply, rec, acts, crashes>>

PhaseStep(i) == \/ AgentExits(i) \/ ReplayNext(i) \/ ReplaySets(i)
                \/ ReplayApplied(i) \/ ReplayEnds(i)
                \/ PhaseFails(i) \/ PhaseFailWrites(i) \/ PhaseEnds(i)

-----------------------------------------------------------------------------
(* Reconciliation                                                          *)

\* What git and the row say of an issue when it is diagnosed.
GitSays(i) == [exists |-> i \in ref, ancestor |-> UpToDate(i), sameTree |-> i \in same,
               overlap |-> repo.edits \cap (Changes[i] \cup ahead[i]) # {},
               conflicts |-> Conflicts(i)]
RowSays(i) == [status |-> status[i], branch |-> i \in row, managed |-> TRUE,
               worktree |-> i \in row, running |-> Running(i)]
Diagnosed(i) == Diagnosis(RowSays(i), GitSays(i))

\* What reconcile_project goes through: every MarkDone of its report up to the
\* first ApplyMerge.
Plan ==
  LET up(i, j) == i < j
      ids == SetToSortSeq(Issues, up)
      all == [n \in DOMAIN ids |-> [issue |-> ids[n],
                                    action |-> Diagnosed(ids[n]).action]]
      todo == SelectSeq(all, LAMBDA x : x.action \in {"MarkDone", "ApplyMerge"})
      merges == {n \in DOMAIN todo : todo[n].action = "ApplyMerge"}
  IN IF merges = {} THEN todo
     ELSE SubSeq(todo, 1, CHOOSE n \in merges : \A m \in merges : n <= m)

\* The checkouts that no row names any more go first, with their branches.
ReconcileStarts ==
  /\ "reconcile" \in OpKinds /\ rec.pc = "idle" /\ acts < Budget
  /\ acts' = acts + 1
  /\ rec' = [IdleRec EXCEPT !.pc = "act", !.items = Plan]
  /\ ref' = ref \cap row /\ dropped' = dropped \cup (ref \ ref')
  /\ UNCHANGED <<rows, repo, ahead, same, phase, apply, crashes>>

\* apply_reconcile_job: a finished job's proposal, however old it is.
ProposalStarts ==
  /\ "proposal" \in OpKinds /\ rec.pc = "idle" /\ acts < Budget
  /\ acts' = acts + 1
  /\ \E p \in Proposals : rec' = [IdleRec EXCEPT !.pc = "act", !.items = p,
                                                 !.job = TRUE]
  /\ UNCHANGED <<rows, git, phase, apply, crashes>>

\* apply_validated_reconcile_action up to its write: everything is diagnosed
\* again, and an action that no longer fits ends the whole command; so does one
\* about an issue that the diagnosis does not list.
ReconcileValidates ==
  /\ rec.pc = "act" /\ rec.items # <<>>
  /\ LET x == Head(rec.items)
         fits == \/ x.action = "ManualRequired"
                 \/ /\ x.issue \in Issues
                    /\ Applyable(Diagnosed(x.issue), RowSays(x.issue), x.action)
         pc == CASE ~fits -> "refused"
                 [] fits /\ x.action = "ManualRequired" -> "act"
                 [] OTHER -> "write"
     IN rec' = [rec EXCEPT !.pc = pc,
                  !.was = IF pc = "write" THEN status[x.issue] ELSE @,
                  !.items = IF pc = "act" THEN Tail(@) ELSE @]
  /\ UNCHANGED <<rows, git, phase, apply, acts, crashes>>

\* Statements that write only if the status is still the expected one.
WriteIf(i, from, to) ==
  IF status[i] = from THEN SetRow(i, to) ELSE UNCHANGED status

RecNext == rec' = [rec EXCEPT !.pc = "act", !.items = Tail(@)]
RecGoto(pc) == rec' = [rec EXCEPT !.pc = pc]

ReconcileWrites ==
  LET x == Head(rec.items)
      i == x.issue
  IN /\ rec.pc = "write"
     /\ \/ /\ x.action = "MarkDone" /\ WriteIf(i, rec.was, "DONE")
           /\ RecGoto(IF status[i] = rec.was THEN "tidy" ELSE "refused")
           /\ UNCHANGED <<row, ref, dropped, last, phase>>
        \/ /\ x.action = "CleanupWorktree" /\ Cleaned(i, i \in row) /\ RecNext
           /\ UNCHANGED <<status, last, phase>>
        \/ /\ x.action = "RetryIssue" /\ Retriable(i) /\ Retries(i) /\ RecNext
           /\ UNCHANGED dropped
        \/ /\ x.action = "RetryIssue" /\ ~Retriable(i) /\ RecGoto("refused")
           /\ UNCHANGED <<status, row, ref, dropped, last, phase>>
        \/ /\ x.action = "ApplyMerge"
           /\ WriteIf(i, "READY_TO_MERGE", "MERGING")
           /\ IF status[i] = "READY_TO_MERGE" THEN RecNext ELSE RecGoto("refused")
           /\ UNCHANGED <<row, ref, dropped, last, phase>>
     /\ UNCHANGED <<declared, gone, repo, ahead, same, apply, acts, crashes>>

\* mark_reconciled_done goes on to the checkout of the issue it read before.
ReconcileTidies ==
  /\ rec.pc = "tidy"
  /\ LET i == Head(rec.items).issue IN Cleaned(i, i \in row) /\ RecNext
  /\ UNCHANGED <<status, last, declared, gone, repo, ahead, same, phase, apply,
                 acts, crashes>>

\* The report, or the error; the guard is dropped.  (The agentic job that may
\* be queued here is in MainJobs.)
ReconcileEnds ==
  /\ \/ rec.pc = "refused"
     \/ rec.pc = "act" /\ rec.items = <<>>
  /\ rec' = IdleRec
  /\ UNCHANGED <<rows, git, phase, apply, acts, crashes>>

ReconcileStep == ReconcileValidates \/ ReconcileWrites \/ ReconcileTidies
                 \/ ReconcileEnds

-----------------------------------------------------------------------------
(* Operators                                                               *)

\* A checked transition by a handler, written by HandlerSets.
Asks(h, i, to) ==
  apply' = [apply EXCEPT ![h] =
              [IdleApply EXCEPT !.issue = i, !.to = to,
                 !.pc = IF LegalTransition(status[i], to) THEN "set" ELSE "err"]]

\* approve_project_merge: no blocked issue, and no ready issue whose diagnosis
\* is anything but a clean merge.
ProjectReleasable ==
  /\ \A k \in Issues : status[k] # "CONFLICT_BLOCKED"
  /\ \A k \in Issues : status[k] = "READY_TO_MERGE"
                         => Diagnosed(k).action = "ApplyMerge"

\* cleanup_issue_worktree_by_id, abandon_issue and remove_issue, which is also
\* what remove_project does to each of its issues: no phase is running and the
\* row is read; only an abandoned issue must not be archived already.
AsksDiscard(h, i, kind) ==
  /\ ~Running(i) /\ i \notin gone
  /\ kind = "abandon" => status[i] \notin Terminal
  /\ apply' = [apply EXCEPT ![h] =
               [IdleApply EXCEPT !.pc = kind, !.issue = i, !.saved = i \in row]]

Handled(h) ==
  \/ \E i \in Issues, kind \in Discarding \cap OpKinds : AsksDiscard(h, i, kind)
  \/ "apply" \in OpKinds /\ \E i \in Issues : Apply(h, i)
  \/ /\ "approve" \in OpKinds
     /\ \E i \in Issues :
          /\ ~Running(i) /\ status[i] = "READY_TO_MERGE"
          /\ \A k \in Issues : status[k] # "CONFLICT_BLOCKED"
          /\ Asks(h, i, "MERGING")
  \/ /\ "set" \in OpKinds
     /\ \E i \in Issues, to \in {"RESOLVING_CONFLICT", "MERGING"} :
          status[i] = "CONFLICT_BLOCKED" /\ Asks(h, i, to)

\* Approval of the whole queue, and phases that are run at once: no other step
\* of theirs is told apart.
AtOnce ==
  \/ /\ "approveAll" \in OpKinds /\ ProjectReleasable
     /\ status' = [i \in Issues |-> IF status[i] = "READY_TO_MERGE" /\ ~Running(i)
                                    THEN "MERGING" ELSE status[i]]
     /\ UNCHANGED <<row, ref, last, phase>>
  \/ /\ "run" \in OpKinds
     /\ \E i \in Issues : HasPhase(status[i]) /\ ~Running(i) /\ Spawns(i, status[i])
     /\ UNCHANGED status
  \/ "retry" \in OpKinds /\ \E i \in Issues : Retriable(i) /\ Retries(i)

Operator(h) ==
  /\ AtApply(h, "idle") /\ acts < Budget /\ acts' = acts + 1
  /\ \/ Handled(h) /\ UNCHANGED <<status, row, ref, last, phase>>
     \/ AtOnce /\ UNCHANGED apply
  /\ UNCHANGED <<declared, gone, dropped, repo, ahead, same, rec, crashes>>

\* The checkout and the branch go, then the status or the row.
HandlerDiscards(h) ==
  /\ apply[h].pc \in Discarding
  /\ Cleaned(apply[h].issue, apply[h].saved)
  /\ Step(h, CASE AtApply(h, "cleanup") -> "ok"
               [] AtApply(h, "abandon") -> "giveUp"
               [] AtApply(h, "remove") -> "delete")
  /\ UNCHANGED <<status, last, declared, gone, repo, ahead, same, phase, rec,
                 acts, crashes>>

HandlerGivesUp(h) ==
  /\ AtApply(h, "giveUp")
  /\ Asks(h, apply[h].issue, "ABANDONED")
  /\ UNCHANGED <<rows, git, phase, rec, acts, crashes>>

\* issues::remove.  A checkout that a phase recorded meanwhile is named by no row
\* from now on.
HandlerDeletes(h) ==
  LET i == apply[h].issue IN
  /\ AtApply(h, "delete")
  /\ status' = [status EXCEPT ![i] = "ABANDONED"]
  /\ gone' = gone \cup {i} /\ row' = row \ {i}
  /\ Step(h, "ok")
  /\ UNCHANGED <<last, declared, git, phase, rec, acts, crashes>>

HandlerSets(h) ==
  /\ AtApply(h, "set")
  /\ SetRow(apply[h].issue, apply[h].to) /\ Declare(apply[h].issue, apply[h].to)
  /\ Step(h, "ok")
  /\ UNCHANGED <<row, last, gone, git, phase, rec, acts, crashes>>

HandlerEnds(h) ==
  /\ apply[h].pc \in {"ok", "err"}
  /\ apply' = [apply EXCEPT ![h] = IdleApply]
  /\ UNCHANGED <<rows, git, phase, rec, acts, crashes>>

HandlerStep(h) == \/ HandlerDiscards(h) \/ HandlerGivesUp(h) \/ HandlerDeletes(h)
                  \/ HandlerSets(h) \/ HandlerEnds(h)

-----------------------------------------------------------------------------
(* The user of the primary worktree                                        *)

\* A conflict is left by resolving it: a merge is committed or aborted, a pop
\* that failed is resolved in the files, and its entry is dropped or kept.
UserResolves ==
  \/ /\ repo.broken = "merge"
     /\ \/ repo' = [repo EXCEPT !.broken = "no"] /\ UNCHANGED <<ahead, same>>
        \/ \E i \in ref :
             /\ status[i] = "CONFLICT_BLOCKED" /\ Conflicts(i)
             /\ repo' = [Commits(repo, Changes[i]) EXCEPT !.broken = "no",
                                                          !.main = @ \cup {i}]
             /\ FallBehind({i}, Changes[i])
  \/ /\ repo.broken = "pop"
     /\ \E keeps \in BOOLEAN :
          repo' = [repo EXCEPT !.broken = "no",
                               !.stash = IF keeps THEN @ ELSE Tail(@)]
     /\ UNCHANGED <<ahead, same>>

UserWorks ==
  /\ acts < Budget /\ acts' = acts + 1
  /\ \/ /\ "edit" \in UserActs
        /\ \E p \in Paths : repo' = [repo EXCEPT !.edits = @ \cup {p},
                                                 !.mine = @ \cup {p}]
        /\ UNCHANGED <<ahead, same>>
     \/ /\ "commit" \in UserActs /\ repo.broken = "no" /\ repo.edits # {}
        /\ repo' = [Commits(repo, repo.edits) EXCEPT !.edits = {},
                                                     !.mine = @ \ repo.edits]
        /\ FallBehind({}, repo.edits)
     \/ /\ "squash" \in UserActs /\ repo.broken = "no" /\ repo.edits = {}
        /\ \E i \in ref :
             /\ ~Represented(i) /\ ~UpToDate(i) /\ ~Conflicts(i)
             /\ repo' = [Commits(repo, Changes[i]) EXCEPT !.squashed = @ \cup {i}]
             /\ ahead' = [j \in Issues |-> ahead[j] \cup Changes[i]]
             /\ same' = IF ahead[i] = {} THEN {i} ELSE {}
     \/ "resolve" \in UserActs /\ UserResolves
  /\ UNCHANGED <<rows, ref, dropped, phase, apply, rec, crashes>>

-----------------------------------------------------------------------------
\* The daemon dies and recovers: an issue whose run is open and whose status is
\* still that of the run fails; replays and merges are not taken up again.  The
\* runs of a removed issue went with its row.
Crash ==
  /\ crashes < MaxCrashes /\ crashes' = crashes + 1
  /\ status' = [i \in Issues |->
       IF Running(i) /\ i \notin gone /\ status[i] = phase[i].before
       THEN "FAILED" ELSE status[i]]
  /\ phase' = [i \in Issues |-> IdlePhase]
  /\ apply' = [a \in Appliers |-> IdleApply]
  /\ rec' = IdleRec
  /\ UNCHANGED <<row, last, declared, gone, git, acts>>

Next ==
  \/ \E i \in Issues : TickSpawns(i) \/ TickTearsDown(i) \/ PhaseStep(i)
  \/ \E a \in Appliers : Applies(a)
  \/ \E h \in Handlers : Operator(h) \/ HandlerStep(h)
  \/ ReconcileStarts \/ ProposalStarts \/ ReconcileStep
  \/ UserWorks \/ Crash

Spec == Init /\ [][Next]_vars

-----------------------------------------------------------------------------
(* Properties                                                              *)

\* What the user has not committed is never lost to a merge, whatever it does
\* to the worktree in between and wherever it stops or crashes: it is in the
\* files or in the stash.
UserChangesKept ==
  repo.mine \subseteq repo.edits
                      \cup UNION {repo.stash[n].paths : n \in DOMAIN repo.stash}

\* An issue the daemon itself takes to DONE, by a merge or by a reconciliation,
\* has its work in HEAD, though git, rows and users move between the steps;
\* unless its branch was deleted before, which NoWorkLost leaves to a decision.
DoneIsMerged ==
  \A i \in Issues :
    status[i] = "DONE" => Represented(i) \/ i \in declared \cup dropped

\* A branch with work is deleted only when the work is in HEAD, when the issue
\* had been declared done or given up, when it was failed or given up as its
\* cleanup was agreed to, or by the handler of an operator who asked for it to
\* be cleaned up, abandoned or removed.
NoWorkLost ==
  [][\A i \in (ref \ ref') \ dropped :
       \/ Represented(i) \/ i \in declared \/ status[i] = "ABANDONED"
       \/ rec.pc = "write" /\ rec.was \in {"FAILED", "ABANDONED"}
       \/ \E h \in Handlers : apply[h].issue = i /\ HandlerDiscards(h)]_vars

\* Whatever operators and merges have made of the status since, the status an
\* agent's outbox sets is one it could have set when it was spawned.
AgentStaysInPhase ==
  [][\A i \in Issues \ gone : phase[i].pc = "set" /\ phase'[i].pc = "replay"
       => LegalTransition(phase[i].before, status'[i])]_vars
=============================================================================
