----------------------------- MODULE Reconcile -----------------------------
(***************************************************************************)
(* What reconciliation makes of an issue (reconcile.rs): the diagnosis of  *)
(* its row, branch and the primary worktree, the action it proposes, and   *)
(* which actions of an agent's proposal are accepted.  Constant-level; g   *)
(* says what git answers about the branch of an issue and q what the row   *)
(* holds.                                                                  *)
(***************************************************************************)
EXTENDS IssueStatus

\* g: exists, ancestor, sameTree, overlap (the dirty paths of the primary
\* worktree meet the paths the branch changes), conflicts (merge-tree).
\* q: status, branch (a branch is recorded), managed (it is auwsx/issue-N),
\* worktree (a checkout is recorded), running.
Found(diagnosis, action) == [diagnosis |-> diagnosis, action |-> action]

\* is_merge_recovery_status
MergeRecovery == {"READY_TO_MERGE", "MERGING", "CONFLICT_BLOCKED"}

\* diagnose_issue without a branch.
BranchlessDiagnosis(q) ==
  CASE q.status \in MergeRecovery -> Found("MissingBranch", "ManualRequired")
    [] q.status = "FAILED" /\ ~q.worktree ->
         Found("Unknown", "QueueAgenticReconcile")
    [] OTHER -> Found("Unknown", "None")

\* The release of a merge: checked against the worktree and by merge-tree.
ReleaseDiagnosis(g) ==
  CASE g.overlap -> Found("RestoreDirtyBlocked", "QueueAgenticReconcile")
    [] ~g.overlap /\ g.conflicts -> Found("MergeConflict", "QueueAgenticReconcile")
    [] OTHER -> Found("SafeToMerge", "ApplyMerge")

\* diagnose_issue, in the order of its early returns.
Diagnosis(q, g) ==
  CASE q.running -> Found("Running", "None")
    [] ~q.running /\ ~q.branch -> BranchlessDiagnosis(q)
    [] ~q.running /\ q.branch /\ ~q.managed
         /\ q.status \in MergeRecovery \cup {"FAILED"} ->
         Found("Unknown", "ManualRequired")
    [] OTHER ->
         IF ~g.exists THEN Found("MissingBranch", "ManualRequired")
         ELSE IF q.status \in MergeRecovery /\ g.ancestor
         THEN Found("RepresentedInMain", "MarkDone")
         ELSE IF q.status \in MergeRecovery /\ g.sameTree
         THEN Found("StaleNoDiffBranch", "MarkDone")
         ELSE IF q.status \in {"READY_TO_MERGE", "MERGING"}
         THEN ReleaseDiagnosis(g)
         ELSE IF q.status = "FAILED" /\ q.worktree
         THEN Found("FailedWithWorktree", "QueueAgenticReconcile")
         ELSE Found("Unknown", "QueueAgenticReconcile")

\* Mutant of Applyable: a proposal is taken at its word.
ApplyableTrusted(f, q, action) == action # "QueueAgenticReconcile"

\* validate_reconcile_action, validate_agent_action: what may be done about an
\* issue found to be f with the row q.
Applyable(f, q, action) ==
  \/ action = "ManualRequired"
  \/ /\ action = "MarkDone"
     /\ f.diagnosis \in {"RepresentedInMain", "StaleNoDiffBranch"}
  \/ /\ action = "CleanupWorktree"
     /\ q.branch /\ q.managed /\ q.worktree /\ q.status \in Terminal
  \/ action = "RetryIssue" /\ q.status = "FAILED" /\ ~q.running
  \/ action = "ApplyMerge" /\ f.diagnosis = "SafeToMerge"
=============================================================================
