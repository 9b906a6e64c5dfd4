---------------------------- MODULE IssueStatus ----------------------------
(***************************************************************************)
(* The issue status machine of auwsx-core (src/crates/auwsx-core/src/      *)
(* state.rs): sixteen statuses, three scheduler classes, the matrix of     *)
(* legal autonomous transitions, and the predicates the scheduler, the     *)
(* pipeline and the queue read from it.  Constant-level: every stateful    *)
(* module of the project EXTENDS it, and none repeats it.                  *)
(***************************************************************************)

\* scheduler_class(): an agent runs the phase.
Actionable == {"NEW", "PLANNING", "WORKING", "REVIEWING", "FIXING",
               "AUDITING", "MERGING", "RESOLVING_CONFLICT"}

\* scheduler_class(): waits for a human or for a soft gate.
HumanGated == {"PLAN_READY", "PLAN_BLOCKED", "REVIEW_BLOCKED",
               "READY_TO_MERGE", "CONFLICT_BLOCKED"}

\* scheduler_class(): archived.
Terminal == {"DONE", "FAILED", "ABANDONED"}

Status == Actionable \cup HumanGated \cup Terminal

\* Every non-terminal status may be cancelled or fail.
CancelEdges == {<<s, t>> : s \in Actionable \cup HumanGated,
                           t \in {"FAILED", "ABANDONED"}}

PhaseEdges ==
  {<<"NEW", "PLANNING">>,
   <<"PLANNING", "PLAN_READY">>, <<"PLANNING", "PLAN_BLOCKED">>,
   <<"PLAN_READY", "WORKING">>, <<"PLAN_READY", "PLANNING">>,
   <<"PLAN_BLOCKED", "PLANNING">>,
   <<"WORKING", "REVIEWING">>,
   <<"REVIEWING", "FIXING">>, <<"REVIEWING", "AUDITING">>,
   <<"REVIEWING", "REVIEW_BLOCKED">>,
   <<"FIXING", "REVIEWING">>, <<"FIXING", "REVIEW_BLOCKED">>,
   <<"REVIEW_BLOCKED", "FIXING">>, <<"REVIEW_BLOCKED", "AUDITING">>,
   <<"AUDITING", "READY_TO_MERGE">>, <<"AUDITING", "FIXING">>,
   <<"READY_TO_MERGE", "WORKING">>, <<"READY_TO_MERGE", "MERGING">>,
   <<"MERGING", "DONE">>, <<"MERGING", "RESOLVING_CONFLICT">>,
   <<"MERGING", "CONFLICT_BLOCKED">>,
   <<"RESOLVING_CONFLICT", "MERGING">>,
   <<"RESOLVING_CONFLICT", "CONFLICT_BLOCKED">>,
   <<"CONFLICT_BLOCKED", "MERGING">>,
   <<"CONFLICT_BLOCKED", "RESOLVING_CONFLICT">>}

\* is_legal_transition(from, to), and check_transition's Ok case.
LegalTransition(from, to) == <<from, to>> \in PhaseEdges \cup CancelEdges

\* accepts_queue_message(): the statuses a user or the backlog router may
\* append guidance to.
AcceptsQueueMessage ==
  {"NEW", "PLANNING", "PLAN_READY", "PLAN_BLOCKED", "WORKING", "REVIEWING",
   "FIXING", "AUDITING", "READY_TO_MERGE"}

\* pipeline::plan_phase(s).is_some(); every such phase wants a worktree.
HasPhase(s) == s \in {"NEW", "PLANNING", "WORKING", "REVIEWING", "FIXING",
                      "AUDITING", "MERGING", "RESOLVING_CONFLICT"}
=============================================================================
