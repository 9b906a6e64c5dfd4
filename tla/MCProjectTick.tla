--------------------------- MODULE MCProjectTick ---------------------------
(***************************************************************************)
(* Small instances of ProjectTick for TLC.                                 *)
(***************************************************************************)
EXTENDS ProjectTick

Project(cap, mode, policy, plan, completion) ==
  [max_concurrency |-> cap, merge_mode |-> mode, completion_policy |-> policy,
   plan_gate_min |-> plan, completion_min |-> completion]

\* Merges that nobody has to release beside other work, merges that wait a
\* minute and have one slot with all else, and plans that wait two minutes where
\* merges are pull requests.
MCSettings == {Project(2, "local", "auto", 0, 0), Project(1, "local", "soft", 0, 1),
               Project(1, "pr", "manual", 2, 0)}

MCStart == {"NEW", "AUDITING", "READY_TO_MERGE", "MERGING", "PLAN_BLOCKED"}
MCDeclared == {"PLAN_READY", "PLAN_BLOCKED", "AUDITING", "READY_TO_MERGE",
               "DONE", "RESOLVING_CONFLICT", "CONFLICT_BLOCKED", "MERGING"}
AllOps == {"run", "approve", "execute", "answer"}

=============================================================================
