-------------------------- MODULE MCIssuePipeline --------------------------
(***************************************************************************)
(* Small instances of IssuePipeline for TLC: which operator commands run   *)
(* beside the tick and the phase tasks.                                    *)
(***************************************************************************)
EXTENDS IssuePipeline

NoTargets == {}
JumpTargets == {"WORKING", "DONE"}
\* Commands that respect both the matrix and the running set at their end.
QuietKinds == {"run", "retry", "approve", "steer", "consume"}
\* Commands of an operator who repairs a project.
RepairKinds == {"retry", "cleanup", "set", "prune", "abandon", "remove", "force"}
=============================================================================
