----------------------------- MODULE MCConsole -----------------------------
(***************************************************************************)
(* A small instance of Console for TLC: two projects, the first with two   *)
(* issues and a backlog item that may appear.                              *)
(***************************************************************************)
EXTENDS Console

MCOwnerOf == [issue |-> [i \in Issues |-> 1], backlog |-> [b \in Backlog |-> 1],
              routine |-> [r \in Routines |-> 1]]
MCStart == [i \in Issues |-> "PLANNING"]
MCSeen == {"READY_TO_MERGE", "DONE"}

=============================================================================
