--------------------------- MODULE ControlOutbox ---------------------------
(***************************************************************************)
(* The control outbox of a phase (control_outbox.rs): an issue agent does  *)
(* not talk to the daemon, its commands are appended to a file, and the    *)
(* daemon validates the whole file and dispatches it after the agent has   *)
(* exited.  Constant-level: which commands the agent's own command line    *)
(* appends, and which files the daemon accepts.  What a dispatched command *)
(* does is in LocalMerge.                                                  *)
(***************************************************************************)
EXTENDS IssueStatus, Integers, Sequences

\* SetIssueStatus and ApplyIssueMerge of the agent's own issue; "note" is a
\* subtask or a finding of it, "foreign" any other command or one about rows
\* the snapshot does not list, "torn" a line that does not decode: longer than
\* 16 KiB, not UTF-8, or cut short because the agent was killed.
Command == [cmd : {"status", "apply", "note", "foreign", "torn"}, to : Status,
            force : BOOLEAN]
SetStatus(to) == [cmd |-> "status", to |-> to, force |-> FALSE]
ForceStatus(to) == [cmd |-> "status", to |-> to, force |-> TRUE]
Plain(cmd) == [cmd |-> cmd, to |-> "NEW", force |-> FALSE]
ApplyMerge == Plain("apply")
Note == Plain("note")

\* is_recordable_for_issue
Recordable(c) == c.cmd \in {"status", "apply", "note"}

\* handle_local_command: what the agent's command line appends.  Everything
\* else is answered from the snapshot or refused on the spot.
Appended(tried) == SelectSeq(tried, Recordable)

\* decode_commands_from_file, with its limit on commands.
MaxOutboxCommands == 1024
Decodes(box) == /\ Len(box) <= MaxOutboxCommands
                /\ \A n \in DOMAIN box : box[n].cmd # "torn"

FinalCommands(box) == {n \in DOMAIN box : box[n].cmd \in {"status", "apply"}}

\* One line of validate_replay_commands, against the snapshot of the issue
\* taken before the agent was spawned.
LineValid(before, c) ==
  /\ Recordable(c)
  /\ c.cmd = "status" => ~c.force /\ LegalTransition(before, c.to)
  /\ c.cmd = "apply" => before = "MERGING"

\* Mutant of Accepted: the legality of the transition is left to the dispatch.
AcceptedUnchecked(before, box) ==
  /\ Decodes(box)
  /\ \A n \in DOMAIN box : Recordable(box[n]) /\ ~box[n].force
  /\ box # <<>> => \E n \in DOMAIN box : FinalCommands(box) = {n}

\* replay() up to its loop: an outbox that is not empty ends the phase with
\* exactly one command that decides the status.
Accepted(before, box) ==
  /\ Decodes(box)
  /\ \A n \in DOMAIN box : LineValid(before, box[n])
  /\ box # <<>> => \E n \in DOMAIN box : FinalCommands(box) = {n}
=============================================================================
