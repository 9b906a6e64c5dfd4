---------------------------- MODULE MCLocalMerge ----------------------------
(***************************************************************************)
(* A small instance of LocalMerge for TLC: two issues whose branches touch *)
(* the same file.                                                          *)
(***************************************************************************)
EXTENDS LocalMerge

MCChanges == [i \in Issues |-> Paths]
MCStart == [i \in Issues |-> IF i = 1 THEN "READY_TO_MERGE" ELSE "MERGING"]

\* What agents leave: what the prompts ask for, more than one command, several
\* final commands, nothing, and a file cut short.
MCBoxes == {<<>>, <<ApplyMerge, Note>>, <<SetStatus("RESOLVING_CONFLICT")>>,
            <<SetStatus("MERGING")>>, <<SetStatus("DONE")>>,
            <<ApplyMerge, SetStatus("DONE")>>, <<ApplyMerge, Plain("torn")>>}
MCProposals == {<<[issue |-> 1, action |-> "MarkDone"]>>,
                <<[issue |-> 1, action |-> "CleanupWorktree"]>>,
                <<[issue |-> 1, action |-> "RetryIssue"]>>,
                <<[issue |-> 2, action |-> "ManualRequired"],
                  [issue |-> 2, action |-> "ApplyMerge"]>>,
                <<[issue |-> 3, action |-> "ManualRequired"],
                  [issue |-> 3, action |-> "CleanupWorktree"]>>}

=============================================================================
