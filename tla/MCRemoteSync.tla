---------------------------- MODULE MCRemoteSync ----------------------------
(***************************************************************************)
(* Small instances of RemoteSync for TLC, and the statement of the README  *)
(* about it that the code does not keep.                                   *)
(***************************************************************************)
EXTENDS RemoteSync

\* "Later scheduler ticks observe linked PRs; when GitHub reports the PR as
\* merged, auwsx updates the remote PR link ... and marks the local issue DONE"
\* (README.md:43).
MergedMeansDone ==
  \A i \in Issues : \A n \in 1..MaxPrs :
    status[i] = "READY_TO_MERGE" /\ prLink[i].number = n /\ pr[i][n] = "merged"
      ~> status[i] # "READY_TO_MERGE" \/ prLink[i].number # n
=============================================================================
