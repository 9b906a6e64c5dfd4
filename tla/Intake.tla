------------------------------- MODULE Intake -------------------------------
(***************************************************************************)
(* What backlog intake promises, whoever routes: an item is filed pending  *)
(* or approved, a human or a removal decides on it, it is placed in one    *)
(* issue at a time and only once it is no longer pending, in a new issue   *)
(* or one whose door is open, and it leaves that issue only when the issue *)
(* is removed, with every other item of the issue.  An issue comes from an *)
(* item and from nothing else.  BacklogRouting implements it.              *)
(***************************************************************************)
CONSTANTS Items, Issues, None

VARIABLES
  gate,    \* the admission gate of an item
  place,   \* the issue an item became part of, None while it is live backlog
  door     \* of an issue: absent, open to further items, or closed

vars == <<gate, place, door>>

Init ==
  /\ gate = [it \in Items |-> "unfiled"]
  /\ place = [it \in Items |-> None]
  /\ door = [i \in Issues |-> "absent"]

\* Humans and the inbox file approved items, agents and routines pending ones.
File(it) ==
  /\ gate[it] = "unfiled"
  /\ \E g \in {"pending", "approved"} : gate' = [gate EXCEPT ![it] = g]
  /\ UNCHANGED <<place, door>>

\* Filed items are approved or dismissed, together or one by one.
Judge(S, g) ==
  /\ \A it \in S : gate[it] # "unfiled"
  /\ gate' = [it \in Items |-> IF it \in S THEN g ELSE gate[it]]
  /\ UNCHANGED <<place, door>>

\* The item makes the issue, or joins it.
Place(it, i) ==
  /\ place[it] = None /\ gate[it] \in {"approved", "dismissed"}
  /\ door[i] \in {"absent", "open"}
  /\ place' = [place EXCEPT ![it] = i]
  /\ door' = [door EXCEPT ![i] = "open"]
  /\ UNCHANGED gate

\* The issue is removed: its items have no place any more.
Return(i) ==
  /\ place' = [it \in Items |-> IF place[it] = i THEN None ELSE place[it]]
  /\ door' = [door EXCEPT ![i] = "absent"]
  /\ UNCHANGED gate

\* Work on an issue closes it to further items, or opens it again.
Work(i) ==
  /\ door[i] # "absent"
  /\ \E d \in {"open", "closed"} : door' = [door EXCEPT ![i] = d]
  /\ UNCHANGED <<gate, place>>

Next ==
  \/ \E it \in Items : File(it)
  \/ \E S \in SUBSET Items, g \in {"approved", "dismissed"} : Judge(S, g)
  \/ \E it \in Items, i \in Issues : Place(it, i)
  \/ \E i \in Issues : Return(i) \/ Work(i)

Spec == Init /\ [][Next]_vars
=============================================================================
