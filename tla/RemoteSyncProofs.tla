-------------------------- MODULE RemoteSyncProofs --------------------------
(***************************************************************************)
(* Theorems about RemoteSync for any number of issues, handlers, remote    *)
(* numbers, deliveries and pull requests: the state stays well typed, an   *)
(* issue is DONE only if the pull request its link names was merged, an    *)
(* issue gets one remote issue and a delivery one backlog item.            *)
(***************************************************************************)
EXTENDS RemoteSync, FiniteSetTheorems, TLAPS

\* The pull request a row or a link speaks of exists, and is merged if the
\* speaker says so: a merged pull request stays merged.
Honest(i, said) ==
  /\ said \in PrRow /\ said.number \in DOMAIN pr[i]
  /\ said.state = "merged" => pr[i][said.number] = "merged"

LinksHonest ==
  \A i \in Issues : /\ Len(pr[i]) <= MaxPrs
                    /\ prLink[i] = NoPr \/ Honest(i, prLink[i])

\* What an actor is about to queue is for an issue.
AddingNamed ==
  \A a \in Actors : /\ adding[a].free => adding[a].kinds # {}
                    /\ adding[a].kinds # {} => adding[a].issue \in Issues

\* The tick has read a pull request, or is on the way to writing a link.
HasReadPr == At("update") \/ (At("store") /\ tick.row.kind = "pr")
WillLinkPr ==
  \/ tick.pc \in {"call", "store"} /\ tick.row.kind = "pr"
  \/ tick.pc \in {"look", "update"}

\* The tick counts no more rows than are queued, works on a row, and what it
\* read of a pull request is true of it.
TickHonest ==
  /\ tick.left <= Len(queue)
  /\ tick.pc \in {"call", "store", "look", "update", "mark"} => tick.row \in Row
  /\ tick.pc \in {"look", "update"} => prLink[tick.row.issue] # NoPr
  /\ HasReadPr => Honest(tick.row.issue, tick.got)
  /\ Unstored => tick.got \in Remotes
  /\ tick.pc = "mark" => prLink[tick.row.issue].state = "merged"

\* The tick rewrites the link of no issue that is DONE, also later in its list:
\* rows are claimed and lists are made for READY_TO_MERGE, and only the tick
\* itself makes an issue DONE.
TickSparesDone ==
  /\ WillLinkPr => status[tick.row.issue] # "DONE"
  /\ \A i \in tick.list :
       /\ status[i] # "DONE"
       /\ tick.pc \in {"look", "update", "mark"} => i # tick.row.issue

DoneLinked ==
  \A i \in Issues : status[i] = "DONE" => prLink[i].state = "merged"

MergeInv ==
  /\ TypeOK /\ LinksHonest /\ AddingNamed /\ TickHonest /\ TickSparesDone
  /\ DoneLinked

-----------------------------------------------------------------------------
(* The state stays well typed                                              *)

LEMMA MergeInvInit == Init => MergeInv
  BY RemoteAssumption
     DEF Init, MergeInv, TypeOK, LinksHonest, AddingNamed, TickHonest, HasReadPr, Unstored,
         TickSparesDone, WillLinkPr, At, DoneLinked, IdleTick, IdleHook, NoLink,
         NotAdding, NoPr, Row, Actors

\* What is left to queue is again a record of that kind, and names an issue.
AddTodo == [issue : Issues \cup {None}, kinds : SUBSET Kinds, free : BOOLEAN]

LEMMA PlanTyped ==
  ASSUME NEW i \in Issues
  PROVE  /\ Plan(i) \in SUBSET Kinds
         /\ ToAdd(i) \in AddTodo
         /\ ToAdd(i).free = FALSE
         /\ ToAdd(i).kinds # {} => ToAdd(i).issue = i
  BY DEF Plan, ToAdd, NotAdding, Kinds, AddTodo

LEMMA RestTyped ==
  ASSUME TypeOK, AddingNamed, NEW a \in Actors, adding[a].kinds # {}
  PROVE  /\ Kind(a) \in Kinds
         /\ Rest(a) \in AddTodo
         /\ Rest(a).free = FALSE
         /\ Rest(a).kinds # {} => Rest(a).issue = adding[a].issue
<1>1. adding[a] \in AddTodo
  BY DEF TypeOK, AddTodo
<1>2. Kind(a) \in Kinds
  BY DEF Kind, Kinds
<1>3. CASE adding[a].kinds = {Kind(a)}
  BY <1>2, <1>3 DEF Rest, NotAdding, AddTodo, Kinds
<1>4. CASE adding[a].kinds # {Kind(a)}
  <2> DEFINE rest == [adding[a] EXCEPT !.kinds = @ \ {Kind(a)}, !.free = FALSE]
  <2>1. rest \in AddTodo /\ rest.free = FALSE /\ rest.issue = adding[a].issue
    BY <1>1 DEF AddTodo
  <2>2. Rest(a) = rest
    BY <1>4 DEF Rest
  <2> QED
    BY <1>2, <2>1, <2>2
<1> QED
  BY <1>3, <1>4

LEMMA AddingTypeInv ==
  ASSUME TypeOK, AddingNamed, NEW a \in Actors, AddCheck(a) \/ AddRow(a)
  PROVE  TypeOK' /\ AddingNamed'
<1>0. /\ adding[a] \in AddTodo /\ adding \in [Actors -> AddTodo]
      /\ adding[a].kinds # {} /\ adding[a].issue \in Issues
  BY DEF TypeOK, AddingNamed, AddTodo, AddCheck, AddRow
<1>1. Kind(a) \in Kinds /\ Rest(a) \in AddTodo /\ Rest(a).free = FALSE
      /\ (Rest(a).kinds # {} => Rest(a).issue = adding[a].issue)
  BY <1>0, RestTyped
<1>2. CASE AddCheck(a)
  <2>1. PICK todo \in AddTodo :
          /\ adding' = [adding EXCEPT ![a] = todo]
          /\ todo.free => todo.kinds # {}
          /\ todo.kinds # {} => todo.issue \in Issues
    <3>1. CASE Active(adding[a].issue, Kind(a))
      BY <1>2, <1>0, <1>1, <3>1 DEF AddCheck
    <3>2. CASE ~Active(adding[a].issue, Kind(a))
      <4> DEFINE todo == [adding[a] EXCEPT !.free = TRUE]
      <4>1. adding' = [adding EXCEPT ![a] = todo]
        BY <1>2, <3>2 DEF AddCheck
      <4>2. /\ todo \in AddTodo /\ todo.kinds = adding[a].kinds
            /\ todo.issue = adding[a].issue
        BY <1>0 DEF AddTodo
      <4> QED
        BY <4>1, <4>2, <1>0
    <3> QED
      BY <3>1, <3>2
  <2>2. adding' \in [Actors -> AddTodo]
    BY <1>0, <2>1
  <2>3. AddingNamed'
    BY <1>0, <2>1 DEF AddingNamed
  <2> QED
    BY <1>2, <2>2, <2>3
       DEF AddCheck, TypeOK, AddTodo, rows, inbound, remote
<1>3. CASE AddRow(a)
  <2>1. [issue |-> adding[a].issue, kind |-> Kind(a)] \in Row
    BY <1>0, <1>1 DEF Row
  <2>2. queue' \in Seq(Row) /\ adding' \in [Actors -> AddTodo]
    BY <1>3, <1>0, <1>1, <2>1 DEF AddRow, TypeOK
  <2> QED
    BY <1>3, <1>0, <1>1, <2>2
       DEF AddRow, TypeOK, AddingNamed, AddTodo, inbound, remote
<1> QED
  BY <1>2, <1>3

TickType == [pc : {"idle", "queue", "sync", "call", "store", "observe",
                   "look", "update", "mark", "finish", "close"},
             left : 0..Limit, row : Row \cup {None},
             got : Remotes \cup PrRow \cup {None}, list : SUBSET Issues]

LEMMA BranchPrExists ==
  ASSUME TypeOK, LinksHonest, NEW i \in Issues, pr[i] # <<>>
  PROVE  Honest(i, BranchPr(i))
<1> DEFINE n == IF OpenPrs(i) = {} THEN Len(pr[i])
                ELSE CHOOSE k \in OpenPrs(i) : TRUE
<1>1. pr[i] \in Seq(PrStates) /\ Len(pr[i]) \in 1..MaxPrs
  BY RemoteAssumption DEF TypeOK, LinksHonest
<1>2. n \in DOMAIN pr[i]
  <2>1. OpenPrs(i) # {} => (CHOOSE k \in OpenPrs(i) : TRUE) \in OpenPrs(i)
    OBVIOUS
  <2> QED
    BY <1>1, <2>1 DEF OpenPrs
<1>3. n \in 1..MaxPrs /\ pr[i][n] \in PrStates
  BY <1>1, <1>2, RemoteAssumption
<1>4. BranchPr(i) = [number |-> n, state |-> pr[i][n]]
  BY DEF BranchPr, PrView
<1> HIDE DEF n
<1> QED
  BY <1>2, <1>3, <1>4 DEF Honest, PrRow

\* What the provider opens for the tick's issue, answered or not.
LEMMA PrOpened ==
  ASSUME MergeInv, NEW i \in Issues, OpensPr(i)
  PROVE  /\ pr' \in [Issues -> Seq(PrStates)]
         /\ Len(pr[i]) < MaxPrs /\ Len(pr[i]) + 1 \in DOMAIN pr'[i]
         /\ UNCHANGED prLink => LinksHonest'
<1>1. pr[i] \in Seq(PrStates) /\ pr \in [Issues -> Seq(PrStates)]
  BY DEF MergeInv, TypeOK
<1>2. Len(pr[i]) < MaxPrs /\ pr' = [pr EXCEPT ![i] = Append(@, "open")]
  BY DEF OpensPr
<1>3. pr'[i] = Append(pr[i], "open") /\ \A j \in Issues \ {i} : pr'[j] = pr[j]
  BY <1>1, <1>2
<1>4. Append(pr[i], "open") \in Seq(PrStates)
  BY <1>1 DEF PrStates
<1>5. pr' \in [Issues -> Seq(PrStates)]
  BY <1>1, <1>2, <1>4
<1>6. /\ Len(pr'[i]) = Len(pr[i]) + 1 /\ DOMAIN pr'[i] = 1..Len(pr[i]) + 1
      /\ \A n \in DOMAIN pr[i] : n \in DOMAIN pr'[i] /\ pr'[i][n] = pr[i][n]
  BY <1>1, <1>3
<1>7. UNCHANGED prLink => LinksHonest'
  BY <1>1, <1>2, <1>3, <1>6, RemoteAssumption DEF MergeInv, LinksHonest, Honest
<1>8. Len(pr[i]) + 1 \in DOMAIN pr'[i]
  BY <1>1, <1>6
<1> QED
  BY <1>2, <1>5, <1>7, <1>8

LEMMA IssueOpened ==
  ASSUME MergeInv, NEW i \in Issues, NEW r \in Remotes, OpensIssue(r, i)
  PROVE  opener' \in [Remotes -> Issues \cup {Human, None}] /\ UNCHANGED pr
BY DEF MergeInv, TypeOK, OpensIssue

LEMMA TickTypeInv ==
  ASSUME MergeInv, [TickStep]_vars, ~AddCheck(Tick), ~AddRow(Tick)
  PROVE  TypeOK' /\ AddingNamed'
<1> USE RemoteAssumption
<1>0. /\ tick \in TickType /\ adding \in [Actors -> AddTodo]
      /\ IdleTick \in TickType /\ Limit \in Nat
  BY DEF MergeInv, TypeOK, TickType, AddTodo, IdleTick
<1>1. CASE TickStart
  <2>1. ASSUME NEW i \in Issues, adding' = [adding EXCEPT ![Tick] = ToAdd(i)]
        PROVE  adding' \in [Actors -> AddTodo] /\ AddingNamed'
    BY <1>0, <2>1, PlanTyped DEF MergeInv, AddingNamed
  <2>2. adding' \in [Actors -> AddTodo] /\ AddingNamed'
    BY <1>0, <1>1, <2>1 DEF TickStart, MergeInv, AddingNamed
  <2>3. status' \in [Issues -> {"ABSENT", "WORKING", "READY_TO_MERGE", "DONE"}]
    BY <1>1 DEF TickStart, MergeInv, TypeOK
  <2>4. tick' \in TickType
    BY <1>0, <1>1 DEF TickStart, Goto, TickType
  <2> QED
    BY <1>1, <2>2, <2>3, <2>4
       DEF TickStart, MergeInv, TypeOK, TickType, AddTodo, rows, inbound, remote
<1>2. ASSUME UNCHANGED <<status, link, adding, inbound, opener, unheard, crashes>>,
             tick' \in TickType, queue' \in Seq(Row), orphans' \subseteq Row,
             pr' \in [Issues -> Seq(PrStates)],
             prLink' \in [Issues -> {NoPr} \cup PrRow]
      PROVE  TypeOK' /\ AddingNamed'
  BY <1>2 DEF MergeInv, TypeOK, AddingNamed, TickType, inbound
<1>3. CASE TickList
  <2>1. Len(queue) \in Nat
    BY DEF MergeInv, TypeOK
  <2> DEFINE n == IF Len(queue) > Limit THEN Limit ELSE Len(queue)
  <2>2. n \in 0..Limit /\ tick' = [IdleTick EXCEPT !.pc = "sync", !.left = n]
    BY <1>3, <1>0, <2>1 DEF TickList
  <2> HIDE DEF n
  <2>3. tick' \in TickType
    BY <1>0, <2>2 DEF TickType
  <2> QED
    BY <1>2, <1>3, <2>3 DEF TickList, MergeInv, TypeOK, rows, remote
<1>4. CASE TickClaim
  <2>1. queue \in Seq(Row) /\ queue # <<>>
    BY <1>4, <1>0 DEF TickClaim, MergeInv, TypeOK, TickHonest, TickType
  <2>2. Head(queue) \in Row /\ Tail(queue) \in Seq(Row)
    BY <2>1
  <2>3. tick.left - 1 \in 0..Limit
    BY <1>4, <1>0 DEF TickClaim, TickType
  <2>4. tick' \in TickType
    <3>1. CASE tick' = [tick EXCEPT !.pc = "call", !.left = @ - 1,
                                    !.row = Head(queue)]
      BY <3>1, <1>0, <2>2, <2>3 DEF TickType
    <3>2. CASE tick' = [tick EXCEPT !.left = @ - 1]
      BY <3>2, <1>0, <2>3 DEF TickType
    <3> QED
      BY <1>4, <3>1, <3>2 DEF TickClaim
  <2> QED
    BY <1>2, <1>4, <2>2, <2>4 DEF TickClaim, MergeInv, TypeOK, remote
<1>5. CASE TickCall
  <2> DEFINE i == tick.row.issue
  <2>0. tick.row \in Row
    BY <1>5 DEF TickCall, At, MergeInv, TickHonest
  <2>1. i \in Issues /\ pr[i] \in Seq(PrStates) /\ Len(pr[i]) \in Nat
    <3>1. i \in Issues
      BY <2>0 DEF Row
    <3>2. pr[i] \in Seq(PrStates)
      BY <3>1 DEF MergeInv, TypeOK
    <3> QED
      BY <3>1, <3>2
  <2>2. ASSUME NEW r \in Remotes, OpensIssue(r, i),
               tick' = [tick EXCEPT !.pc = "store", !.got = r]
        PROVE  TypeOK' /\ AddingNamed'
    <3>1. tick' \in TickType
      BY <1>0, <2>2 DEF TickType
    <3>2. opener' \in [Remotes -> Issues \cup {Human, None}]
      BY <2>1, <2>2, IssueOpened
    <3> QED
      BY <1>5, <2>1, <2>2, <3>1, <3>2, IssueOpened
         DEF TickCall, MergeInv, TypeOK, AddingNamed, TickType, rows, inbound
  <2>3. ASSUME OpensPr(i),
               tick' = [tick EXCEPT !.pc = "store",
                          !.got = [number |-> Len(pr[i]) + 1, state |-> "open"]]
        PROVE  TypeOK' /\ AddingNamed'
    <3>1. [number |-> Len(pr[i]) + 1, state |-> "open"] \in PrRow
      BY <2>1, <2>3, PrOpened DEF PrRow, PrStates
    <3>2. tick' \in TickType
      BY <1>0, <2>3, <3>1 DEF TickType
    <3>3. pr' \in [Issues -> Seq(PrStates)]
      BY <2>1, <2>3, PrOpened
    <3> QED
      BY <1>2, <1>5, <2>3, <3>2, <3>3 DEF TickCall, OpensPr, MergeInv, TypeOK, rows
  <2>4. ASSUME pr[i] # <<>>, UNCHANGED <<pr, opener>>,
               tick' = [tick EXCEPT !.pc = "store", !.got = BranchPr(i)]
        PROVE  TypeOK' /\ AddingNamed'
    <3>1. BranchPr(i) \in PrRow
      BY <2>1, <2>4, BranchPrExists DEF MergeInv, Honest
    <3>2. tick' \in TickType
      BY <1>0, <2>4, <3>1 DEF TickType
    <3> QED
      BY <1>2, <1>5, <2>4, <3>2 DEF TickCall, MergeInv, TypeOK, rows
  <2> QED
    BY <1>5, <2>2, <2>3, <2>4 DEF TickCall
<1>ends. ASSUME NEW p \in {"sync", "observe"}, RowEnds(p) PROVE tick' \in TickType
  BY <1>0, <1>ends DEF RowEnds, TickType
<1>6. CASE TickLookFails \/ TickFinish \/ TickEnd
  <2>1. tick' \in TickType
    BY <1>0, <1>6, <1>ends DEF TickLookFails, TickFinish, TickEnd
  <2> QED
    BY <1>2, <1>6, <2>1 DEF TickLookFails, TickFinish, TickEnd,
                            MergeInv, TypeOK, rows, remote
<1>fails. CASE TickCallFails
  <2> DEFINE i == tick.row.issue
  <2>0. i \in Issues
    BY <1>fails DEF TickCallFails, At, MergeInv, TickHonest, Row
  <2>1. tick' \in TickType
    BY <1>fails, <1>ends DEF TickCallFails
  <2>2. UNCHANGED <<status, prLink, link, rows, adding, inbound, crashes>>
    BY <1>fails, ZenonT(20) DEF TickCallFails
  <2>3. ASSUME NEW r \in Remotes, OpensIssue(r, i), unheard' = unheard \cup {r}
        PROVE  TypeOK' /\ AddingNamed'
    BY <2>0, <2>1, <2>2, <2>3, IssueOpened
       DEF MergeInv, TypeOK, AddingNamed, TickType, rows, inbound
  <2>4. ASSUME OpensPr(i), UNCHANGED unheard PROVE TypeOK' /\ AddingNamed'
    BY <1>2, <2>0, <2>1, <2>2, <2>4, PrOpened DEF OpensPr, MergeInv, TypeOK, rows
  <2>5. ASSUME UNCHANGED remote PROVE TypeOK' /\ AddingNamed'
    BY <1>2, <2>1, <2>2, <2>5 DEF remote, MergeInv, TypeOK, rows
  <2> QED
    BY <1>fails, <2>3, <2>4, <2>5, ZenonT(20) DEF TickCallFails
<1>7. CASE TickStore
  <2> DEFINE i == tick.row.issue
  <2>1. tick.row \in Row /\ i \in Issues
    BY <1>7 DEF TickStore, At, MergeInv, TickHonest, Row
  <2>2. tick' \in TickType
    BY <1>0, <1>7 DEF TickStore, TickType
  <2>3. CASE tick.row.kind = "pr"
    <3>1. tick.got \in PrRow
      BY <1>7, <2>3 DEF TickStore, At, MergeInv, TickHonest, HasReadPr, Honest
    <3>2. prLink' \in [Issues -> {NoPr} \cup PrRow]
      BY <1>7, <2>3, <3>1 DEF TickStore, MergeInv, TypeOK
    <3> QED
      BY <1>2, <1>7, <2>3, <2>2, <3>2 DEF TickStore, MergeInv, TypeOK, rows, remote
  <2>4. CASE tick.row.kind # "pr"
    <3>1. link' \in [Remotes -> [issue : Issues \cup {None},
                                 item : Deliveries \cup {None}]]
      <4>1. [issue |-> i, item |-> None]
              \in [issue : Issues \cup {None}, item : Deliveries \cup {None}]
        BY <2>1
      <4>2. \/ link' = link
            \/ link' = [link EXCEPT ![tick.got] = [issue |-> i, item |-> None]]
        BY <1>7, <2>4 DEF TickStore
      <4>3. link \in [Remotes -> [issue : Issues \cup {None},
                                  item : Deliveries \cup {None}]]
        BY DEF MergeInv, TypeOK
      <4> QED
        BY <4>1, <4>2, <4>3
    <3> QED
      BY <1>7, <2>2, <2>4, <3>1
         DEF TickStore, MergeInv, TypeOK, AddingNamed, TickType, rows, inbound, remote
  <2> QED
    BY <2>3, <2>4
<1>8. CASE TickObserve \/ TickPick
  <2>1. ASSUME TickPick PROVE tick' \in TickType
    <3>1. PICK i \in tick.list :
            \/ tick' = [tick EXCEPT !.list = @ \ {i}]
            \/ tick' = [tick EXCEPT !.list = @ \ {i}, !.pc = "look",
                                    !.row = [issue |-> i, kind |-> "pr"]]
      BY <2>1 DEF TickPick
    <3>2. [issue |-> i, kind |-> "pr"] \in Row
      BY <1>0, <3>1 DEF TickType, Row, Kinds
    <3>3. tick.list \ {i} \in SUBSET Issues
      BY <1>0 DEF TickType
    <3>4. CASE tick' = [tick EXCEPT !.list = @ \ {i}]
      BY <1>0, <3>3, <3>4 DEF TickType
    <3>5. CASE tick' = [tick EXCEPT !.list = @ \ {i}, !.pc = "look",
                                    !.row = [issue |-> i, kind |-> "pr"]]
      BY <1>0, <3>2, <3>3, <3>5 DEF TickType
    <3> QED
      BY <3>1, <3>4, <3>5
  <2>2. tick' \in TickType
    <3>1. ASSUME NEW ready \in SUBSET Issues,
                 tick' = [IdleTick EXCEPT !.pc = "observe", !.list = ready]
          PROVE  tick' \in TickType
      BY <1>0, <3>1 DEF TickType
    <3>2. TickObserve => tick' \in TickType
      BY <3>1 DEF TickObserve
    <3> QED
      BY <1>8, <2>1, <3>2
  <2> QED
    BY <1>2, <1>8, <2>2 DEF TickObserve, TickPick, MergeInv, TypeOK, rows, remote
<1>9. CASE TickLook
  <2> DEFINE i == tick.row.issue
  <2>1. i \in Issues /\ Honest(i, prLink[i])
    <3>1. tick.row \in Row /\ prLink[i] # NoPr
      BY <1>9 DEF TickLook, At, MergeInv, TickHonest
    <3> QED
      BY <3>1 DEF MergeInv, LinksHonest, Row
  <2>2. pr[i][prLink[i].number] \in PrStates
    <3>1. pr[i] \in Seq(PrStates)
      BY <2>1 DEF MergeInv, TypeOK
    <3> QED
      BY <2>1, <3>1 DEF Honest
  <2>3. tick' \in TickType
    BY <1>0, <1>9, <2>1, <2>2 DEF TickLook, PrView, TickType, Honest, PrRow
  <2> QED
    BY <1>2, <1>9, <2>3 DEF TickLook, MergeInv, TypeOK, rows, remote
<1>10. CASE TickUpdate
  <2>1. tick.got \in PrRow
    BY <1>10 DEF TickUpdate, At, MergeInv, TickHonest, HasReadPr, Honest
  <2>2. prLink' \in [Issues -> {NoPr} \cup PrRow]
    BY <1>10, <2>1 DEF TickUpdate, MergeInv, TypeOK
  <2>3. tick' \in TickType
    BY <1>0, <1>10 DEF TickUpdate, Goto, TickType
  <2> QED
    BY <1>2, <1>10, <2>2, <2>3 DEF TickUpdate, MergeInv, TypeOK, rows, remote
<1>11. CASE TickMark
  <2>1. tick.row \in Row
    BY <1>11 DEF TickMark, At, MergeInv, TickHonest
  <2>2. tick' \in TickType /\ orphans' \subseteq Row
    <3>1. CASE status[tick.row.issue] = "READY_TO_MERGE"
      <4>1. tick' = [tick EXCEPT !.pc = "close"] /\ orphans' = orphans
        BY <1>11, <3>1 DEF TickMark, Goto
      <4> QED
        BY <1>0, <4>1 DEF TickType, MergeInv, TypeOK
    <3>2. CASE status[tick.row.issue] # "READY_TO_MERGE"
      BY <1>0, <1>11, <2>1, <3>2 DEF TickMark, MergeInv, TypeOK
    <3> QED
      BY <3>1, <3>2
  <2>3. status' \in [Issues -> {"ABSENT", "WORKING", "READY_TO_MERGE", "DONE"}]
    <3>1. status' = status \/ status' = [status EXCEPT ![tick.row.issue] = "DONE"]
      BY <1>11 DEF TickMark
    <3> QED
      BY <3>1 DEF MergeInv, TypeOK
  <2> QED
    BY <1>11, <2>2, <2>3
       DEF TickMark, MergeInv, TypeOK, AddingNamed, TickType, inbound, remote
<1>12. CASE UNCHANGED vars
  BY <1>2, <1>0, <1>12 DEF vars, rows, inbound, remote, MergeInv, TypeOK
<1> QED
  BY <1>1, <1>3, <1>4, <1>5, <1>6, <1>fails, <1>7, <1>8, <1>9, <1>10, <1>11,
     <1>12 DEF TickStep

LEMMA ReviewPrKeeps ==
  ASSUME TypeOK, NEW i \in Issues, ReviewPr(i)
  PROVE  /\ pr' \in [Issues -> Seq(PrStates)]
         /\ \A j \in Issues :
              /\ Len(pr'[j]) = Len(pr[j]) /\ DOMAIN pr'[j] = DOMAIN pr[j]
              /\ \A n \in DOMAIN pr[j] : pr[j][n] = "merged" => pr'[j][n] = "merged"
<1>1. PICK n \in DOMAIN pr[i], state \in PrStates :
        pr[i][n] # "merged" /\ pr' = [pr EXCEPT ![i][n] = state]
  BY DEF ReviewPr
<1>2. pr[i] \in Seq(PrStates) /\ pr \in [Issues -> Seq(PrStates)]
  BY DEF TypeOK
<1> DEFINE new == [pr[i] EXCEPT ![n] = state]
<1>3. /\ new \in Seq(PrStates) /\ Len(new) = Len(pr[i])
      /\ DOMAIN new = DOMAIN pr[i]
      /\ \A m \in DOMAIN pr[i] : pr[i][m] = "merged" => new[m] = "merged"
  BY <1>1, <1>2
<1>4. pr' = [pr EXCEPT ![i] = new]
  BY <1>1
<1> HIDE DEF new
<1>5. \A j \in Issues : pr'[j] = IF j = i THEN new ELSE pr[j]
  BY <1>2, <1>4
<1> QED
  BY <1>2, <1>3, <1>4, <1>5

LEMMA WorldTypeInv ==
  ASSUME MergeInv,
         \/ \E h \in Handlers : \E i \in Issues : Approve(h, i)
         \/ \E d \in Deliveries : \/ HookAdd(d) \/ HookLink(d) \/ HookMark(d)
                                  \/ \E r \in Remotes : Deliver(d, r)
         \/ \E i \in Issues : Ready(i) \/ Rework(i) \/ ReviewPr(i)
         \/ Crash
  PROVE  TypeOK' /\ AddingNamed'
<1> USE RemoteAssumption
<1>0. TypeOK /\ AddingNamed
  BY DEF MergeInv
<1>1. ASSUME NEW h \in Handlers, NEW i \in Issues, Approve(h, i)
      PROVE  TypeOK' /\ AddingNamed'
  <2>1. h \in Actors /\ adding \in [Actors -> AddTodo]
    BY <1>0 DEF Actors, TypeOK, AddTodo
  <2>2. adding' = [adding EXCEPT ![h] = ToAdd(i)]
    BY <1>1 DEF Approve
  <2>3. adding' \in [Actors -> AddTodo] /\ AddingNamed'
    BY <1>0, <2>1, <2>2, PlanTyped DEF AddingNamed
  <2> QED
    BY <1>0, <1>1, <2>3 DEF Approve, TypeOK, AddTodo, rows, inbound, remote
<1>2. ASSUME NEW d \in Deliveries,
             \/ HookAdd(d) \/ HookLink(d) \/ HookMark(d)
             \/ \E r \in Remotes : Deliver(d, r)
      PROVE  TypeOK' /\ AddingNamed'
  <2> DEFINE HookType == [pc : {"idle", "add", "link", "mark"},
                          number : Remotes \cup {None}]
  <2>1. /\ hook \in [Deliveries -> HookType] /\ IdleHook \in HookType
        /\ items \in [Deliveries -> Nat]
        /\ event \in [Deliveries -> {"none", "received", "processed", "ignored"}]
        /\ link \in [Remotes -> [issue : Issues \cup {None},
                                 item : Deliveries \cup {None}]]
    BY <1>0 DEF TypeOK, IdleHook
  <2>2. hook' \in [Deliveries -> HookType]
    <3>1. ASSUME NEW pc \in {"link", "mark"}, hook' = [hook EXCEPT ![d].pc = pc]
          PROVE  hook' \in [Deliveries -> HookType]
      BY <2>1, <3>1
    <3>2. ASSUME NEW r \in Remotes,
                 hook' = [hook EXCEPT ![d] = [pc |-> "add", number |-> r]]
          PROVE  hook' \in [Deliveries -> HookType]
      BY <2>1, <3>2
    <3>3. hook' = [hook EXCEPT ![d] = IdleHook] => hook' \in [Deliveries -> HookType]
      BY <2>1
    <3> QED
      BY <1>2, <3>1, <3>2, <3>3 DEF HookAdd, Ignore, HookLink, HookMark, Deliver
  <2>3. items' \in [Deliveries -> Nat]
    BY <1>2, <2>1 DEF HookAdd, HookLink, HookMark, Deliver
  <2>4. event' \in [Deliveries -> {"none", "received", "processed", "ignored"}]
    BY <1>2, <2>1 DEF HookAdd, Ignore, HookLink, HookMark, Deliver
  <2>5. link' \in [Remotes -> [issue : Issues \cup {None},
                               item : Deliveries \cup {None}]]
    BY <1>2, <2>1 DEF HookAdd, HookLink, HookMark, Deliver
  <2>6. UNCHANGED <<status, prLink, rows, adding, tick, remote, crashes>>
    BY <1>2 DEF HookAdd, HookLink, HookMark, Deliver
  <2> QED
    BY <1>0, <2>2, <2>3, <2>4, <2>5, <2>6 DEF TypeOK, AddingNamed, rows, remote
<1>3. ASSUME NEW i \in Issues, Ready(i) \/ Rework(i)
      PROVE  TypeOK' /\ AddingNamed'
  BY <1>0, <1>3 DEF Ready, Rework, TypeOK, AddingNamed, rows, inbound, remote
<1>4. ASSUME NEW i \in Issues, ReviewPr(i)
      PROVE  TypeOK' /\ AddingNamed'
  BY <1>0, <1>4, ReviewPrKeeps DEF ReviewPr, TypeOK, AddingNamed, rows, inbound
<1>5. CASE Crash
  <2>1. IdleTick \in TickType /\ NotAdding \in AddTodo /\ NotAdding.kinds = {}
        /\ NotAdding.free = FALSE
    BY DEF IdleTick, TickType, NotAdding, AddTodo
  <2>2. orphans' \subseteq Row /\ crashes' \in 0..MaxCrashes
    BY <1>0, <1>5 DEF Crash, TypeOK
  <2>3. adding' \in [Actors -> AddTodo] /\ AddingNamed'
    BY <1>5, <2>1 DEF Crash, AddingNamed
  <2>4. hook' \in [Deliveries -> [pc : {"idle", "add", "link", "mark"},
                                  number : Remotes \cup {None}]]
    BY <1>5 DEF Crash, IdleHook
  <2>5. unheard' \subseteq Remotes
    <3>1. Unstored => tick.got \in Remotes
      BY DEF MergeInv, TickHonest
    <3> QED
      BY <1>0, <1>5, <3>1 DEF Crash, TypeOK
  <2> QED
    BY <1>0, <1>5, <2>1, <2>2, <2>3, <2>4, <2>5
       DEF Crash, TypeOK, TickType, AddTodo
<1> QED
  BY <1>1, <1>2, <1>3, <1>4, <1>5

LEMMA TypeNext == MergeInv /\ [Next]_vars => TypeOK' /\ AddingNamed'
<1> SUFFICES ASSUME MergeInv, [Next]_vars PROVE TypeOK' /\ AddingNamed'
  OBVIOUS
<1>1. ASSUME NEW a \in Actors, AddCheck(a) \/ AddRow(a)
      PROVE  TypeOK' /\ AddingNamed'
  BY <1>1, AddingTypeInv DEF MergeInv
<1>2. Tick \in Actors /\ Handlers \subseteq Actors
  BY DEF Actors
<1> QED
  BY <1>1, <1>2, TickTypeInv, WorldTypeInv DEF Next

-----------------------------------------------------------------------------
(* What is said of pull requests stays true                                *)

MergeFacts == LinksHonest /\ TickHonest /\ TickSparesDone /\ DoneLinked

\* Steps of others may append rows, change pull requests that are not merged and
\* move issues that are not DONE.
LEMMA OthersKeepFacts ==
  ASSUME MergeInv, prLink' = prLink, tick' = tick, queue' \in Seq(Row),
         Len(queue') >= Len(queue),
         \A i \in Issues :
           /\ Len(pr'[i]) = Len(pr[i]) /\ DOMAIN pr'[i] = DOMAIN pr[i]
           /\ \A n \in DOMAIN pr[i] : pr[i][n] = "merged" => pr'[i][n] = "merged"
           /\ status'[i] = "DONE" => status[i] = "DONE"
  PROVE  MergeFacts'
<1>1. \A i \in Issues : \A said : Honest(i, said) => Honest(i, said)'
  BY DEF Honest
<1>2. LinksHonest' /\ DoneLinked'
  BY <1>1 DEF MergeInv, LinksHonest, DoneLinked
<1>3. tick.row \in Row => tick.row.issue \in Issues
  BY DEF Row
<1>4. TickHonest'
  <2>1. HasReadPr' = HasReadPr /\ Unstored' = Unstored
    BY DEF HasReadPr, Unstored, At
  <2>2. HasReadPr => Honest(tick.row.issue, tick.got)'
    BY <1>1, <1>3 DEF MergeInv, TickHonest, HasReadPr, Unstored, At
  <2>3. tick'.left <= Len(queue')
    BY RemoteAssumption DEF MergeInv, TypeOK, TickHonest
  <2> QED
    BY <2>1, <2>2, <2>3 DEF MergeInv, TickHonest
<1>5. TickSparesDone'
  <2>1. WillLinkPr' = WillLinkPr /\ (WillLinkPr => tick.row \in Row)
    BY DEF WillLinkPr, MergeInv, TickHonest
  <2>2. tick.list \subseteq Issues
    BY DEF MergeInv, TypeOK
  <2> QED
    BY <1>3, <2>1, <2>2 DEF MergeInv, TickSparesDone
<1> QED
  BY <1>2, <1>4, <1>5 DEF MergeFacts

\* A tick between two pieces of work has nothing to be honest about.
LEMMA TickRests ==
  ASSUME MergeInv, UNCHANGED <<status, prLink, pr>>,
         tick'.pc \in {"idle", "queue", "sync", "observe", "finish", "close"},
         tick'.left <= Len(queue'), \A i \in tick'.list : status[i] # "DONE"
  PROVE  MergeFacts'
<1>1. LinksHonest' /\ DoneLinked'
  BY DEF MergeInv, LinksHonest, DoneLinked, Honest
<1>2. TickHonest'
  BY DEF TickHonest, HasReadPr, Unstored, At
<1>3. TickSparesDone'
  BY DEF TickSparesDone, WillLinkPr
<1> QED
  BY <1>1, <1>2, <1>3 DEF MergeFacts

LEMMA TickKeepsFacts ==
  ASSUME MergeInv, TypeOK', TickStep, ~AddCheck(Tick), ~AddRow(Tick)
  PROVE  MergeFacts'
<1> USE RemoteAssumption
<1>0. /\ tick \in TickType /\ IdleTick \in TickType
      /\ tick.left \in Nat /\ tick.left <= Len(queue) /\ queue \in Seq(Row)
      /\ tick.list \subseteq Issues /\ \A i \in tick.list : status[i] # "DONE"
  BY DEF MergeInv, TypeOK, TickType, TickHonest, TickSparesDone, IdleTick
<1>1. CASE TickStart
  <2>1. /\ tick' = [tick EXCEPT !.pc = "queue"] /\ UNCHANGED <<prLink, pr, queue>>
        /\ At("idle")
    BY <1>1 DEF TickStart, Goto, rows, remote
  <2>2. \A i \in Issues : status'[i] = "DONE" => status[i] = "DONE"
    <3>1. \/ status' = status
          \/ \E i \in Issues : status' = [status EXCEPT ![i] = "WORKING"]
      BY <1>1 DEF TickStart
    <3> QED
      BY <3>1 DEF MergeInv, TypeOK
  <2>3. tick'.pc = "queue" /\ tick'.left = tick.left /\ tick'.list = tick.list
    BY <1>0, <2>1 DEF TickType
  <2>4. LinksHonest' /\ DoneLinked'
    BY <2>1, <2>2 DEF MergeInv, LinksHonest, DoneLinked, Honest
  <2>5. TickHonest'
    BY <1>0, <2>1, <2>3 DEF TickHonest, HasReadPr, Unstored, At
  <2>6. TickSparesDone'
    BY <1>0, <2>2, <2>3 DEF TickSparesDone, WillLinkPr
  <2> QED
    BY <2>4, <2>5, <2>6 DEF MergeFacts
<1>2. CASE TickList
  <2> DEFINE n == IF Len(queue) > Limit THEN Limit ELSE Len(queue)
  <2>1. n <= Len(queue) /\ tick' = [IdleTick EXCEPT !.pc = "sync", !.left = n]
        /\ UNCHANGED <<status, prLink, pr, queue>>
    BY <1>2, <1>0 DEF TickList, rows, remote
  <2> HIDE DEF n
  <2>2. tick'.pc = "sync" /\ tick'.left = n /\ tick'.list = {}
    BY <2>1 DEF IdleTick
  <2> QED
    BY <2>1, <2>2, TickRests
<1>3. CASE TickClaim
  <2>1. /\ tick.left > 0 /\ queue # <<>> /\ queue' = Tail(queue) /\ At("sync")
        /\ UNCHANGED <<status, prLink, pr>>
    BY <1>0, <1>3 DEF TickClaim, remote
  <2>2. Head(queue) \in Row /\ Len(queue') = Len(queue) - 1
    BY <1>0, <2>1
  <2>3. CASE tick' = [tick EXCEPT !.left = @ - 1]
    <3>1. tick'.pc = "sync" /\ tick'.left <= Len(queue') /\ tick'.list = tick.list
      BY <1>0, <2>1, <2>2, <2>3 DEF TickType, At
    <3> QED
      BY <1>0, <2>1, <3>1, TickRests
  <2>4. CASE /\ Head(queue).kind \in Plan(Head(queue).issue)
             /\ tick' = [tick EXCEPT !.pc = "call", !.left = @ - 1,
                                     !.row = Head(queue)]
    <3>1. /\ tick'.pc = "call" /\ tick'.left <= Len(queue')
          /\ tick'.row = Head(queue) /\ tick'.list = tick.list
      BY <1>0, <2>1, <2>2, <2>4 DEF TickType
    <3>2. Head(queue).kind = "pr" => status[Head(queue).issue] # "DONE"
      BY <2>4 DEF Plan
    <3>3. LinksHonest' /\ DoneLinked'
      BY <2>1 DEF MergeInv, LinksHonest, DoneLinked, Honest
    <3>4. TickHonest'
      BY <2>2, <3>1 DEF TickHonest, HasReadPr, Unstored, At
    <3>5. TickSparesDone'
      BY <1>0, <2>1, <3>1, <3>2 DEF TickSparesDone, WillLinkPr
    <3> QED
      BY <3>3, <3>4, <3>5 DEF MergeFacts
  <2> QED
    BY <1>3, <2>3, <2>4 DEF TickClaim
<1>4. CASE TickCall
  <2> DEFINE i == tick.row.issue
  <2>1. /\ tick.row \in Row /\ i \in Issues /\ tick'.pc = "store"
        /\ tick'.left = tick.left /\ tick'.row = tick.row /\ tick'.list = tick.list
        /\ At("call") /\ UNCHANGED <<status, prLink, queue>>
    BY <1>0, <1>4 DEF TickCall, At, MergeInv, TickHonest, Row, TickType, rows
  <2>2. LinksHonest' /\ (tick.row.kind = "pr" => Honest(i, tick.got)')
    <3>1. pr[i] \in Seq(PrStates) /\ pr \in [Issues -> Seq(PrStates)]
      BY <2>1 DEF MergeInv, TypeOK
    <3>2. CASE \E r \in Remotes : OpensIssue(r, i)
      BY <2>1, <3>2 DEF OpensIssue, MergeInv, LinksHonest, Honest
    <3>3. CASE /\ OpensPr(i)
               /\ tick' = [tick EXCEPT !.pc = "store",
                             !.got = [number |-> Len(pr[i]) + 1, state |-> "open"]]
      <4>1. tick'.got = [number |-> Len(pr[i]) + 1, state |-> "open"]
        BY <1>0, <3>3 DEF TickType
      <4>2. /\ tick'.got \in PrRow /\ tick'.got.number \in DOMAIN pr'[i]
            /\ tick'.got.state # "merged"
        BY <2>1, <3>1, <3>3, <4>1, PrOpened DEF PrRow, PrStates
      <4>3. Honest(i, tick.got)'
        BY <2>1, <4>2 DEF Honest
      <4> QED
        BY <2>1, <3>3, <4>3, PrOpened
    <3>4. CASE /\ pr[i] # <<>> /\ UNCHANGED pr
               /\ tick' = [tick EXCEPT !.pc = "store", !.got = BranchPr(i)]
      <4>1. Honest(i, BranchPr(i)) /\ tick'.got = BranchPr(i)
        BY <1>0, <2>1, <3>4, BranchPrExists DEF MergeInv, TickType
      <4> QED
        BY <2>1, <3>4, <4>1 DEF MergeInv, LinksHonest, Honest
    <3> QED
      BY <1>4, <3>2, <3>3, <3>4 DEF TickCall
  <2>3. DoneLinked'
    BY <2>1 DEF MergeInv, DoneLinked
  <2>got. tick.row.kind = "issue" => tick'.got \in Remotes
    BY <1>0, <1>4 DEF TickCall, OpensPr, TickType
  <2>4. TickHonest'
    BY <1>0, <2>1, <2>2, <2>got DEF TickHonest, HasReadPr, Unstored, At
  <2>5. TickSparesDone'
    BY <1>0, <2>1 DEF MergeInv, TickSparesDone, WillLinkPr, At
  <2> QED
    BY <2>2, <2>3, <2>4, <2>5 DEF MergeFacts
<1>fails. CASE TickCallFails
  <2> DEFINE i == tick.row.issue
  <2>1. tick.row \in Row /\ i \in Issues
    BY <1>fails DEF TickCallFails, At, MergeInv, TickHonest, Row
  <2>2. /\ UNCHANGED <<status, prLink, queue>>
        /\ tick'.pc = "sync" /\ tick'.left = tick.left /\ tick'.list = tick.list
    BY <1>0, <1>fails DEF TickCallFails, RowEnds, TickType, rows
  <2>3. CASE OpensPr(i)
    <3>1. LinksHonest' /\ DoneLinked'
      BY <2>1, <2>2, <2>3, PrOpened DEF MergeInv, DoneLinked
    <3>2. TickHonest' /\ TickSparesDone'
      BY <1>0, <2>2 DEF TickHonest, HasReadPr, Unstored,
         TickSparesDone, WillLinkPr, At
    <3> QED
      BY <3>1, <3>2 DEF MergeFacts
  <2>4. CASE UNCHANGED pr
    BY <1>0, <2>2, <2>4, TickRests
  <2> QED
    BY <1>fails, <2>3, <2>4 DEF TickCallFails, OpensIssue, remote
<1>5. CASE TickLookFails \/ TickFinish \/ TickEnd
  <2>1. UNCHANGED <<status, prLink, pr, queue>>
    BY <1>5 DEF TickLookFails, TickFinish, TickEnd, rows, remote
  <2>2. ASSUME NEW p \in {"sync", "observe"}, RowEnds(p)
        PROVE  MergeFacts'
    <3>1. tick'.pc = p /\ tick'.left = tick.left /\ tick'.list = tick.list
      BY <1>0, <2>2 DEF RowEnds, TickType
    <3> QED
      BY <1>0, <2>1, <3>1, TickRests
  <2>3. ASSUME tick' = IdleTick PROVE MergeFacts'
    BY <1>0, <2>1, <2>3, TickRests DEF IdleTick
  <2> QED
    BY <1>5, <2>2, <2>3 DEF TickLookFails, TickFinish, TickEnd
<1>6. CASE TickStore
  <2> DEFINE i == tick.row.issue
  <2>1. /\ tick.row \in Row /\ i \in Issues /\ tick'.pc = "finish"
        /\ tick'.left = tick.left /\ tick'.list = tick.list
        /\ At("store") /\ UNCHANGED <<status, pr, queue>>
    BY <1>0, <1>6 DEF TickStore, At, MergeInv, TickHonest, Row, TickType, rows, remote
  <2>2. CASE tick.row.kind # "pr"
    <3>1. UNCHANGED prLink
      BY <1>6, <2>2 DEF TickStore
    <3> QED
      BY <1>0, <2>1, <3>1, TickRests
  <2>3. CASE tick.row.kind = "pr"
    <3>1. Honest(i, tick.got) /\ status[i] # "DONE"
      BY <2>1, <2>3 DEF MergeInv, TickHonest, HasReadPr, Unstored,
         TickSparesDone, WillLinkPr, At
    <3>2. prLink' = [prLink EXCEPT ![i] = tick.got]
      BY <1>6, <2>3 DEF TickStore
    <3>3. prLink'[i] = tick.got /\ \A j \in Issues \ {i} : prLink'[j] = prLink[j]
      BY <2>1, <3>2 DEF MergeInv, TypeOK
    <3>4. LinksHonest' /\ DoneLinked'
      BY <2>1, <3>1, <3>3 DEF MergeInv, LinksHonest, DoneLinked, Honest
    <3>5. TickHonest' /\ TickSparesDone'
      BY <1>0, <2>1 DEF TickHonest, HasReadPr, Unstored,
         TickSparesDone, WillLinkPr, At
    <3> QED
      BY <3>4, <3>5 DEF MergeFacts
  <2> QED
    BY <2>2, <2>3
<1>7. CASE TickObserve
  <2>1. /\ tick'.pc = "observe" /\ tick'.left = 0
        /\ tick'.list = {i \in Issues : status[i] = "READY_TO_MERGE"}
        /\ UNCHANGED <<status, prLink, pr, queue>>
    BY <1>7 DEF TickObserve, IdleTick, rows, remote
  <2> QED
    BY <1>0, <2>1, TickRests
<1>8. CASE TickPick
  <2>1. PICK i \in tick.list :
          tick' = IF prLink[i].state \in {"none", "merged"}
                  THEN [tick EXCEPT !.list = @ \ {i}]
                  ELSE [tick EXCEPT !.list = @ \ {i}, !.pc = "look",
                                    !.row = [issue |-> i, kind |-> "pr"]]
    BY <1>8 DEF TickPick
  <2>2. UNCHANGED <<status, prLink, pr, queue>> /\ At("observe") /\ i \in Issues
    BY <1>0, <1>8 DEF TickPick, rows, remote
  <2>3. CASE prLink[i].state \in {"none", "merged"}
    <3>1. tick'.pc = "observe" /\ tick'.left = tick.left /\ tick'.list = tick.list \ {i}
      BY <1>0, <2>1, <2>2, <2>3 DEF TickType, At
    <3> QED
      BY <1>0, <2>2, <3>1, TickRests
  <2>4. CASE prLink[i].state \notin {"none", "merged"}
    <3>1. /\ tick'.pc = "look" /\ tick'.left = tick.left
          /\ tick'.list = tick.list \ {i}
          /\ tick'.row = [issue |-> i, kind |-> "pr"]
      BY <1>0, <2>1, <2>4 DEF TickType
    <3>2. tick'.row \in Row /\ tick'.row.issue = i /\ prLink[i] # NoPr
      BY <2>2, <2>4, <3>1 DEF Row, Kinds, NoPr
    <3>3. LinksHonest' /\ DoneLinked'
      BY <2>2 DEF MergeInv, LinksHonest, DoneLinked, Honest
    <3>4. TickHonest'
      BY <1>0, <2>2, <3>1, <3>2 DEF TickHonest, HasReadPr, Unstored, At
    <3>5. TickSparesDone'
      BY <1>0, <2>2, <3>1, <3>2 DEF TickSparesDone, WillLinkPr
    <3> QED
      BY <3>3, <3>4, <3>5 DEF MergeFacts
  <2> QED
    BY <2>3, <2>4
<1>9. CASE TickLook
  <2> DEFINE i == tick.row.issue
  <2>1. /\ tick.row \in Row /\ i \in Issues /\ prLink[i] # NoPr /\ At("look")
        /\ UNCHANGED <<status, prLink, pr, queue>>
    BY <1>9 DEF TickLook, At, MergeInv, TickHonest, Row, rows, remote
  <2>2. /\ tick'.pc = "update" /\ tick'.left = tick.left /\ tick'.row = tick.row
        /\ tick'.list = tick.list
        /\ tick'.got = [number |-> prLink[i].number,
                        state |-> pr[i][prLink[i].number]]
    BY <1>0, <1>9 DEF TickLook, PrView, TickType
  <2>3. Honest(i, tick'.got)
    <3>1. Honest(i, prLink[i]) /\ pr[i] \in Seq(PrStates)
      BY <2>1 DEF MergeInv, LinksHonest, TypeOK
    <3> QED
      BY <2>2, <3>1 DEF Honest, PrRow
  <2>4. LinksHonest' /\ DoneLinked'
    BY <2>1 DEF MergeInv, LinksHonest, DoneLinked, Honest
  <2>5. TickHonest'
    BY <1>0, <2>1, <2>2, <2>3 DEF TickHonest, HasReadPr, Unstored, At, Honest
  <2>6. TickSparesDone'
    BY <1>0, <2>1, <2>2 DEF MergeInv, TickSparesDone, WillLinkPr, At
  <2> QED
    BY <2>4, <2>5, <2>6 DEF MergeFacts
<1>10. CASE TickUpdate
  <2> DEFINE i == tick.row.issue
  <2>1. /\ tick.row \in Row /\ i \in Issues /\ At("update")
        /\ Honest(i, tick.got) /\ status[i] # "DONE" /\ i \notin tick.list
        /\ UNCHANGED <<status, pr, queue>>
    BY <1>10 DEF TickUpdate, At, MergeInv, TickHonest, HasReadPr, Unstored, TickSparesDone,
                 WillLinkPr, Row, rows, remote
  <2>2. /\ tick'.pc = IF tick.got.state = "merged" THEN "mark" ELSE "close"
        /\ tick'.left = tick.left /\ tick'.row = tick.row /\ tick'.list = tick.list
    BY <1>0, <1>10 DEF TickUpdate, Goto, TickType
  <2>3. prLink'[i] = tick.got /\ \A j \in Issues \ {i} : prLink'[j] = prLink[j]
    BY <1>10, <2>1 DEF TickUpdate, MergeInv, TypeOK
  <2>4. LinksHonest' /\ DoneLinked'
    BY <2>1, <2>3 DEF MergeInv, LinksHonest, DoneLinked, Honest
  <2>5. TickHonest'
    BY <1>0, <2>1, <2>2, <2>3 DEF TickHonest, HasReadPr, Unstored, At
  <2>6. TickSparesDone'
    BY <1>0, <2>1, <2>2 DEF TickSparesDone, WillLinkPr
  <2> QED
    BY <2>4, <2>5, <2>6 DEF MergeFacts
<1>11. CASE TickMark
  <2> DEFINE i == tick.row.issue
  <2>1. /\ tick.row \in Row /\ i \in Issues /\ At("mark")
        /\ prLink[i].state = "merged" /\ i \notin tick.list
        /\ UNCHANGED <<prLink, pr, queue>>
    BY <1>11 DEF TickMark, At, MergeInv, TickHonest, TickSparesDone, Row, remote
  <2>2. CASE status[i] = "READY_TO_MERGE"
    <3>1. /\ tick'.pc = "close" /\ tick'.left = tick.left /\ tick'.list = tick.list
          /\ \A j \in Issues \ {i} : status'[j] = status[j]
      BY <1>0, <1>11, <2>1, <2>2 DEF TickMark, Goto, TickType, MergeInv, TypeOK
    <3>2. LinksHonest' /\ DoneLinked'
      BY <2>1, <3>1 DEF MergeInv, LinksHonest, DoneLinked, Honest
    <3>3. TickHonest'
      BY <1>0, <2>1, <3>1 DEF TickHonest, HasReadPr, Unstored, At
    <3>4. TickSparesDone'
      BY <1>0, <2>1, <3>1 DEF TickSparesDone, WillLinkPr
    <3> QED
      BY <3>2, <3>3, <3>4 DEF MergeFacts
  <2>3. CASE status[i] # "READY_TO_MERGE"
    BY <1>0, <1>11, <2>1, <2>3, TickRests DEF TickMark, IdleTick
  <2> QED
    BY <2>2, <2>3
<1> QED
  BY <1>1, <1>2, <1>3, <1>4, <1>fails, <1>5, <1>6, <1>7, <1>8, <1>9, <1>10, <1>11
     DEF TickStep

LEMMA FactsNext == MergeInv /\ [Next]_vars => MergeFacts'
<1> SUFFICES ASSUME MergeInv, [Next]_vars PROVE MergeFacts'
  OBVIOUS
<1>0. TypeOK' /\ queue' \in Seq(Row) /\ queue \in Seq(Row)
  BY TypeNext DEF MergeInv, TypeOK
<1>1. ASSUME UNCHANGED <<status, prLink, tick, pr, queue>> PROVE MergeFacts'
  BY <1>0, <1>1, OthersKeepFacts
<1>2. ASSUME NEW a \in Actors, AddCheck(a) \/ AddRow(a) PROVE MergeFacts'
  <2>1. queue' = queue \/ \E row : queue' = Append(queue, row)
    BY <1>2 DEF AddCheck, AddRow, rows
  <2>2. Len(queue') >= Len(queue)
    BY <1>0, <2>1
  <2> QED
    BY <1>0, <1>2, <2>2, OthersKeepFacts DEF AddCheck, AddRow, remote
<1>3. ASSUME NEW h \in Handlers, NEW i \in Issues, Approve(h, i) PROVE MergeFacts'
  BY <1>1, <1>3 DEF Approve, rows, remote
<1>4. ASSUME NEW d \in Deliveries,
             \/ HookAdd(d) \/ HookLink(d) \/ HookMark(d)
             \/ \E r \in Remotes : Deliver(d, r)
      PROVE  MergeFacts'
  BY <1>1, <1>4 DEF HookAdd, HookLink, HookMark, Deliver, rows, remote
<1>5. ASSUME NEW i \in Issues, Ready(i) \/ Rework(i) PROVE MergeFacts'
  <2>1. \A j \in Issues : status'[j] = "DONE" => status[j] = "DONE"
    BY <1>5 DEF Ready, Rework, MergeInv, TypeOK
  <2> QED
    BY <1>0, <1>5, <2>1, OthersKeepFacts DEF Ready, Rework, rows, remote
<1>6. ASSUME NEW i \in Issues, ReviewPr(i) PROVE MergeFacts'
  BY <1>0, <1>6, ReviewPrKeeps, OthersKeepFacts DEF ReviewPr, MergeInv, rows
<1>7. ASSUME Crash PROVE MergeFacts'
  <2>1. /\ tick' = IdleTick /\ UNCHANGED <<status, prLink, pr, queue>>
        /\ tick'.left <= Len(queue')
    BY <1>0, <1>7 DEF Crash, remote, IdleTick
  <2> QED
    BY <2>1, TickRests DEF IdleTick
<1>8. ASSUME TickStep, ~AddCheck(Tick), ~AddRow(Tick) PROVE MergeFacts'
  BY <1>0, <1>8, TickKeepsFacts
<1>9. Tick \in Actors /\ Handlers \subseteq Actors
  BY DEF Actors
<1>10. CASE UNCHANGED vars
  BY <1>1, <1>10 DEF vars, rows, remote
<1> QED
  BY <1>2, <1>3, <1>4, <1>5, <1>6, <1>7, <1>8, <1>9, <1>10 DEF Next

LEMMA MergeInvAlways == Spec => []MergeInv
<1>1. MergeInv /\ [Next]_vars => MergeInv'
  BY TypeNext, FactsNext DEF MergeInv, MergeFacts
<1> QED
  BY MergeInvInit, <1>1, PTL DEF Spec

-----------------------------------------------------------------------------
(* The theorems                                                            *)

\* Every variable keeps its type: in particular a tick claims a row only while
\* one is queued, and what it stores is a pull request of that branch.
THEOREM RemoteTypeCorrect == Spec => []TypeOK
<1>1. MergeInv => TypeOK
  BY DEF MergeInv
<1> QED
  BY MergeInvAlways, <1>1, PTL

\* However many issues, approvals, pull requests and crashes there are, and
\* whatever people do to pull requests while the tick is between reading and
\* writing, an issue is DONE only if its linked pull request was merged.
THEOREM DoneMeansMerged == Spec => []DoneOnlyIfMerged
<1>1. MergeInv => DoneOnlyIfMerged
  BY DEF MergeInv, DoneLinked, LinksHonest, Honest, DoneOnlyIfMerged, NoPr
<1> QED
  BY MergeInvAlways, <1>1, PTL

\* An observed merge takes an issue to DONE only from READY_TO_MERGE.
THEOREM DoneLeavesReady == Spec => DoneFromReady
<1> DEFINE DoneStep == \A i \in Issues : status'[i] = "DONE" /\ status[i] # "DONE"
                         => status[i] = "READY_TO_MERGE"
<1>1. MergeInv /\ [Next]_vars => [DoneStep]_vars
  <2> SUFFICES ASSUME MergeInv, Next PROVE DoneStep
    OBVIOUS
  <2>1. status \in [Issues -> {"ABSENT", "WORKING", "READY_TO_MERGE", "DONE"}]
    BY DEF MergeInv, TypeOK
  <2>2. \/ UNCHANGED status
        \/ \E i \in Issues : \E s \in {"WORKING", "READY_TO_MERGE"} :
             status' = [status EXCEPT ![i] = s]
        \/ /\ status[tick.row.issue] = "READY_TO_MERGE"
           /\ status' = [status EXCEPT ![tick.row.issue] = "DONE"]
    BY DEF Next, TickStep, TickStart, AddCheck, AddRow, TickList, TickClaim,
           TickCall, TickCallFails, TickStore, TickFinish, TickObserve, TickPick,
           TickLook, TickLookFails, TickUpdate, TickMark, TickEnd, Approve, HookAdd,
           HookLink, HookMark, Deliver, Ready, Rework, ReviewPr, Crash
  <2> QED
    BY <2>1, <2>2
<1> QED
  BY MergeInvAlways, <1>1, PTL DEF Spec, DoneFromReady
-----------------------------------------------------------------------------
(* A delivery makes one backlog item                                       *)

\* A delivery that was not recorded has neither handler nor item, and a handler
\* that is about to add an item is the first to do so.
DeliveryStages ==
  \A d \in Deliveries :
    /\ items[d] <= 1
    /\ event[d] = "none" => items[d] = 0 /\ hook[d].pc = "idle"
    /\ hook[d].pc = "add" => items[d] = 0

LEMMA DeliveryStagesNext == TypeOK /\ DeliveryStages /\ [Next]_vars => DeliveryStages'
<1> SUFFICES ASSUME TypeOK, DeliveryStages, [Next]_vars PROVE DeliveryStages'
  OBVIOUS
<1>0. /\ items \in [Deliveries -> Nat]
      /\ hook \in [Deliveries -> [pc : {"idle", "add", "link", "mark"},
                                  number : Remotes \cup {None}]]
      /\ event \in [Deliveries -> {"none", "received", "processed", "ignored"}]
  BY DEF TypeOK
<1>1. ASSUME UNCHANGED inbound PROVE DeliveryStages'
  BY <1>1 DEF DeliveryStages, inbound
<1>2. ASSUME NEW d \in Deliveries, NEW r \in Remotes, Deliver(d, r)
      PROVE  DeliveryStages'
  BY <1>0, <1>2 DEF Deliver, New, DeliveryStages
<1>3. ASSUME NEW d \in Deliveries, HookAdd(d) PROVE DeliveryStages'
  <2>1. items[d] = 0 /\ event[d] # "none"
    BY <1>3 DEF HookAdd, DeliveryStages
  <2>2. CASE Ignore(d) /\ UNCHANGED items
    BY <1>0, <2>2 DEF Ignore, IdleHook, DeliveryStages
  <2>3. CASE /\ items' = [items EXCEPT ![d] = @ + 1]
             /\ hook' = [hook EXCEPT ![d].pc = "link"]
             /\ UNCHANGED event
    BY <1>0, <2>1, <2>3 DEF DeliveryStages
  <2> QED
    BY <1>3, <2>2, <2>3 DEF HookAdd
<1>4. ASSUME NEW d \in Deliveries, HookLink(d) \/ HookMark(d) PROVE DeliveryStages'
  BY <1>0, <1>4 DEF HookLink, HookMark, IdleHook, DeliveryStages
<1>5. CASE Crash
  BY <1>0, <1>5 DEF Crash, IdleHook, DeliveryStages
<1>6. ASSUME NEW a \in Actors, AddCheck(a) \/ AddRow(a) PROVE UNCHANGED inbound
  BY <1>6 DEF AddCheck, AddRow
<1>7. TickStep => UNCHANGED inbound
  <2>1. TickCall => UNCHANGED inbound
    BY ZenonT(20) DEF TickCall
  <2> QED
    BY <1>6, <2>1
       DEF TickStep, Actors, TickStart, TickList, TickClaim, TickCallFails, TickStore,
           TickFinish, TickObserve, TickPick, TickLook, TickLookFails, TickUpdate,
           TickMark, TickEnd
<1>8. ASSUME \/ \E h \in Handlers : \E i \in Issues : Approve(h, i)
             \/ \E i \in Issues : Ready(i) \/ Rework(i) \/ ReviewPr(i)
             \/ UNCHANGED vars
      PROVE  UNCHANGED inbound
  BY <1>8 DEF Approve, Ready, Rework, ReviewPr, vars
<1> QED
  BY <1>1, <1>2, <1>3, <1>4, <1>5, <1>6, <1>7, <1>8 DEF Next, Actors

\* A delivery that is sent again, before or after a crash at any step of its
\* handler, never makes a second backlog item.
THEOREM DeliveryMakesOneItem == Spec => []DeliveryOnce
<1>1. Init => DeliveryStages
  BY DEF Init, DeliveryStages, IdleHook
<1>2. DeliveryStages => DeliveryOnce
  BY DEF DeliveryStages, DeliveryOnce
<1> QED
  BY <1>1, <1>2, DeliveryStagesNext, RemoteTypeCorrect, PTL DEF Spec

-----------------------------------------------------------------------------
(* An issue gets one remote issue                                          *)

\* The tick is creating a remote issue, or has created one it has not recorded.
Creating == tick.pc \in {"call", "store"} /\ tick.row.kind = "issue"
Created(r) == tick.pc = "store" /\ tick.row.kind = "issue" /\ tick.got = r

\* A link row of an issue names a remote issue opened for it, and an issue has
\* one of them at most.
LinksOwned ==
  /\ \A r \in Remotes : link[r].issue \in Issues => opener[r] = link[r].issue
  /\ \A r, s \in Remotes :
       link[r].issue \in Issues /\ link[r].issue = link[s].issue => r = s

\* While the tick creates, its issue is not linked, and what it created was
\* opened for it.
CreatesUnlinked ==
  /\ Creating => ~Linked(tick.row.issue)
  /\ \A r \in Remotes : Created(r) => opener[r] = tick.row.issue

\* Every remote issue opened for an issue is linked to it, is just being recorded,
\* was never heard of, or was taken over by a delivery.
OpenedLinked ==
  \A r \in Remotes \ unheard : opener[r] \in Issues /\ link[r].item = None
    => link[r].issue = opener[r] \/ Created(r)

LinkInv == LinksOwned /\ CreatesUnlinked /\ OpenedLinked

LinkType == [Remotes -> [issue : Issues \cup {None}, item : Deliveries \cup {None}]]

LEMMA LinkInvInit == Init => LinkInv
  BY RemoteAssumption
     DEF Init, LinkInv, LinksOwned, CreatesUnlinked, OpenedLinked, Creating,
         Created, NoLink, IdleTick

\* A tick that is not creating keeps the links as they are owned.
LEMMA LinkInvRests ==
  ASSUME LinkInv, UNCHANGED <<link, opener, unheard>>, ~Creating',
         ~\E r \in Remotes : Created(r)
  PROVE  LinkInv'
<1>1. ~\E r \in Remotes : Created(r)'
  BY DEF Creating, Created
<1> QED
  BY <1>1 DEF LinkInv, LinksOwned, CreatesUnlinked, OpenedLinked

LEMMA LinkInvNext == MergeInv /\ LinkInv /\ [Next]_vars => LinkInv'
<1> SUFFICES ASSUME MergeInv, LinkInv, [Next]_vars PROVE LinkInv'
  OBVIOUS
<1> USE RemoteAssumption
<1>0. /\ link \in LinkType /\ tick \in TickType
      /\ opener \in [Remotes -> Issues \cup {Human, None}]
  BY DEF MergeInv, TypeOK, LinkType, TickType
<1>1. ASSUME UNCHANGED <<link, opener, unheard, tick>> PROVE LinkInv'
  BY <1>1 DEF LinkInv, LinksOwned, CreatesUnlinked, OpenedLinked, Creating,
              Created, Linked
<1>2. ASSUME UNCHANGED <<link, opener, unheard>>, tick.pc # "store",
             tick'.pc \notin {"call", "store"}
      PROVE  LinkInv'
  BY <1>2, LinkInvRests DEF Creating, Created
<1>3. CASE TickClaim
  <2>1. UNCHANGED <<link, opener, unheard>> /\ tick.pc = "sync"
    BY <1>3 DEF TickClaim, At, remote
  <2>2. CASE tick' = [tick EXCEPT !.left = @ - 1]
    <3>1. tick'.pc = "sync"
      BY <1>0, <2>1, <2>2 DEF TickType
    <3> QED
      BY <1>2, <2>1, <3>1
  <2>3. CASE /\ Head(queue).kind \in Plan(Head(queue).issue)
             /\ tick' = [tick EXCEPT !.pc = "call", !.left = @ - 1,
                                     !.row = Head(queue)]
    <3>1. tick'.pc = "call" /\ tick'.row = Head(queue)
      BY <1>0, <2>3 DEF TickType
    <3>2. Head(queue).kind = "issue" => ~Linked(Head(queue).issue)
      BY <2>3 DEF Plan
    <3>3. CreatesUnlinked'
      BY <2>1, <3>1, <3>2 DEF CreatesUnlinked, Creating, Created, Linked
    <3>4. LinksOwned' /\ OpenedLinked'
      BY <2>1, <3>1 DEF LinkInv, LinksOwned, OpenedLinked, Created
    <3> QED
      BY <3>3, <3>4 DEF LinkInv
  <2> QED
    BY <1>3, <2>2, <2>3 DEF TickClaim
<1>4. CASE TickCall
  <2> DEFINE i == tick.row.issue
  <2>0. UNCHANGED <<link, unheard>> /\ tick.pc = "call"
    BY <1>4, ZenonT(20) DEF TickCall, At
  <2>called. \/ /\ tick.row.kind = "pr" /\ UNCHANGED opener
                /\ \E got : tick' = [tick EXCEPT !.pc = "store", !.got = got]
             \/ /\ tick.row.kind = "issue"
                /\ \E r \in Remotes : /\ opener[r] = None
                                      /\ opener' = [opener EXCEPT ![r] = i]
                                      /\ tick' = [tick EXCEPT !.pc = "store", !.got = r]
    BY <1>4, ZenonT(20) DEF TickCall, OpensIssue, OpensPr
  <2>1. i \in Issues /\ tick'.pc = "store" /\ tick'.row = tick.row
    BY <1>0, <2>0, <2>called DEF MergeInv, TickHonest, Row, TickType
  <2>2. CASE tick.row.kind # "issue"
    <3>1. UNCHANGED opener /\ ~Creating' /\ ~\E r \in Remotes : Created(r)
      BY <2>0, <2>1, <2>2, <2>called DEF Creating, Created
    <3> QED
      BY <2>0, <3>1, LinkInvRests
  <2>3. CASE tick.row.kind = "issue"
    <3>1. PICK r \in Remotes : /\ opener[r] = None
                               /\ opener' = [opener EXCEPT ![r] = i]
                               /\ tick' = [tick EXCEPT !.pc = "store", !.got = r]
      BY <2>3, <2>called
    <3>2. /\ tick'.got = r /\ opener'[r] = i
          /\ \A s \in Remotes \ {r} : opener'[s] = opener[s]
      BY <1>0, <3>1 DEF TickType
    <3>3. ~Linked(i) /\ link[r].issue \notin Issues
      BY <2>0, <2>1, <2>3, <3>1 DEF LinkInv, CreatesUnlinked, Creating, LinksOwned
    <3>4. LinksOwned'
      BY <2>0, <2>1, <3>2, <3>3 DEF LinkInv, LinksOwned
    <3>5. CreatesUnlinked'
      BY <2>0, <2>1, <3>2, <3>3 DEF CreatesUnlinked, Creating, Created, Linked
    <3>6. OpenedLinked'
      BY <2>0, <2>1, <2>3, <3>2 DEF LinkInv, OpenedLinked, Created
    <3> QED
      BY <3>4, <3>5, <3>6 DEF LinkInv
  <2> QED
    BY <2>2, <2>3
<1>5. CASE TickStore
  <2> DEFINE i == tick.row.issue
             r == tick.got
  <2>1. /\ i \in Issues /\ tick.pc = "store" /\ tick'.pc = "finish"
        /\ UNCHANGED <<opener, unheard>>
    BY <1>0, <1>5 DEF TickStore, At, MergeInv, TickHonest, Row, TickType, remote
  <2>2. CASE tick.row.kind = "pr"
    <3>1. UNCHANGED link /\ ~Creating' /\ ~\E s \in Remotes : Created(s)
      BY <1>5, <2>1, <2>2 DEF TickStore, Creating, Created
    <3> QED
      BY <2>1, <3>1, LinkInvRests
  <2>3. CASE tick.row.kind # "pr"
    <3>1. tick.row.kind = "issue" /\ ~Linked(i)
      <4>1. tick.row.kind = "issue"
        BY <2>1, <2>3 DEF MergeInv, TickHonest, Row, Kinds
      <4> QED
        BY <2>1, <4>1 DEF LinkInv, CreatesUnlinked, Creating
    <3>2. link' = [link EXCEPT ![r] = [issue |-> i, item |-> None]]
      BY <1>5, <2>3, <3>1 DEF TickStore
    <3>3. \A s \in Remotes : link'[s] = IF s = r THEN [issue |-> i, item |-> None]
                                        ELSE link[s]
      BY <1>0, <3>2 DEF LinkType
    <3>4. r \in Remotes => opener[r] = i
      BY <2>1, <3>1 DEF LinkInv, CreatesUnlinked, Created
    <3>5. LinksOwned'
      BY <2>1, <3>1, <3>3, <3>4 DEF LinkInv, LinksOwned, Linked
    <3>6. CreatesUnlinked'
      BY <2>1 DEF CreatesUnlinked, Creating, Created
    <3>7. OpenedLinked'
      BY <2>1, <3>3, <3>4 DEF LinkInv, OpenedLinked, Created
    <3> QED
      BY <3>5, <3>6, <3>7 DEF LinkInv
  <2> QED
    BY <2>2, <2>3
<1>called. CASE TickCallFails
  <2> DEFINE i == tick.row.issue
  <2>0. UNCHANGED link /\ tick.pc = "call"
    BY <1>called, ZenonT(20) DEF TickCallFails, At
  <2>called. \/ UNCHANGED <<opener, unheard>>
             \/ \E r \in Remotes : /\ opener[r] = None /\ unheard' = unheard \cup {r}
                                   /\ opener' = [opener EXCEPT ![r] = i]
    BY <1>called, ZenonT(20) DEF TickCallFails, OpensIssue, OpensPr, remote
  <2>1. tick'.pc = "sync"
    BY <1>0, <1>called DEF TickCallFails, RowEnds, TickType
  <2>2. CASE UNCHANGED <<opener, unheard>>
    BY <1>2, <2>0, <2>1, <2>2
  <2>3. ASSUME NEW r \in Remotes, opener[r] = None, unheard' = unheard \cup {r},
               opener' = [opener EXCEPT ![r] = i]
        PROVE  LinkInv'
    <3>1. \A s \in Remotes \ {r} : opener'[s] = opener[s]
      BY <1>0, <2>3
    <3>2. link[r].issue \notin Issues
      BY <2>3 DEF LinkInv, LinksOwned
    <3> QED
      BY <2>0, <2>1, <2>3, <3>1, <3>2
         DEF LinkInv, LinksOwned, CreatesUnlinked, OpenedLinked, Creating, Created
  <2> QED
    BY <2>called, <2>2, <2>3
<1>6. CASE TickLookFails \/ TickFinish \/ TickEnd
  <2>1. tick.pc # "store" /\ UNCHANGED <<link, opener, unheard>>
    BY <1>6 DEF TickLookFails, TickFinish, TickEnd, At, remote
  <2>2. \/ tick' = IdleTick
        \/ RowEnds("sync") \/ RowEnds("observe")
    BY <1>6 DEF TickLookFails, TickFinish, TickEnd
  <2>3. tick'.pc \in {"idle", "sync", "observe"}
    <3>1. ASSUME NEW p \in {"sync", "observe"}, RowEnds(p) PROVE tick'.pc = p
      BY <1>0, <3>1 DEF RowEnds, TickType
    <3> QED
      BY <2>2, <3>1 DEF IdleTick
  <2> QED
    BY <1>2, <2>1, <2>3
<1>7. CASE TickStart \/ TickList \/ TickObserve
  <2>1. tick'.pc \in {"queue", "sync", "observe"} /\ tick.pc # "store"
        /\ UNCHANGED <<link, opener, unheard>>
    BY <1>0, <1>7 DEF TickStart, TickList, TickObserve, Goto, TickType, At,
                      IdleTick, remote
  <2> QED
    BY <1>2, <2>1
<1>8. CASE TickPick \/ TickLook \/ TickUpdate \/ TickMark
  <2>1. tick.pc # "store" /\ UNCHANGED <<link, opener, unheard>>
    <3>1. TickPick => tick.pc # "store" /\ UNCHANGED <<link, opener, unheard>>
      BY DEF TickPick, At, remote
    <3>2. TickLook \/ TickUpdate \/ TickMark
            => tick.pc # "store" /\ UNCHANGED <<link, opener, unheard>>
      BY DEF TickLook, TickUpdate, TickMark, At, remote
    <3> QED
      BY <1>8, <3>1, <3>2
  <2>2. tick'.pc \in {"idle", "observe", "look", "update", "mark", "close"}
    <3>1. TickPick => tick'.pc \in {"observe", "look"}
      BY <1>0 DEF TickPick, TickType, At
    <3>2. TickLook \/ TickUpdate => tick'.pc \in {"update", "mark", "close"}
      BY <1>0 DEF TickLook, TickUpdate, Goto, TickType
    <3>3. TickMark => tick'.pc \in {"idle", "close"}
      BY <1>0 DEF TickMark, Goto, TickType, IdleTick
    <3> QED
      BY <1>8, <3>1, <3>2, <3>3
  <2> QED
    BY <1>2, <2>1, <2>2
<1>9. ASSUME NEW d \in Deliveries, HookLink(d) PROVE LinkInv'
  <2>1. UNCHANGED <<opener, unheard, tick>>
    BY <1>9 DEF HookLink, remote
  <2>2. \A s \in Remotes : \/ link'[s] = link[s]
                           \/ link'[s].issue = None /\ link'[s].item = d
    BY <1>0, <1>9 DEF HookLink, LinkType
  <2>3. LinksOwned'
    <3>1. \A s \in Remotes : link'[s].issue \in Issues => link'[s] = link[s]
      BY <2>2
    <3> QED
      BY <2>1, <3>1 DEF LinkInv, LinksOwned
  <2>4. CreatesUnlinked'
    <3>1. tick.pc \in {"call", "store"} => tick.row.issue \in Issues
      BY DEF MergeInv, TickHonest, Row
    <3> QED
      BY <2>1, <2>2, <3>1 DEF LinkInv, CreatesUnlinked, Creating, Created, Linked
  <2>5. OpenedLinked'
    BY <2>1, <2>2 DEF LinkInv, OpenedLinked, Created
  <2> QED
    BY <2>3, <2>4, <2>5 DEF LinkInv
<1>10. CASE Crash
  <2>1. UNCHANGED <<link, opener>> /\ tick'.pc = "idle"
    BY <1>0, <1>10 DEF Crash, IdleTick
  <2>2. \A r \in Remotes \ unheard' : r \notin unheard /\ ~Created(r)
    BY <1>10 DEF Crash, Unstored, Created, At
  <2> QED
    BY <2>1, <2>2 DEF LinkInv, LinksOwned, CreatesUnlinked, OpenedLinked, Creating,
                      Created
<1>11. ASSUME NEW a \in Actors, AddCheck(a) \/ AddRow(a) PROVE LinkInv'
  BY <1>1, <1>11 DEF AddCheck, AddRow, remote
<1>12. ASSUME \/ \E h \in Handlers : \E i \in Issues : Approve(h, i)
              \/ \E d \in Deliveries : \/ HookAdd(d) \/ HookMark(d)
                                       \/ \E r \in Remotes : Deliver(d, r)
              \/ \E i \in Issues : Ready(i) \/ Rework(i) \/ ReviewPr(i)
              \/ UNCHANGED vars
       PROVE  LinkInv'
  BY <1>1, <1>12 DEF Approve, HookAdd, HookMark, Deliver, Ready, Rework, ReviewPr,
                     vars, remote
<1>13. TickStep => LinkInv'
  BY <1>3, <1>4, <1>5, <1>called, <1>6, <1>7, <1>8, <1>11 DEF TickStep, Actors
<1> QED
  BY <1>9, <1>10, <1>11, <1>12, <1>13 DEF Next, Actors

\* However often an issue is approved and by whomever its row is queued, after
\* failures and crashes too, one remote issue at most is opened for it that the
\* daemon hears of, those aside that a delivery has taken over.
THEOREM OneRemoteIssue == Spec => []RemoteIssueOnce
<1>1. LinkInv => RemoteIssueOnce
  <2> SUFFICES ASSUME LinkInv, NEW i \in Issues
               PROVE  Cardinality({r \in Remotes \ unheard :
                                     opener[r] = i /\ link[r].item = None}) <= 1
    BY DEF RemoteIssueOnce
  <2> DEFINE Own == {r \in Remotes \ unheard : opener[r] = i /\ link[r].item = None}
  <2>1. ASSUME NEW r \in Own, NEW s \in Own PROVE r = s
    <3>1. /\ link[r].issue = i \/ Created(r)
          /\ link[s].issue = i \/ Created(s)
      BY DEF LinkInv, OpenedLinked
    <3>2. ASSUME NEW q \in Own, Created(q) PROVE Creating /\ tick.row.issue = i
      BY <3>2 DEF LinkInv, CreatesUnlinked, Created, Creating
    <3>3. (\E q \in Own : Created(q)) => ~Linked(i)
      BY <3>2 DEF LinkInv, CreatesUnlinked
    <3>4. CASE link[r].issue = i /\ link[s].issue = i
      BY <3>4 DEF LinkInv, LinksOwned
    <3>5. CASE Created(r) /\ Created(s)
      BY <3>5 DEF Created
    <3> QED
      BY <3>1, <3>3, <3>4, <3>5 DEF Linked
  <2>2. CASE Own = {}
    BY <2>2, FS_EmptySet
  <2>3. CASE \E r \in Own : TRUE
    <3>1. PICK r \in Own : TRUE
      BY <2>3
    <3>2. Own = {r}
      BY <2>1, <3>1
    <3>3. Cardinality({r}) = 1
      BY FS_Singleton
    <3> QED
      BY <3>2, <3>3
  <2> QED
    BY <2>2, <2>3
<1> QED
  BY <1>1, LinkInvInit, LinkInvNext, MergeInvAlways, PTL DEF Spec
=============================================================================
