------------------------ MODULE BacklogRoutingProofs ------------------------
(***************************************************************************)
(* Theorems about BacklogRouting for any backlog, any number of handlers   *)
(* and issues: the state stays well typed, routing implements Intake, an   *)
(* issue always has a source item, and items join only open issues.        *)
(***************************************************************************)
EXTENDS BacklogRouting, TLAPS

Admitted == {it \in Items : approval[it] \in {"approved", "dismissed"}}

\* What an actor is about to route has passed the admission gate, and nothing
\* returns to pending; what it is about to touch is an item or an issue.
Admits(a) ==
  /\ actor[a].left \subseteq Admitted
  /\ actor[a].pc \in Routing => actor[a].item \in Admitted
  /\ actor[a].pc \in {"read", "approve"} =>
       actor[a].item \in Items /\ approval[actor[a].item] # "unfiled"
  /\ actor[a].pc \in {"attach", "dismiss", "delete"} => actor[a].target \in Issues

IntakeInv ==
  /\ TypeOK
  /\ \A a \in Actors : Admits(a)
  /\ \A it \in Items : consumed[it] # None => it \in Admitted

-----------------------------------------------------------------------------
(* Each step keeps the invariant                                           *)

LEMMA IdleTyped == Idle \in Doing
  BY DEF Idle, Doing, Steps

LEMMA IntakeInvInit == Init => IntakeInv
<1> SUFFICES ASSUME Init PROVE IntakeInv
  OBVIOUS
<1>1. TypeOK
  BY IdleTyped, BacklogAssumption DEF Init, TypeOK
<1>2. \A a \in Actors : Admits(a)
  BY DEF Init, Admits, Idle, Routing
<1> QED
  BY <1>1, <1>2 DEF Init, IntakeInv

\* The admission gate only opens.
LEMMA AdmittedGrows ==
  ASSUME IntakeInv, Admitted \subseteq Admitted',
         \A it \in Items : approval[it] # "unfiled" => approval'[it] # "unfiled",
         NEW a \in Actors, actor'[a] = actor[a]
  PROVE  Admits(a)'
  BY DEF IntakeInv, Admits

\* A step of one actor that leaves the backlog's gate alone.
LEMMA OneActor ==
  ASSUME IntakeInv, NEW a \in Actors, NEW r, actor' = [actor EXCEPT ![a] = r],
         UNCHANGED approval, Admits(a)',
         NEW b \in Actors
  PROVE  Admits(b)'
<1>1. CASE b = a
  BY <1>1
<1>2. CASE b # a
  <2>1. actor'[b] = actor[b]
    BY <1>2 DEF IntakeInv, TypeOK
  <2> QED
    BY <2>1, AdmittedGrows DEF Admitted
<1> QED
  BY <1>1, <1>2

LEMMA GateSteps ==
  ASSUME IntakeInv,
         \/ \E it \in Items : AddBacklog(it)
         \/ \E it \in Items, g \in {"approved", "dismissed"} : SetApproval(it, g)
  PROVE  IntakeInv'
<1>1. TypeOK'
  BY BacklogAssumption
     DEF IntakeInv, TypeOK, AddBacklog, SetApproval, Request, bounds, Approvals
<1>2. /\ Admitted \subseteq Admitted' /\ UNCHANGED <<actor, consumed>>
      /\ \A it \in Items : approval[it] # "unfiled" => approval'[it] # "unfiled"
  BY DEF IntakeInv, TypeOK, AddBacklog, SetApproval, Admitted
<1>3. \A a \in Actors : Admits(a)'
  BY <1>2, AdmittedGrows
<1> QED
  BY <1>1, <1>2, <1>3 DEF IntakeInv

LEMMA GotoTyped ==
  ASSUME IntakeInv, NEW a \in Actors, NEW pc \in Steps, Goto(a, pc)
  PROVE  actor' \in [Actors -> Doing]
<1>1. [actor[a] EXCEPT !.pc = pc] \in Doing
  BY DEF IntakeInv, TypeOK, Doing
<1> QED
  BY <1>1 DEF IntakeInv, TypeOK, Goto

LEMMA BecomeTyped ==
  ASSUME IntakeInv, NEW a \in Actors, NEW r \in Doing, Become(a, r)
  PROVE  actor' \in [Actors -> Doing]
  BY DEF IntakeInv, TypeOK, Become

LEMMA AbortTyped ==
  ASSUME IntakeInv, NEW a \in Actors, Abort(a)
  PROVE  actor' \in [Actors -> Doing]
<1>1. "release" \in Steps
  BY DEF Steps
<1> QED
  BY <1>1, IdleTyped, GotoTyped, BecomeTyped DEF Abort

LEMMA RouterTypes ==
  ASSUME IntakeInv, NEW a \in Actors, RouterStep(a)
  PROVE  TypeOK'
<1>0. actor[a] \in Doing /\ Routing \subseteq Steps
      /\ {"next", "release", "idle"} \subseteq Steps
  BY DEF IntakeInv, TypeOK, Routing, Steps
<1> USE DEF bounds, backlog, At
<1>1. CASE List(a)
  <2>1. [actor[a] EXCEPT !.pc = "next", !.left = Promotable] \in Doing
    BY <1>0 DEF Doing, Promotable
  <2> QED
    BY <1>1, <2>1, BecomeTyped DEF List, IntakeInv, TypeOK
<1>2. CASE Read(a)
  <2>1. {"approve", "candidates"} \subseteq Steps
    BY DEF Steps, Routing
  <2> QED
    BY <1>0, <1>2, <2>1, GotoTyped DEF Read, IntakeInv, TypeOK
<1>3. CASE NowApprove(a)
  <2>1. "candidates" \in Steps
    BY DEF Steps, Routing
  <2>2. actor' \in [Actors -> Doing]
    BY <1>3, <2>1, GotoTyped DEF NowApprove
  <2> QED
    BY <1>3, <2>2 DEF NowApprove, Approvals, IntakeInv, TypeOK
<1>4. CASE NextItem(a)
  <2>1. CASE actor[a].left = {}
    <3>1. actor' \in [Actors -> Doing]
      BY <1>0, <1>4, <2>1, GotoTyped, BecomeTyped, IdleTyped DEF NextItem
    <3> QED
      BY <1>4, <3>1 DEF NextItem, IntakeInv, TypeOK
  <2>2. CASE actor[a].left # {}
    <3>1. PICK it \in actor[a].left : Become(a, [actor[a] EXCEPT
               !.pc = IF actor[a].locked THEN "candidates" ELSE "create",
               !.left = @ \ {it}, !.item = it, !.candidates = {}, !.target = None])
      BY <1>4, <2>2 DEF NextItem
    <3>2. [actor[a] EXCEPT
               !.pc = IF actor[a].locked THEN "candidates" ELSE "create",
               !.left = @ \ {it}, !.item = it, !.candidates = {}, !.target = None]
            \in Doing
      BY <1>0 DEF Doing, Steps, Routing
    <3>3. actor' \in [Actors -> Doing]
      BY <3>1, <3>2, BecomeTyped
    <3> QED
      BY <1>4, <3>3 DEF NextItem, IntakeInv, TypeOK
  <2> QED
    BY <2>1, <2>2
<1>5. ASSUME NEW i \in Issues
      PROVE [actor[a] EXCEPT !.pc = "attach", !.target = i] \in Doing
  BY <1>0 DEF Doing, Steps, Routing
<1>6. CASE Candidates(a)
  <2>1. [actor[a] EXCEPT !.pc = "agent", !.candidates = Joinable] \in Doing
    BY <1>0 DEF Doing, Steps, Routing, Joinable
  <2>2. "create" \in Steps /\ Joinable \subseteq Issues
    BY DEF Steps, Routing, Joinable
  <2>3. actor' \in [Actors -> Doing]
    BY <1>5, <1>6, <2>1, <2>2, GotoTyped, BecomeTyped DEF Candidates, Duplicate
  <2> QED
    BY <1>6, <2>3 DEF Candidates, IntakeInv, TypeOK
<1>7. CASE AgentAnswers(a)
  <2>1. "recheck" \in Steps /\ actor[a].candidates \subseteq Issues
    BY <1>0 DEF Steps, Routing, Doing
  <2>2. actor' \in [Actors -> Doing]
    BY <1>5, <1>7, <2>1, GotoTyped, BecomeTyped DEF AgentAnswers, Decisions
  <2> QED
    BY <1>7, <2>2 DEF AgentAnswers, IntakeInv, TypeOK
<1>8. CASE Recheck(a)
  <2>1. "create" \in Steps /\ Joinable \subseteq Issues
    BY DEF Steps, Routing, Joinable
  <2>2. actor' \in [Actors -> Doing]
    BY <1>5, <1>8, <2>1, GotoTyped, BecomeTyped DEF Recheck, Duplicate
  <2> QED
    BY <1>8, <2>2 DEF Recheck, IntakeInv, TypeOK
<1>9. CASE Create(a)
  <2>1. actor[a].item \in Items
    BY <1>9 DEF Create, Admitted, IntakeInv, Admits, Routing
  <2>2. "NEW" \in Stages
    BY BacklogAssumption
  <2>3. consumed' \in [Items -> Issues \cup {None}]
        /\ status' \in [Issues -> Stages \cup {"absent"}]
    BY <1>9, <2>1, <2>2 DEF Create, IntakeInv, TypeOK
  <2>4. actor' \in [Actors -> Doing]
    BY <1>0, <1>9, GotoTyped, AbortTyped DEF Create
  <2> QED
    BY <1>9, <2>3, <2>4 DEF Create, IntakeInv, TypeOK
<1>10. CASE Attach(a)
  <2>1. actor[a].item \in Items /\ actor[a].target \in Issues
    BY <1>10 DEF Attach, Admitted, IntakeInv, Admits, Routing
  <2>2. \A s \in Stages : Joined(s) \in Stages
    BY BacklogAssumption DEF Joined
  <2>3. status' \in [Issues -> Stages \cup {"absent"}]
    BY <1>10, <2>1, <2>2
       DEF Attach, Joinable, AcceptsQueueMessage, IntakeInv, TypeOK
  <2>4. consumed' \in [Items -> Issues \cup {None}]
    BY <1>10, <2>1 DEF Attach, IntakeInv, TypeOK
  <2>5. actor' \in [Actors -> Doing]
    BY <1>0, <1>10, GotoTyped, AbortTyped DEF Attach
  <2> QED
    BY <1>10, <2>3, <2>4, <2>5 DEF Attach, IntakeInv, TypeOK
<1>11. CASE Release(a)
  BY <1>11, IdleTyped, BecomeTyped DEF Release, IntakeInv, TypeOK
<1> QED
  BY <1>1, <1>2, <1>3, <1>4, <1>6, <1>7, <1>8, <1>9, <1>10, <1>11 DEF RouterStep

\* A step that only moves on, or that replaces what the actor is doing.
LEMMA GotoAdmits ==
  ASSUME IntakeInv, NEW a \in Actors, NEW pc, Goto(a, pc), UNCHANGED approval,
         pc \in Routing => actor[a].item \in Admitted,
         pc \notin {"read", "approve"},
         pc \in {"attach", "dismiss", "delete"} => actor[a].target \in Issues
  PROVE  Admits(a)'
<1>1. actor[a] \in Doing /\ actor'[a] = [actor[a] EXCEPT !.pc = pc]
  BY DEF IntakeInv, TypeOK, Goto
<1>2. /\ actor'[a].pc = pc /\ actor'[a].left = actor[a].left
      /\ actor'[a].item = actor[a].item /\ actor'[a].target = actor[a].target
  BY <1>1 DEF Doing
<1>3. actor[a].left \subseteq Admitted /\ Admitted' = Admitted
  BY DEF IntakeInv, Admits, Admitted
<1> QED
  BY <1>2, <1>3 DEF Admits

LEMMA BecomeAdmits ==
  ASSUME IntakeInv, NEW a \in Actors, NEW r, Become(a, r), UNCHANGED approval,
         r.left \subseteq Admitted,
         r.pc \in Routing => r.item \in Admitted,
         r.pc \in {"read", "approve"} =>
           r.item \in Items /\ approval[r.item] # "unfiled",
         r.pc \in {"attach", "dismiss", "delete"} => r.target \in Issues
  PROVE  Admits(a)'
<1>1. actor'[a] = r /\ Admitted' = Admitted
  BY DEF IntakeInv, TypeOK, Become, Admitted
<1> QED
  BY <1>1 DEF Admits

LEMMA AbortAdmits ==
  ASSUME IntakeInv, NEW a \in Actors, Abort(a), UNCHANGED approval
  PROVE  Admits(a)'
<1>1. CASE Goto(a, "release")
  BY <1>1, GotoAdmits DEF Routing
<1>2. CASE Become(a, Idle)
  BY <1>2, BecomeAdmits DEF Routing, Idle
<1> QED
  BY <1>1, <1>2 DEF Abort

\* A router keeps to admitted items: it lists approved ones, approves a pending
\* one before it goes on, and never touches the gate otherwise.
LEMMA RouterAdmits ==
  ASSUME IntakeInv, NEW a \in Actors, RouterStep(a), ~NowApprove(a)
  PROVE  Admits(a)'
<1>0. actor[a] \in Doing /\ approval \in [Items -> Approvals \cup {"unfiled"}]
      /\ actor[a].left \subseteq Admitted
  BY DEF IntakeInv, TypeOK, Admits
<1>1. UNCHANGED approval
  BY DEF RouterStep, List, Read, NextItem, Candidates, AgentAnswers, Recheck,
         Create, Attach, Release, backlog
<1>2. ASSUME NEW i \in Issues, actor[a].item \in Admitted,
             Become(a, [actor[a] EXCEPT !.pc = "attach", !.target = i])
      PROVE  Admits(a)'
  <2> DEFINE r == [actor[a] EXCEPT !.pc = "attach", !.target = i]
  <2>1. r.left = actor[a].left /\ r.pc = "attach" /\ r.item = actor[a].item
        /\ r.target = i
    BY <1>0 DEF Doing
  <2> QED
    BY <1>0, <1>1, <1>2, <2>1, BecomeAdmits DEF Routing
<1>3. actor[a].pc \in Routing => actor[a].item \in Admitted
  BY DEF IntakeInv, Admits
<1>4. CASE List(a)
  <2> DEFINE r == [actor[a] EXCEPT !.pc = "next", !.left = Promotable]
  <2>1. r.left = Promotable /\ r.pc = "next" /\ Promotable \subseteq Admitted
    BY <1>0 DEF Doing, Promotable, Admitted
  <2> QED
    BY <1>1, <1>4, <2>1, BecomeAdmits DEF List, Routing
<1>5. CASE Read(a)
  <2>1. /\ actor[a].pc = "read" /\ actor[a].item \in Items
        /\ approval[actor[a].item] # "unfiled"
    BY <1>5 DEF Read, At, IntakeInv, Admits
  <2>2. CASE Goto(a, "release")
    BY <1>1, <2>2, GotoAdmits DEF Routing
  <2>3. CASE Goto(a, "approve")
    <3>1. actor'[a].pc = "approve" /\ actor'[a].item = actor[a].item
          /\ actor'[a].left = actor[a].left
      BY <1>0, <2>3 DEF Goto, Doing, IntakeInv, TypeOK
    <3> QED
      BY <1>0, <1>1, <2>1, <3>1 DEF Admits, Admitted, Routing
  <2>4. CASE approval[actor[a].item] \notin {"pending", "dismissed"}
             /\ Goto(a, "candidates")
    BY <1>0, <1>1, <2>1, <2>4, GotoAdmits DEF Admitted, Approvals
  <2> QED
    BY <1>5, <2>2, <2>3, <2>4 DEF Read
<1>6. CASE NextItem(a)
  <2>1. CASE actor[a].left = {}
    <3>1. CASE Goto(a, "release")
      BY <1>1, <3>1, GotoAdmits DEF Routing
    <3>2. CASE Become(a, Idle)
      BY <1>1, <3>2, BecomeAdmits DEF Routing, Idle
    <3> QED
      BY <1>6, <2>1, <3>1, <3>2 DEF NextItem
  <2>2. CASE actor[a].left # {}
    <3>1. PICK it \in actor[a].left : Become(a, [actor[a] EXCEPT
               !.pc = IF actor[a].locked THEN "candidates" ELSE "create",
               !.left = @ \ {it}, !.item = it, !.candidates = {}, !.target = None])
      BY <1>6, <2>2 DEF NextItem
    <3> DEFINE r == [actor[a] EXCEPT
               !.pc = IF actor[a].locked THEN "candidates" ELSE "create",
               !.left = @ \ {it}, !.item = it, !.candidates = {}, !.target = None]
    <3>2. /\ r.left = actor[a].left \ {it} /\ r.item = it
          /\ r.pc \in {"candidates", "create"}
      BY <1>0 DEF Doing
    <3> QED
      BY <1>0, <1>1, <3>1, <3>2, BecomeAdmits
  <2> QED
    BY <2>1, <2>2
<1>7. CASE Candidates(a)
  <2>1. actor[a].item \in Admitted
    BY <1>3, <1>7 DEF Candidates, At, Routing
  <2>2. CASE Goto(a, "create")
    BY <1>1, <2>1, <2>2, GotoAdmits
  <2>3. CASE Become(a, [actor[a] EXCEPT !.pc = "agent", !.candidates = Joinable])
    <3> DEFINE r == [actor[a] EXCEPT !.pc = "agent", !.candidates = Joinable]
    <3>1. r.pc = "agent" /\ r.left = actor[a].left /\ r.item = actor[a].item
      BY <1>0 DEF Doing
    <3> QED
      BY <1>0, <1>1, <2>1, <2>3, <3>1, BecomeAdmits
  <2> QED
    BY <1>2, <1>7, <2>1, <2>2, <2>3 DEF Candidates, Duplicate, Joinable
<1>8. CASE AgentAnswers(a)
  <2>1. actor[a].item \in Admitted /\ actor[a].candidates \subseteq Issues
    BY <1>0, <1>3, <1>8 DEF AgentAnswers, At, Routing, Doing
  <2>2. CASE Goto(a, "recheck")
    BY <1>1, <2>1, <2>2, GotoAdmits
  <2> QED
    BY <1>2, <1>8, <2>1, <2>2 DEF AgentAnswers, Decisions
<1>9. CASE Recheck(a)
  <2>1. actor[a].item \in Admitted
    BY <1>3, <1>9 DEF Recheck, At, Routing
  <2>2. CASE Goto(a, "create")
    BY <1>1, <2>1, <2>2, GotoAdmits
  <2> QED
    BY <1>2, <1>9, <2>1, <2>2 DEF Recheck, Duplicate, Joinable
<1>10. CASE Goto(a, "next")
  BY <1>1, <1>10, GotoAdmits DEF Routing
<1>11. CASE Create(a) \/ Attach(a)
  BY <1>1, <1>10, <1>11, AbortAdmits DEF Create, Attach
<1>12. CASE Release(a)
  BY <1>1, <1>12, BecomeAdmits DEF Release, Routing, Idle
<1> QED
  BY <1>4, <1>5, <1>6, <1>7, <1>8, <1>9, <1>11, <1>12 DEF RouterStep

\* Only Create and Attach place an item, and it is the admitted one in hand.
LEMMA RouterPlaces ==
  ASSUME IntakeInv, NEW a \in Actors, RouterStep(a)
  PROVE  \/ UNCHANGED <<consumed, status>>
         \/ /\ UNCHANGED approval
            /\ actor[a].item \in Admitted /\ consumed[actor[a].item] = None
            /\ \E i \in Issues :
                 /\ consumed' = [consumed EXCEPT ![actor[a].item] = i]
                 /\ status[i] = "absent" \/ i \in Joinable
                 /\ \E s \in AcceptsQueueMessage : status' = [status EXCEPT ![i] = s]
<1>1. CASE Create(a)
  <2>1. \A i \in Issues : NewId(i) => status[i] = "absent"
    BY BacklogAssumption DEF NewId, Live
  <2>2. "NEW" \in AcceptsQueueMessage
    BY DEF AcceptsQueueMessage
  <2> QED
    BY <1>1, <2>1, <2>2 DEF Create, IntakeInv, Admits, Routing, At
<1>2. CASE Attach(a)
  <2>1. \A s \in AcceptsQueueMessage : Joined(s) \in AcceptsQueueMessage
    BY DEF AcceptsQueueMessage, Joined
  <2> QED
    BY <1>2, <2>1 DEF Attach, Joinable, IntakeInv, Admits, Routing, At
<1> QED
  BY <1>1, <1>2 DEF RouterStep, List, Read, NowApprove, NextItem, Candidates,
                    AgentAnswers, Recheck, Release, backlog

LEMMA RouterSteps ==
  ASSUME IntakeInv, NEW a \in Actors, RouterStep(a)
  PROVE  IntakeInv'
<1>0. /\ actor \in [Actors -> Doing] /\ consumed \in [Items -> Issues \cup {None}]
      /\ approval \in [Items -> Approvals \cup {"unfiled"}]
  BY DEF IntakeInv, TypeOK
<1>1. TypeOK'
  BY RouterTypes
<1>2. CASE NowApprove(a)
  <2>1. actor[a].item \in Items /\ UNCHANGED consumed
    BY <1>2 DEF NowApprove, IntakeInv, Admits, At
  <2>2. /\ Admitted' = Admitted \cup {actor[a].item}
        /\ \A it \in Items : approval[it] # "unfiled" => approval'[it] # "unfiled"
    BY <1>0, <1>2, <2>1 DEF NowApprove, Admitted
  <2>3. ASSUME NEW b \in Actors PROVE Admits(b)'
    <3>1. CASE b = a
      <4>1. /\ actor'[a].pc = "candidates" /\ actor'[a].left = actor[a].left
            /\ actor'[a].item = actor[a].item
        BY <1>0, <1>2 DEF NowApprove, Goto, Doing
      <4> QED
        BY <2>2, <3>1, <4>1 DEF Admits, IntakeInv
    <3>2. CASE b # a
      <4>1. actor'[b] = actor[b]
        BY <1>0, <1>2, <3>2 DEF NowApprove, Goto
      <4> QED
        BY <2>2, <4>1, AdmittedGrows
    <3> QED
      BY <3>1, <3>2
  <2> QED
    BY <1>1, <2>1, <2>2, <2>3 DEF IntakeInv
<1>3. CASE ~NowApprove(a)
  <2>1. UNCHANGED approval
    BY <1>3 DEF RouterStep, List, Read, NextItem, Candidates, AgentAnswers, Recheck,
                Create, Attach, Release, backlog
  <2>2. Admits(a)'
    BY <1>3, RouterAdmits
  <2>3. \E r : actor' = [actor EXCEPT ![a] = r]
    BY DEF RouterStep, List, Read, NowApprove, NextItem, Candidates, Duplicate,
           AgentAnswers, Recheck, Create, Attach, Release, Goto, Become, Abort
  <2>4. \A b \in Actors : Admits(b)'
    BY <2>1, <2>2, <2>3, OneActor
  <2>5. \A it \in Items : consumed'[it] # None => it \in Admitted'
    BY <1>0, <2>1, RouterPlaces DEF IntakeInv, Admitted
  <2> QED
    BY <1>1, <2>4, <2>5 DEF IntakeInv
<1> QED
  BY <1>2, <1>3

\* Starting a router or a removal, a removal's two writes, the environment.
LEMMA StartSteps ==
  ASSUME IntakeInv,
         \/ TickStart
         \/ \E h \in Handlers : Operator(h)
         \/ \E h \in Handlers : DeleteIssue(h)
  PROVE  IntakeInv'
<1>0. /\ actor \in [Actors -> Doing] /\ consumed \in [Items -> Issues \cup {None}]
      /\ status \in [Issues -> Stages \cup {"absent"}]
      /\ UNCHANGED approval /\ Tick \in Actors /\ Handlers \subseteq Actors
  BY DEF IntakeInv, TypeOK, TickStart, Operator, RunNow, Triage, RemoveIssue,
         DeleteIssue, backlog, Actors
<1>1. PICK a \in Actors, r \in Doing :
        /\ Become(a, r) /\ r.left = {} /\ r.pc \notin Routing
        /\ r.pc \in {"read", "approve"} =>
             r.item \in Items /\ approval[r.item] # "unfiled"
        /\ r.pc \in {"attach", "dismiss", "delete"} => r.target \in Issues
  <2>1. CASE TickStart
    <3> DEFINE r == [Idle EXCEPT !.pc = "list", !.locked = TRUE]
    <3>1. r \in Doing /\ r.left = {} /\ r.pc = "list"
      BY DEF Idle, Doing, Steps
    <3> QED
      BY <1>0, <2>1, <3>1 DEF TickStart, Routing
  <2>2. CASE \E h \in Handlers, it \in Items : RunNow(h, it)
    <3>1. PICK h \in Handlers, it \in Items : RunNow(h, it)
      BY <2>2
    <3> DEFINE r == [Idle EXCEPT !.pc = "read", !.locked = TRUE, !.item = it]
    <3>2. r \in Doing /\ r.left = {} /\ r.pc = "read" /\ r.item = it
      BY DEF Idle, Doing, Steps
    <3> QED
      BY <1>0, <3>1, <3>2 DEF RunNow, Routing
  <2>3. CASE \E h \in Handlers : Triage(h)
    <3> DEFINE r == [Idle EXCEPT !.pc = "list"]
    <3>1. r \in Doing /\ r.left = {} /\ r.pc = "list"
      BY DEF Idle, Doing, Steps
    <3> QED
      BY <1>0, <2>3, <3>1 DEF Triage, Routing
  <2>4. CASE \E h \in Handlers, i \in Issues : RemoveIssue(h, i)
    <3>1. PICK h \in Handlers, i \in Issues : RemoveIssue(h, i)
      BY <2>4
    <3> DEFINE r == [Idle EXCEPT !.pc = "dismiss", !.target = i]
    <3>2. r \in Doing /\ r.left = {} /\ r.pc = "dismiss" /\ r.target = i
      BY DEF Idle, Doing, Steps
    <3> QED
      BY <1>0, <3>1, <3>2 DEF RemoveIssue, Routing
  <2>5. CASE \E h \in Handlers : DeleteIssue(h)
    BY <1>0, <2>5, IdleTyped DEF DeleteIssue, Idle, Routing
  <2> QED
    BY <2>1, <2>2, <2>3, <2>4, <2>5 DEF Operator
<1>2. \A b \in Actors : Admits(b)'
  <2>1. Admits(a)'
    BY <1>0, <1>1, BecomeAdmits
  <2> QED
    BY <1>0, <1>1, <2>1, OneActor DEF Become
<1>3. actor' \in [Actors -> Doing]
  BY <1>1, BecomeTyped
<1>4. /\ lock' \in {"free", "fresh", "stale"}
      /\ requests' \in 0..MaxRequests /\ crashes' \in 0..MaxCrashes
      /\ approval' \in [Items -> Approvals \cup {"unfiled"}]
  <2>1. lock' \in {lock, "fresh"} /\ UNCHANGED crashes
        /\ (UNCHANGED requests \/ Request)
    BY DEF TickStart, Operator, RunNow, Triage, RemoveIssue, DeleteIssue, Acquire,
           bounds
  <2>2. requests' \in 0..MaxRequests
    BY <2>1, BacklogAssumption DEF Request, IntakeInv, TypeOK
  <2> QED
    BY <1>0, <2>1, <2>2 DEF IntakeInv, TypeOK
<1>5. /\ consumed' \in [Items -> Issues \cup {None}]
      /\ status' \in [Issues -> Stages \cup {"absent"}]
      /\ \A it \in Items : consumed'[it] # None => it \in Admitted'
  <2>1. CASE UNCHANGED <<consumed, status>>
    BY <1>0, <2>1 DEF IntakeInv, Admitted
  <2>2. CASE \E h \in Handlers : DeleteIssue(h)
    BY <1>0, <2>2 DEF DeleteIssue, IntakeInv, Admitted
  <2> QED
    BY <2>1, <2>2 DEF TickStart, Operator, RunNow, Triage, RemoveIssue, backlog
<1> QED
  BY <1>2, <1>3, <1>4, <1>5 DEF IntakeInv, TypeOK

LEMMA DismissSteps ==
  ASSUME IntakeInv, NEW h \in Handlers, DismissConsumed(h)
  PROVE  IntakeInv'
<1>0. /\ actor \in [Actors -> Doing] /\ h \in Actors
      /\ approval \in [Items -> Approvals \cup {"unfiled"}]
      /\ actor[h].pc = "dismiss" /\ actor[h].target \in Issues
  BY DEF IntakeInv, TypeOK, DismissConsumed, At, Admits, Actors
<1>1. None \notin Issues
  BY BacklogAssumption
<1>2. /\ Admitted \subseteq Admitted' /\ UNCHANGED consumed
      /\ \A it \in Items : approval[it] # "unfiled" => approval'[it] # "unfiled"
  BY <1>0 DEF DismissConsumed, Admitted
<1>3. approval' \in [Items -> Approvals \cup {"unfiled"}]
  BY <1>0 DEF DismissConsumed, Approvals
<1>4. TypeOK'
  <2>1. "delete" \in Steps
    BY DEF Steps
  <2>2. actor' \in [Actors -> Doing]
    BY <1>0, <2>1, GotoTyped DEF DismissConsumed
  <2> QED
    BY <1>3, <2>2 DEF DismissConsumed, IntakeInv, TypeOK, bounds
<1>5. ASSUME NEW b \in Actors PROVE Admits(b)'
  <2>1. CASE b = h
    <3>1. /\ actor'[h].pc = "delete" /\ actor'[h].left = actor[h].left
          /\ actor'[h].target = actor[h].target
      BY <1>0 DEF DismissConsumed, Goto, Doing
    <3> QED
      BY <1>0, <1>2, <2>1, <3>1 DEF Admits, IntakeInv, Routing
  <2>2. CASE b # h
    <3>1. actor'[b] = actor[b]
      BY <1>0, <2>2 DEF DismissConsumed, Goto
    <3> QED
      BY <1>2, <3>1, AdmittedGrows
  <2> QED
    BY <2>1, <2>2
<1> QED
  BY <1>2, <1>4, <1>5 DEF IntakeInv

LEMMA WorldSteps ==
  ASSUME IntakeInv,
         (\E i \in Issues : IssueMoves(i)) \/ LockAges \/ Crash
  PROVE  IntakeInv'
<1>1. UNCHANGED <<approval, consumed>> /\ Admitted' = Admitted
  BY DEF IssueMoves, LockAges, Crash, backlog, Admitted
<1>2. UNCHANGED actor \/ actor' = [a \in Actors |-> Idle]
  BY DEF IssueMoves, LockAges, Crash
<1>3. \A a \in Actors : Admits(a)'
  <2>1. CASE UNCHANGED actor
    BY <1>1, <2>1 DEF Admits, IntakeInv
  <2>2. CASE actor' = [a \in Actors |-> Idle]
    BY <2>2 DEF Admits, Idle, Routing
  <2> QED
    BY <1>2, <2>1, <2>2
<1>4. TypeOK'
  BY <1>1, <1>2, IdleTyped, BacklogAssumption
     DEF IntakeInv, TypeOK, IssueMoves, LockAges, Crash, bounds
<1> QED
  BY <1>1, <1>3, <1>4 DEF IntakeInv

LEMMA IntakeInvNext == IntakeInv /\ [Next]_vars => IntakeInv'
<1> SUFFICES ASSUME IntakeInv, [Next]_vars PROVE IntakeInv'
  OBVIOUS
<1>1. CASE UNCHANGED vars
  BY <1>1 DEF vars, backlog, bounds, IntakeInv, TypeOK, Admits, Admitted
<1> QED
  BY <1>1, GateSteps, RouterSteps, StartSteps, DismissSteps, WorldSteps DEF Next

LEMMA IntakeInvAlways == Spec => []IntakeInv
  BY IntakeInvInit, IntakeInvNext, PTL DEF Spec

-----------------------------------------------------------------------------
(* The theorems                                                            *)

\* Every variable keeps its type: in particular a router only ever touches
\* items and issues that exist, and issues have no status outside the set.
THEOREM BacklogTypeCorrect == Spec => []TypeOK
<1>1. IntakeInv => TypeOK
  BY DEF IntakeInv
<1> QED
  BY IntakeInvAlways, <1>1, PTL

\* The doors depend on the statuses alone, issue by issue.
LEMMA DoorsKeep == UNCHANGED status => UNCHANGED Doors
  BY DEF Doors, Joinable

LEMMA DoorsMove ==
  ASSUME status \in [Issues -> Stages \cup {"absent"}],
         NEW i \in Issues, NEW s, status' = [status EXCEPT ![i] = s]
  PROVE  Doors' = [Doors EXCEPT ![i] =
            IF s = "absent" THEN "absent"
            ELSE IF s \in AcceptsQueueMessage THEN "open" ELSE "closed"]
  BY DEF Doors, Joinable

\* Each step of the backlog is a step of Intake or leaves its variables alone.
LEMMA StepsIntake == IntakeInv /\ [Next]_vars
                       => [Intakes!Next]_<<approval, consumed, Doors>>
<1> SUFFICES ASSUME IntakeInv, Next, ~UNCHANGED <<approval, consumed, Doors>>
             PROVE  Intakes!Next
  BY DoorsKeep DEF vars, backlog
<1>0. /\ approval \in [Items -> Approvals \cup {"unfiled"}]
      /\ consumed \in [Items -> Issues \cup {None}]
      /\ status \in [Issues -> Stages \cup {"absent"}]
  BY DEF IntakeInv, TypeOK
<1>1. ASSUME NEW it \in Items, AddBacklog(it) PROVE Intakes!Next
  BY <1>1, DoorsKeep DEF AddBacklog, Intakes!Next, Intakes!File
<1>2. ASSUME NEW S \in SUBSET Items, NEW g \in {"approved", "dismissed"},
             \A it \in S : approval[it] # "unfiled", UNCHANGED <<consumed, Doors>>,
             approval' = [it \in Items |-> IF it \in S THEN g ELSE approval[it]]
      PROVE  Intakes!Next
  BY <1>2 DEF Intakes!Next, Intakes!Judge
<1>3. ASSUME NEW it \in Items, NEW g \in {"approved", "dismissed"},
             approval[it] # "unfiled", UNCHANGED <<consumed, Doors>>,
             approval' = [approval EXCEPT ![it] = g]
      PROVE  Intakes!Next
  <2>1. approval' = [x \in Items |-> IF x \in {it} THEN g ELSE approval[x]]
    BY <1>0, <1>3
  <2> QED
    BY <1>2, <1>3, <2>1
<1>4. ASSUME NEW it \in Items, NEW g \in {"approved", "dismissed"}, SetApproval(it, g)
      PROVE  Intakes!Next
  BY <1>3, <1>4, DoorsKeep DEF SetApproval
<1>5. ASSUME NEW a \in Actors, RouterStep(a) PROVE Intakes!Next
  <2>1. CASE NowApprove(a)
    <3>1. actor[a].item \in Items /\ approval[actor[a].item] # "unfiled"
      BY <2>1 DEF NowApprove, At, IntakeInv, Admits
    <3> QED
      BY <1>3, <2>1, <3>1, DoorsKeep DEF NowApprove
  <2>2. CASE ~NowApprove(a)
    <3>1. UNCHANGED approval
      BY <1>5, <2>2 DEF RouterStep, List, Read, NextItem, Candidates, AgentAnswers,
                        Recheck, Create, Attach, Release, backlog
    <3>2. ~UNCHANGED <<consumed, status>>
      BY <3>1, DoorsKeep
    <3>3. actor[a].item \in Admitted /\ consumed[actor[a].item] = None
      BY <1>5, <3>2, RouterPlaces
    <3>4. PICK i \in Issues :
            /\ consumed' = [consumed EXCEPT ![actor[a].item] = i]
            /\ status[i] = "absent" \/ i \in Joinable
            /\ \E s \in AcceptsQueueMessage : status' = [status EXCEPT ![i] = s]
      BY <1>5, <3>2, RouterPlaces
    <3>5. Doors[i] \in {"absent", "open"}
      BY <3>4 DEF Doors
    <3>6. Doors' = [Doors EXCEPT ![i] = "open"]
      <4>1. "absent" \notin AcceptsQueueMessage
        BY DEF AcceptsQueueMessage
      <4> QED
        BY <1>0, <3>4, <4>1, DoorsMove
    <3>7. Intakes!Place(actor[a].item, i)
      BY <3>1, <3>3, <3>4, <3>5, <3>6 DEF Admitted, Intakes!Place
    <3> QED
      BY <3>3, <3>7 DEF Admitted, Intakes!Next
  <2> QED
    BY <2>1, <2>2
<1>6. ASSUME NEW h \in Handlers, DismissConsumed(h) PROVE Intakes!Next
  <2> DEFINE S == {it \in Items : consumed[it] = actor[h].target}
  <2>1. actor[h].target \in Issues /\ None \notin Issues
    BY <1>6, BacklogAssumption DEF DismissConsumed, At, IntakeInv, Admits, Actors
  <2>2. \A it \in S : approval[it] # "unfiled"
    BY <2>1 DEF IntakeInv, Admitted
  <2>3. approval' = [it \in Items |-> IF it \in S THEN "dismissed" ELSE approval[it]]
    BY <1>6 DEF DismissConsumed
  <2> QED
    BY <1>2, <1>6, <2>2, <2>3, DoorsKeep DEF DismissConsumed
<1>7. ASSUME NEW h \in Handlers, DeleteIssue(h) PROVE Intakes!Next
  <2>1. actor[h].target \in Issues
    BY <1>7 DEF DeleteIssue, At, IntakeInv, Admits, Actors
  <2>2. Doors' = [Doors EXCEPT ![actor[h].target] = "absent"]
    BY <1>0, <1>7, <2>1, DoorsMove DEF DeleteIssue
  <2> QED
    BY <1>7, <2>1, <2>2 DEF DeleteIssue, Intakes!Next, Intakes!Return
<1>8. ASSUME NEW i \in Issues, IssueMoves(i) PROVE Intakes!Next
  <2>1. Doors[i] # "absent"
    BY <1>8 DEF IssueMoves, Live, Doors
  <2>2. PICK s \in Stages : status' = [status EXCEPT ![i] = s]
    BY <1>8 DEF IssueMoves
  <2>3. s # "absent"
    BY BacklogAssumption DEF Status, Actionable, HumanGated, Terminal
  <2>4. \E d \in {"open", "closed"} : Doors' = [Doors EXCEPT ![i] = d]
    BY <1>0, <2>2, <2>3, DoorsMove
  <2> QED
    BY <1>8, <2>1, <2>4 DEF IssueMoves, backlog, Intakes!Next, Intakes!Work
<1>9. ASSUME TickStart \/ (\E h \in Handlers : Operator(h)) \/ LockAges \/ Crash
      PROVE  FALSE
  BY <1>9, DoorsKeep DEF TickStart, Operator, RunNow, Triage, RemoveIssue, LockAges,
              Crash, backlog
<1> QED
  BY <1>1, <1>4, <1>5, <1>6, <1>7, <1>8, <1>9 DEF Next

\* The backlog implements Intake: no pending item becomes work, an item is in
\* one issue at a time, and only the removal of that issue takes it out again,
\* whatever routers, removals and crashes interleave.
THEOREM RoutingImplementsIntake == Spec => IntakePromise
<1>1. Init => Intakes!Init
  BY DEF Init, Intakes!Init, Doors
<1> QED
  BY <1>1, IntakeInvAlways, StepsIntake, PTL
     DEF Spec, IntakePromise, Intakes!Spec, Intakes!vars

\* An item joins an existing issue only while that issue takes messages,
\* however old the agent's answer is.
THEOREM JoinsOnlyOpenIssues == Spec => JoinsOpenIssue
<1> DEFINE Joins == \A it \in Items, i \in Live :
                      consumed[it] = None /\ consumed'[it] = i => i \in Joinable
<1>1. IntakeInv /\ [Next]_vars => [Joins]_vars
  <2> SUFFICES ASSUME IntakeInv, Next, NEW it \in Items, NEW i \in Live,
                      consumed[it] = None, consumed'[it] = i
               PROVE  i \in Joinable
    OBVIOUS
  <2>0. consumed \in [Items -> Issues \cup {None}] /\ i # None
    BY BacklogAssumption DEF IntakeInv, TypeOK, Live
  <2>1. PICK a \in Actors : Create(a) \/ Attach(a)
    BY <2>0 DEF Next, RouterStep, List, Read, NowApprove, NextItem, Candidates,
                AgentAnswers, Recheck, Release, AddBacklog, SetApproval, TickStart,
                Operator, RunNow, Triage, RemoveIssue, DismissConsumed, DeleteIssue,
                IssueMoves, LockAges, Crash, backlog
  <2>2. CASE Create(a)
    <3>1. PICK k \in Issues :
            NewId(k) /\ consumed' = [consumed EXCEPT ![actor[a].item] = k]
      BY <2>0, <2>2 DEF Create
    <3>2. i = k
      BY <2>0, <3>1
    <3> QED
      BY <3>1, <3>2, BacklogAssumption DEF NewId
  <2>3. CASE Attach(a)
    BY <2>0, <2>3 DEF Attach
  <2> QED
    BY <2>1, <2>2, <2>3
<1> QED
  BY IntakeInvAlways, <1>1, PTL DEF Spec, JoinsOpenIssue

\* No step leaves an issue without a source item or an item in a missing issue.
LEMMA SourcesNext ==
  ASSUME IntakeInv, EveryIssueHasSource, [Next]_vars
  PROVE  EveryIssueHasSource'
<1>0. /\ consumed \in [Items -> Issues \cup {None}] /\ None \notin Issues
      /\ status \in [Issues -> Stages \cup {"absent"}]
  BY BacklogAssumption DEF IntakeInv, TypeOK
<1>1. /\ \A it \in Items : consumed[it] # None => status[consumed[it]] # "absent"
      /\ \A i \in Live : \E it \in Items : consumed[it] = i
  BY <1>0 DEF EveryIssueHasSource, Live
<1>2. "absent" \notin Stages
  BY BacklogAssumption DEF Status, Actionable, HumanGated, Terminal
<1>3. ASSUME /\ \A it \in Items : consumed'[it] # None => consumed'[it] \in Live'
             /\ \A i \in Live' : \E it \in Items : consumed'[it] = i
      PROVE  EveryIssueHasSource'
  <2>1. None \notin Live'
    BY <1>0 DEF Live
  <2> QED
    BY <1>3, <2>1 DEF EveryIssueHasSource
<1>4. CASE UNCHANGED <<consumed, status>>
  BY <1>4 DEF EveryIssueHasSource, Live
<1>5. ASSUME NEW i \in Issues, IssueMoves(i) PROVE EveryIssueHasSource'
  <2>1. Live' = Live /\ UNCHANGED consumed
    BY <1>0, <1>2, <1>5 DEF IssueMoves, Live, backlog
  <2> QED
    BY <2>1 DEF EveryIssueHasSource
<1>6. ASSUME NEW h \in Handlers, DeleteIssue(h) PROVE EveryIssueHasSource'
  <2> DEFINE t == actor[h].target
  <2>1. t \in Issues
    BY <1>6 DEF DeleteIssue, At, IntakeInv, Admits, Actors
  <2>2. Live' = Live \ {t}
    BY <1>0, <1>6, <2>1 DEF DeleteIssue, Live
  <2>3. \A it \in Items : consumed'[it] = IF consumed[it] = t THEN None ELSE consumed[it]
    BY <1>6 DEF DeleteIssue
  <2>4. \A it \in Items : consumed'[it] # None => consumed'[it] \in Live'
    BY <1>0, <1>1, <2>2, <2>3 DEF Live
  <2>5. \A i \in Live' : \E it \in Items : consumed'[it] = i
    BY <1>1, <2>2, <2>3
  <2> QED
    BY <1>3, <2>4, <2>5
<1>7. ASSUME NEW it \in Items, consumed[it] = None, NEW i \in Issues,
             consumed' = [consumed EXCEPT ![it] = i], Live' = Live \cup {i}
      PROVE  EveryIssueHasSource'
  <2>1. consumed'[it] = i /\ \A k \in Items \ {it} : consumed'[k] = consumed[k]
    BY <1>0, <1>7
  <2>2. \A k \in Items : consumed'[k] # None => consumed'[k] \in Live'
    BY <1>0, <1>1, <1>7, <2>1 DEF Live
  <2>3. \A j \in Live' : \E k \in Items : consumed'[k] = j
    BY <1>0, <1>1, <1>7, <2>1 DEF Live
  <2> QED
    BY <1>3, <2>2, <2>3
<1>8. ASSUME NEW a \in Actors, Create(a), ~UNCHANGED <<consumed, status>>
      PROVE  EveryIssueHasSource'
  <2>1. actor[a].item \in Items
    BY <1>8 DEF Create, At, Routing, IntakeInv, Admits, Admitted
  <2>2. PICK i \in Issues : /\ status' = [status EXCEPT ![i] = "NEW"]
                            /\ consumed' = [consumed EXCEPT ![actor[a].item] = i]
                            /\ consumed[actor[a].item] = None
    BY <1>8 DEF Create
  <2>3. Live' = Live \cup {i}
    BY <1>0, <2>2 DEF Live
  <2> QED
    BY <1>7, <2>1, <2>2, <2>3
<1>9. ASSUME NEW a \in Actors, Attach(a), ~UNCHANGED <<consumed, status>>
      PROVE  EveryIssueHasSource'
  <2> DEFINE i == actor[a].target
  <2>1. actor[a].item \in Items /\ i \in Issues
    BY <1>9 DEF Attach, At, Routing, IntakeInv, Admits, Admitted
  <2>2. /\ i \in Joinable /\ consumed[actor[a].item] = None
        /\ status' = [status EXCEPT ![i] = Joined(status[i])]
        /\ consumed' = [consumed EXCEPT ![actor[a].item] = i]
    BY <1>9 DEF Attach
  <2>3. i \in Live /\ Joined(status[i]) # "absent"
    BY <2>2 DEF Joinable, Live, Joined, AcceptsQueueMessage
  <2>4. Live' = Live \cup {i}
    BY <1>0, <2>2, <2>3 DEF Live
  <2> QED
    BY <1>7, <2>1, <2>2, <2>4
<1> QED
  BY <1>4, <1>5, <1>6, <1>8, <1>9
     DEF Next, RouterStep, List, Read, NowApprove, NextItem, Candidates, AgentAnswers,
         Recheck, Release, AddBacklog, SetApproval, TickStart, Operator, RunNow,
         Triage, RemoveIssue, DismissConsumed, LockAges, Crash, backlog, vars

\* Every issue came from a backlog item that still names it, and no item names
\* an issue that is gone.
THEOREM IssuesHaveSources == Spec => []EveryIssueHasSource
<1>1. Init => EveryIssueHasSource
  <2> SUFFICES ASSUME Init PROVE EveryIssueHasSource
    OBVIOUS
  <2>1. Live = {}
    BY DEF Init, Live
  <2>2. \A it \in Items : consumed[it] = None
    BY DEF Init
  <2> QED
    BY <2>1, <2>2 DEF EveryIssueHasSource
<1> QED
  BY <1>1, IntakeInvAlways, SourcesNext, PTL DEF Spec
=============================================================================
