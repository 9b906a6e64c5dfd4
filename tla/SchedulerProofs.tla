--------------------------- MODULE SchedulerProofs ---------------------------
(***************************************************************************)
(* Theorems about the two halves of the scheduler, which share no state.   *)
(* ProjectTick, for any number of issues, statuses, settings of the        *)
(* project and operators: the cap on agents holds though ticks work from   *)
(* an old snapshot, local merges are serialised, and a gate gives its      *)
(* human the configured minutes.  Cadence, for every calendar, text and    *)
(* length of the clock: what is stored is normal and has an occurrence in  *)
(* sight, the console counts down to the moment the loop acts, and every   *)
(* automatic run answers an occurrence no earlier one answered.            *)
(***************************************************************************)
EXTENDS ProjectTick, Cadence, FiniteSetTheorems, WellFoundedInduction, TLAPS

-----------------------------------------------------------------------------
(* ProjectTick: the order of the loop                                      *)

\* Numbers are compared by the finite sets below them, whose inclusion the
\* library proves to be well-founded.
LEMMA Least ==
  ASSUME NEW T, T \subseteq Nat, T # {}
  PROVE  \E x \in T : \A y \in T : x <= y
<1> DEFINE below(n) == {k \in Nat : k < n}
           U == {below(n) : n \in T}
           R == StrictSubsetOrdering(Nat)
<1>1. \A n \in Nat : below(n) \in FiniteSubsetsOf(Nat)
  <2> SUFFICES ASSUME NEW n \in Nat PROVE below(n) \in FiniteSubsetsOf(Nat)
    OBVIOUS
  <2>1. below(n) = 0..(n - 1)
    OBVIOUS
  <2>2. IsFiniteSet(0..(n - 1))
    BY FS_Interval
  <2> QED
    BY <2>1, <2>2 DEF FiniteSubsetsOf
<1>2. U \subseteq FiniteSubsetsOf(Nat) /\ U # {}
  BY <1>1
<1>3. IsWellFoundedOn(R, FiniteSubsetsOf(Nat))
  BY FS_StrictSubsetOrderingWellFounded
<1>4. PICK u \in U : \A v \in U : ~(<<v, u>> \in R)
  BY <1>2, <1>3, WFMin
<1>5. PICK x \in T : u = below(x)
  OBVIOUS
<1>6. ASSUME NEW y \in T, y < x
      PROVE  FALSE
  <2>1. below(y) \subseteq below(x) /\ below(y) # below(x)
    <3>1. y \in below(x) /\ y \notin below(y)
      BY <1>6
    <3> QED
      BY <1>6, <3>1
  <2>2. <<below(y), below(x)>> \in R
    BY <2>1 DEF StrictSubsetOrdering
  <2> QED
    BY <1>4, <1>5, <2>2
<1> QED
  BY <1>6

LEMMA BeforeIs ==
  ASSUME NEW i \in Issues, NEW j \in Issues
  PROVE  Before(i, j) <=> \/ IsMerge(i) /\ ~IsMerge(j)
                          \/ IsMerge(i) /\ IsMerge(j) /\ i < j
                          \/ ~IsMerge(i) /\ ~IsMerge(j) /\ i > j
<1>1. IsMerge(i) \in BOOLEAN /\ IsMerge(j) \in BOOLEAN
  BY DEF IsMerge, Local
<1> QED
  BY <1>1 DEF Before, Precedes, Decision

\* At most one waiting merge is a candidate.
LEMMA OneCandidate ==
  ASSUME NEW run, NEW i \in Candidates(run), NEW j \in Candidates(run),
         IsMerge(i), IsMerge(j)
  PROVE  i = j
<1>1. i \in Issues /\ j \in Issues /\ i \in Nat /\ j \in Nat
  BY TickAssumption DEF Candidates
<1>2. ~Before(i, j) /\ ~Before(j, i)
  BY DEF Candidates, HasLane
<1> QED
  BY <1>1, <1>2, BeforeIs

\* The tick spawns no more issues than there are slots: all it spawns but the
\* last come before the last.
LEMMA SpawnedFits ==
  ASSUME NEW run, IsFiniteSet(run), MaxConcurrency \in Nat
  PROVE  /\ IsFiniteSet(Spawned(run))
         /\ Cardinality(Spawned(run)) <= Slots(run)
<1> DEFINE S == Spawned(run)
           C == Candidates(run)
<1>1. S \subseteq C /\ C \subseteq Issues /\ Issues \subseteq Nat
  <2>1. S \subseteq C
    BY Zenon DEF Spawned
  <2>2. C \subseteq Issues
    BY Zenon DEF Candidates
  <2> QED
    BY <2>1, <2>2, TickAssumption
<1>2. IsFiniteSet(Issues) /\ IsFiniteSet(C) /\ IsFiniteSet(S)
  BY <1>1, FS_Subset, TickAssumption
<1>3. Slots(run) \in Nat
  BY FS_CardinalityType DEF Slots
<1>4. CASE S = {}
  BY <1>3, <1>4, FS_EmptySet
<1>5. ASSUME NEW m \in S, \A i \in S \ {m} : Before(i, m)
      PROVE  Cardinality(S) <= Slots(run)
  <2> DEFINE B == {j \in C : Before(j, m)}
  <2>1. IsFiniteSet(B) /\ Cardinality(B) \in Nat /\ Cardinality(B) < Slots(run)
    BY <1>2, FS_Subset, FS_CardinalityType DEF Spawned
  <2>2. S \subseteq B \cup {m}
    BY <1>1, <1>5
  <2> HIDE DEF B, S
  <2>3. /\ IsFiniteSet(B \cup {m})
        /\ Cardinality(B \cup {m}) <= Cardinality(B) + 1
        /\ Cardinality(B \cup {m}) \in Nat
    <3>1. /\ IsFiniteSet(B \cup {m})
          /\ Cardinality(B \cup {m}) = IF m \in B THEN Cardinality(B)
                                       ELSE Cardinality(B) + 1
      BY <2>1, FS_AddElement, Zenon
    <3> QED
      BY <2>1, <3>1
  <2>4. Cardinality(S) <= Cardinality(B \cup {m}) /\ Cardinality(S) \in Nat
    BY <1>2, <2>2, <2>3, FS_Subset, FS_CardinalityType
  <2> QED
    BY <1>3, <2>1, <2>3, <2>4
<1>6. CASE S # {}
  <2> DEFINE T == {i \in S : ~IsMerge(i)}
  <2>1. CASE T = {}
    <3>1. PICK m \in S : TRUE
      BY <1>6
    <3>2. \A i \in S : i = m
      BY <1>1, <2>1, OneCandidate
    <3> QED
      BY <1>2, <1>5, <3>1, <3>2
  <2>2. CASE T # {}
    <3>1. PICK m \in T : \A i \in T : m <= i
      BY <1>1, <2>2, Least
    <3>2. \A i \in S \ {m} : Before(i, m)
      <4> SUFFICES ASSUME NEW i \in S \ {m} PROVE Before(i, m)
        OBVIOUS
      <4>1. i \in Issues /\ m \in Issues /\ i \in Nat /\ m \in Nat /\ ~IsMerge(m)
        BY <1>1
      <4>2. IsMerge(i) \/ i > m
        BY <3>1, <4>1
      <4> QED
        BY <4>1, <4>2, BeforeIs
    <3> QED
      BY <1>2, <1>5, <3>1, <3>2
  <2> QED
    BY <2>1, <2>2
<1> QED
  BY <1>2, <1>4, <1>6

-----------------------------------------------------------------------------
(* ProjectTick: the inductive invariant                                    *)

\* Issues the tick will spawn, and agents it has started or will.
ToSpawn == {d.issue : d \in {e \in todo : e.kind = "spawn"}}
Claimed == (Running \ past.byHand) \cup ToSpawn

\* Nothing is spawned between the snapshot and the decisions, except by hand, and
\* an issue is picked once.
SnapshotGood ==
  /\ tick.pc = "decide" => Running \ past.byHand \subseteq tick.running
  /\ tick.pc # "run" => todo = {}
  /\ \A d, e \in todo : d.kind = "spawn" /\ e.kind = "spawn" /\ d.issue = e.issue => d = e

\* An agent at work is in the status it was started for, and only a human can
\* make an issue that was picked change before it is spawned.
PhasesGood ==
  /\ \A i \in Issues : phase[i] \in Actionable => status[i] = phase[i]
  /\ \A i \in Issues \ past.byHand : /\ phase[i] = "spawned" => status[i] \in Actionable
                                     /\ i \in ToSpawn => /\ phase[i] = "none"
                                                         /\ status[i] \in Actionable

\* The slots that the tick handed out count as taken.
CapGood == Cardinality(Claimed) <= MaxConcurrency

\* So does the lane.
MergeClaim(i) ==
  /\ i \notin past.byHand /\ status[i] = "MERGING"
  /\ phase[i] \in {"spawned", "MERGING"} \/ i \in ToSpawn
LaneGood == Local => \A i, j \in Issues : MergeClaim(i) /\ MergeClaim(j) => i = j

\* What a human has waited and has left add up to the gate.
GatesGood ==
  \A i \in Issues \ past.rearmed :
    wait[i] # NoWait => status[i] \in Gates /\ past.age[i] + wait[i] >= Minutes(i)

TickInv == TypeOK /\ SnapshotGood /\ PhasesGood /\ CapGood /\ LaneGood /\ GatesGood

PastType == [age : [Issues -> 0..MaxAge], byHand : SUBSET Issues,
             rearmed : SUBSET Issues]

LEMMA StatusParts ==
  /\ Actionable \subseteq Status /\ Gates \subseteq Status
  /\ Actionable \cap HumanGated = {} /\ Gates \cap Actionable = {}
  /\ "READY_TO_MERGE" \notin Actionable /\ "MERGING" \in Actionable
  /\ {"WORKING", "MERGING", "PLANNING", "DONE", "FAILED", "NEW"} \subseteq Status
  /\ {"none", "spawned", "over"} \cap Actionable = {}
  /\ \A s \in Status : HasPhase(s) <=> s \in Actionable
BY DEF Status, Actionable, HumanGated, Terminal, Gates, HasPhase

LEMMA ProjectTyped ==
  ASSUME TypeOK
  PROVE  /\ MaxConcurrency \in Nat /\ PlanGateMin \in Nat /\ CompletionMin \in Nat
         /\ MaxAge \in Nat /\ Local \in BOOLEAN
         /\ \A i \in Issues : Minutes(i) \in 0..MaxAge
<1>1. project \in [max_concurrency : Nat, merge_mode : {"local", "pr"},
                   completion_policy : {"manual", "soft", "auto"},
                   plan_gate_min : Nat, completion_min : Nat]
  BY TickAssumption DEF TypeOK
<1>2. /\ MaxConcurrency \in Nat /\ PlanGateMin \in Nat /\ CompletionMin \in Nat
      /\ Local \in BOOLEAN
  BY <1>1 DEF MaxConcurrency, PlanGateMin, CompletionMin, Local
<1> QED
  BY <1>2 DEF MaxAge, Minutes

LEMMA TickInvInit == Init => TickInv
<1> SUFFICES ASSUME Init PROVE TickInv
  OBVIOUS
<1>1. project \in Settings /\ todo = {} /\ Running = {} /\ ToSpawn = {}
  BY DEF Init, Running, ToSpawn
<1>2. TypeOK
  <2>1. MaxAge \in Nat
    <3>1. project \in [max_concurrency : Nat, merge_mode : {"local", "pr"},
                       completion_policy : {"manual", "soft", "auto"},
                       plan_gate_min : Nat, completion_min : Nat]
      BY <1>1, TickAssumption
    <3> QED
      BY <3>1 DEF MaxAge, PlanGateMin, CompletionMin
  <2> QED
    BY <2>1, TickAssumption, StatusParts DEF Init, TypeOK, IdleTick
<1>3. SnapshotGood /\ PhasesGood
  BY <1>1, StatusParts DEF Init, SnapshotGood, PhasesGood, IdleTick
<1>4. CapGood
  <2>1. Claimed = {}
    BY <1>1 DEF Claimed
  <2> QED
    BY <1>2, <2>1, FS_EmptySet, ProjectTyped DEF CapGood
<1>5. LaneGood /\ GatesGood
  BY <1>1 DEF Init, LaneGood, MergeClaim, GatesGood
<1> QED
  BY <1>2, <1>3, <1>4, <1>5 DEF TickInv

\* A step that claims nothing new.
LEMMA Quiet ==
  ASSUME TickInv, UNCHANGED project, TypeOK', SnapshotGood', PhasesGood',
         GatesGood', \A i \in Issues : i \in Claimed' => i \in Claimed,
         \A i \in Issues : MergeClaim(i)' => MergeClaim(i)
  PROVE  TickInv'
<1>1. Claimed \subseteq Issues /\ Claimed' \subseteq Issues
  BY DEF TickInv, TypeOK, Claimed, Running, ToSpawn
<1>2. CapGood'
  <2>1. IsFiniteSet(Claimed) /\ Claimed' \subseteq Claimed
    BY <1>1, FS_Subset, TickAssumption
  <2>2. Cardinality(Claimed') <= Cardinality(Claimed)
        /\ Cardinality(Claimed) \in Nat /\ Cardinality(Claimed') \in Nat
    BY <2>1, FS_Subset, FS_CardinalityType
  <2>3. MaxConcurrency' = MaxConcurrency /\ MaxConcurrency \in Nat
    BY ProjectTyped DEF MaxConcurrency, TickInv
  <2> QED
    BY <2>2, <2>3 DEF TickInv, CapGood
<1>3. LaneGood'
  BY DEF TickInv, LaneGood, Local
<1> QED
  BY <1>2, <1>3 DEF TickInv

\* What a change of status does to the rows and to the history.
LEMMA GoesTo ==
  ASSUME TypeOK, NEW i \in Issues, NEW s \in Status, Goes(i, s)
  PROVE  /\ status' \in [Issues -> Status] /\ past' \in PastType
         /\ \A j \in Issues : status'[j] = IF j = i THEN s ELSE status[j]
         /\ \A j \in Issues : past'.age[j] = IF j = i THEN 0 ELSE past.age[j]
         /\ past'.byHand = past.byHand
         /\ past'.rearmed = IF wait[i] = NoWait THEN past.rearmed
                            ELSE past.rearmed \cup {i}
<1> DEFINE rearmed == IF wait[i] = NoWait THEN past.rearmed ELSE past.rearmed \cup {i}
           age == [past.age EXCEPT ![i] = 0]
<1>1. past \in PastType /\ status \in [Issues -> Status] /\ MaxAge \in Nat
  BY ProjectTyped DEF TypeOK, PastType
<1>2. status' = [status EXCEPT ![i] = s]
  BY DEF Goes
<1>3. past' = [past EXCEPT !.age[i] = 0, !.rearmed =
                 IF wait[i] = NoWait THEN @ ELSE @ \cup {i}]
  BY Zenon DEF Goes
<1>4. rearmed \in SUBSET Issues /\ age \in [Issues -> 0..MaxAge]
      /\ \A j \in Issues : age[j] = IF j = i THEN 0 ELSE past.age[j]
  BY <1>1 DEF PastType
<1>5. past' = [past EXCEPT !.age = age, !.rearmed = rearmed]
  BY <1>1, <1>3 DEF PastType
<1> HIDE DEF rearmed, age
<1>6. past' \in PastType /\ past'.age = age /\ past'.byHand = past.byHand
      /\ past'.rearmed = rearmed
  BY <1>1, <1>4, <1>5 DEF PastType
<1> QED
  BY <1>1, <1>2, <1>4, <1>6 DEF rearmed

Phase == Actionable \cup {"none", "spawned", "over"}
TickType == [pc : {"idle", "decide", "run"}, running : SUBSET Issues,
             due : SUBSET Issues]
Decisions == [kind : {"spawn", "gate"}, issue : Issues, merge : BOOLEAN]

LEMMA TypeNext ==
  ASSUME TypeOK, UNCHANGED project, status' \in [Issues -> Status],
         wait' \in [Issues -> {NoWait} \cup 0..MaxAge],
         phase' \in [Issues -> Phase], tick' \in TickType,
         todo' \subseteq Decisions, past' \in PastType
  PROVE  TypeOK'
<1>1. MaxAge' = MaxAge
  BY DEF MaxAge, PlanGateMin, CompletionMin
<1> QED
  BY <1>1 DEF TypeOK, Phase, TickType, Decisions, PastType

LEMMA Types ==
  ASSUME TypeOK
  PROVE  /\ status \in [Issues -> Status] /\ MaxAge \in Nat
         /\ wait \in [Issues -> {NoWait} \cup 0..MaxAge]
         /\ phase \in [Issues -> Phase] /\ tick \in TickType
         /\ todo \subseteq Decisions /\ past \in PastType
BY ProjectTyped DEF TypeOK, Phase, TickType, Decisions, PastType

\* The full wait of an issue whose status stays as it is stays the same.
LEMMA MinutesKept ==
  ASSUME UNCHANGED project, NEW i, status'[i] = status[i]
  PROVE  Minutes(i)' = Minutes(i)
BY DEF Minutes, PlanGateMin, CompletionMin, Policy

\* An issue that is at rest goes to another status: no agent of a tick is at
\* work on it or about to be.
LEMMA RestMoves ==
  ASSUME TickInv, UNCHANGED <<project, wait, phase, tick>>, NEW i \in Issues,
         NEW s \in Status, Goes(i, s), status[i] \notin Actionable,
         \/ todo' = todo
         \/ tick.pc = "run" /\ todo' \subseteq todo
  PROVE  TickInv'
<1>0. TypeOK /\ PhasesGood /\ GatesGood /\ SnapshotGood
  BY DEF TickInv
<1>1. /\ status' \in [Issues -> Status] /\ past' \in PastType
      /\ \A j \in Issues : status'[j] = IF j = i THEN s ELSE status[j]
      /\ \A j \in Issues : past'.age[j] = IF j = i THEN 0 ELSE past.age[j]
      /\ past'.byHand = past.byHand
      /\ past'.rearmed = IF wait[i] = NoWait THEN past.rearmed
                         ELSE past.rearmed \cup {i}
  BY <1>0, GoesTo
<1>2. TypeOK'
  BY <1>0, <1>1, Types, TypeNext
<1>3. ToSpawn' \subseteq ToSpawn /\ Running' = Running
  BY DEF ToSpawn, Running
<1>4. SnapshotGood'
  BY <1>0, <1>1, <1>3 DEF SnapshotGood
<1>5. /\ phase[i] \notin Actionable
      /\ i \notin past.byHand => phase[i] # "spawned" /\ i \notin ToSpawn
  BY <1>0 DEF PhasesGood
<1>6. PhasesGood'
  BY <1>0, <1>1, <1>3, <1>5 DEF PhasesGood
<1>7. GatesGood'
  <2> SUFFICES ASSUME NEW j \in Issues \ past'.rearmed, wait[j] # NoWait
               PROVE  status'[j] \in Gates /\ past'.age[j] + wait[j] >= Minutes(j)'
    BY DEF GatesGood
  <2>1. j # i /\ j \notin past.rearmed
    BY <1>1
  <2> QED
    BY <1>0, <1>1, <2>1, MinutesKept DEF GatesGood
<1>8. \A j \in Issues : j \in Claimed' => j \in Claimed
  BY <1>1, <1>3 DEF Claimed
<1>9. \A j \in Issues : MergeClaim(j)' => MergeClaim(j)
  BY <1>1, <1>3, <1>5, StatusParts DEF MergeClaim
<1> QED
  BY <1>2, <1>4, <1>6, <1>7, <1>8, <1>9, Quiet

\* The steps of the tick.
LEMMA TickStartGood ==
  ASSUME TickInv, UNCHANGED project, TickStart
  PROVE  TickInv'
<1>0. TypeOK /\ PhasesGood /\ GatesGood /\ SnapshotGood
  BY DEF TickInv
<1>1. /\ UNCHANGED <<status, wait, phase, todo, past>> /\ tick.pc = "idle"
      /\ tick' = [pc |-> "decide", running |-> Running,
                  due |-> {i \in Issues : wait[i] = 0}]
  BY DEF TickStart
<1>2. TypeOK'
  <2>1. tick' \in TickType
    BY <1>1 DEF TickType, Running
  <2> QED
    BY <1>0, <1>1, <2>1, Types, TypeNext
<1>3. ToSpawn' = ToSpawn /\ Running' = Running
  BY <1>1 DEF ToSpawn, Running
<1>4. SnapshotGood'
  BY <1>0, <1>1, <1>3 DEF SnapshotGood
<1>5. PhasesGood' /\ Claimed' = Claimed /\ \A i \in Issues : MergeClaim(i)' = MergeClaim(i)
  BY <1>0, <1>1, <1>3 DEF PhasesGood, Claimed, MergeClaim
<1>6. GatesGood'
  BY <1>0, <1>1, MinutesKept DEF GatesGood
<1> QED
  BY <1>2, <1>4, <1>5, <1>6, Quiet

LEMMA TickEndGood ==
  ASSUME TickInv, UNCHANGED project, TickEnd
  PROVE  TickInv'
<1>0. TypeOK /\ PhasesGood /\ GatesGood /\ SnapshotGood
  BY DEF TickInv
<1>1. /\ UNCHANGED <<status, wait, phase, todo, past>> /\ todo = {}
      /\ tick' = IdleTick
  BY DEF TickEnd
<1>2. tick' \in TickType /\ tick'.pc = "idle"
  BY <1>1 DEF TickType, IdleTick
<1>3. TypeOK'
  BY <1>0, <1>1, <1>2, Types, TypeNext
<1>4. ToSpawn' = ToSpawn /\ Running' = Running
  BY <1>1 DEF ToSpawn, Running
<1>5. SnapshotGood'
  BY <1>1, <1>2 DEF SnapshotGood
<1>6. PhasesGood' /\ Claimed' = Claimed /\ \A i \in Issues : MergeClaim(i)' = MergeClaim(i)
  BY <1>0, <1>1, <1>4 DEF PhasesGood, Claimed, MergeClaim
<1>7. GatesGood'
  BY <1>0, <1>1, MinutesKept DEF GatesGood
<1> QED
  BY <1>3, <1>5, <1>6, <1>7, Quiet

\* The decisions: the slots go out, and the lane to one merge at most.
LEMMA TickDecideGood ==
  ASSUME TickInv, UNCHANGED project, TickDecide
  PROVE  TickInv'
<1> DEFINE run == tick.running
           S == Spawned(run)
<1>0. TypeOK /\ PhasesGood /\ GatesGood /\ SnapshotGood /\ CapGood /\ LaneGood
  BY DEF TickInv
<1>1. /\ UNCHANGED <<status, wait, phase, past>> /\ tick.pc = "decide"
      /\ todo' = Decide(run, tick.due) /\ tick' = [IdleTick EXCEPT !.pc = "run"]
  BY DEF TickDecide
<1>2. tick' \in TickType /\ tick'.pc = "run"
  <2>1. IdleTick \in TickType
    BY DEF IdleTick, TickType
  <2> QED
    BY <1>1, <2>1 DEF TickType
<1>3. run \subseteq Issues /\ S \subseteq Candidates(run) /\ S \subseteq Issues
  BY <1>0 DEF TypeOK, Spawned, Candidates
<1>4. todo' \subseteq Decisions /\ ToSpawn' = S
  <2>1. \A i \in Issues, k \in {"spawn", "gate"} :
          /\ Decision(k, i) \in Decisions /\ Decision(k, i).issue = i
          /\ Decision(k, i).kind = k
    <3>1. \A i : IsMerge(i) \in BOOLEAN
      BY DEF IsMerge, Local
    <3> QED
      BY <3>1 DEF Decision, Decisions
  <2>2. todo' = {Decision("spawn", i) : i \in S}
                \cup {Decision("gate", i) : i \in {j \in Issues : SoftGateDue(j, tick.due)}}
    BY <1>1 DEF Decide
  <2>3. todo' \subseteq Decisions
    BY <1>3, <2>1, <2>2
  <2>4. ToSpawn' = {d.issue : d \in {e \in todo' : e.kind = "spawn"}}
    BY DEF ToSpawn
  <2>5. ASSUME NEW i \in S PROVE i \in ToSpawn'
    BY <1>3, <2>1, <2>2, <2>4
  <2>6. ASSUME NEW d \in todo', d.kind = "spawn" PROVE d.issue \in S
    BY <1>3, <2>1, <2>2, <2>6
  <2> QED
    BY <2>3, <2>4, <2>5, <2>6
<1>5. TypeOK'
  BY <1>0, <1>1, <1>2, <1>4, Types, TypeNext
<1>6. SnapshotGood'
  <2>1. \A i, k : Decision(k, i).issue = i /\ Decision(k, i).kind = k
    BY DEF Decision
  <2>2. \A d \in todo' : d.kind = "spawn" => d = Decision("spawn", d.issue)
    BY <1>1, <2>1 DEF Decide
  <2> QED
    BY <1>2, <2>2 DEF SnapshotGood
<1>7. Running \ past.byHand \subseteq run /\ Running' = Running
  BY <1>0, <1>1 DEF SnapshotGood, Running
<1>8. PhasesGood'
  <2>1. \A i \in S : i \in Issues \ run /\ status[i] \in Actionable
    BY <1>3 DEF Candidates
  <2>2. \A i \in S \ past.byHand : phase[i] = "none"
    BY <1>3, <1>7, <2>1 DEF Running
  <2> QED
    BY <1>0, <1>1, <1>4, <2>1, <2>2 DEF PhasesGood
<1>9. CapGood'
  <2> DEFINE R == Running \ past.byHand
  <2>1. /\ IsFiniteSet(run) /\ IsFiniteSet(R) /\ IsFiniteSet(S)
        /\ Cardinality(R) <= Cardinality(run) /\ Cardinality(R) \in Nat
        /\ Cardinality(run) \in Nat /\ Cardinality(S) \in Nat
    BY <1>3, <1>7, FS_Subset, FS_CardinalityType, TickAssumption
  <2>2. MaxConcurrency \in Nat /\ MaxConcurrency' = MaxConcurrency
    BY <1>0, ProjectTyped DEF MaxConcurrency
  <2>3. Cardinality(S) <= Slots(run)
    BY <2>1, <2>2, SpawnedFits
  <2>4. Claimed' = R \cup S
    BY <1>1, <1>4, <1>7 DEF Claimed
  <2>5. CASE Cardinality(run) > MaxConcurrency
    <3>1. Cardinality(S) = 0
      BY <2>1, <2>3, <2>5 DEF Slots
    <3>2. S = {}
      BY <2>1, <3>1, FS_EmptySet
    <3>3. Claimed' \subseteq Claimed /\ IsFiniteSet(Claimed)
      <4>1. Claimed \subseteq Issues
        BY <1>0 DEF TypeOK, Claimed, Running, ToSpawn
      <4> QED
        BY <2>4, <3>2, <4>1, FS_Subset, TickAssumption DEF Claimed
    <3>4. /\ Cardinality(Claimed') <= Cardinality(Claimed)
          /\ Cardinality(Claimed) \in Nat /\ Cardinality(Claimed') \in Nat
      BY <3>3, FS_Subset, FS_CardinalityType
    <3> QED
      BY <1>0, <2>2, <3>4 DEF CapGood
  <2>6. CASE Cardinality(run) <= MaxConcurrency
    <3> HIDE DEF R, S
    <3>1. /\ Cardinality(R \cup S) = Cardinality(R) + Cardinality(S)
                                     - Cardinality(R \cap S)
          /\ IsFiniteSet(R \cap S)
      BY <2>1, FS_Union, FS_Subset
    <3>2. Cardinality(R \cap S) \in Nat
      BY <3>1, FS_CardinalityType
    <3>3. Cardinality(S) <= MaxConcurrency - Cardinality(run)
      BY <2>1, <2>2, <2>3, <2>6 DEF Slots
    <3> QED
      BY <2>1, <2>2, <2>4, <3>1, <3>2, <3>3 DEF CapGood
  <2> QED
    BY <2>1, <2>2, <2>5, <2>6
<1>10. LaneGood'
  <2> SUFFICES ASSUME Local, NEW i \in Issues, NEW j \in Issues,
                      MergeClaim(i)', MergeClaim(j)'
               PROVE  i = j
    BY DEF LaneGood, Local
  <2>1. ASSUME NEW k \in Issues, MergeClaim(k)'
        PROVE  /\ k \notin past.byHand /\ IsMerge(k)
               /\ \/ MergeClaim(k) /\ k \in run
                  \/ k \in S /\ HasLane(k, run)
    <3>1. /\ k \notin past.byHand /\ status[k] = "MERGING" /\ IsMerge(k)
          /\ phase[k] \in {"spawned", "MERGING"} \/ k \in S
      BY <1>1, <1>4, <2>1 DEF MergeClaim, IsMerge
    <3>2. CASE phase[k] \in {"spawned", "MERGING"}
      BY <1>7, <3>1, <3>2 DEF MergeClaim, Running
    <3>3. CASE k \in S
      BY <1>3, <3>1, <3>3 DEF Candidates
    <3> QED
      BY <3>1, <3>2, <3>3
  <2>2. CASE MergeClaim(i) /\ MergeClaim(j)
    BY <1>0, <2>2 DEF LaneGood
  <2>3. CASE i \in S /\ j \in S
    BY <1>3, <2>1, <2>3, OneCandidate
  <2>4. \A k \in Issues : k \in run /\ IsMerge(k) =>
          ~HasLane(i, run) /\ ~HasLane(j, run)
    BY DEF HasLane
  <2> QED
    BY <2>1, <2>2, <2>3, <2>4
<1>11. GatesGood'
  BY <1>0, <1>1, MinutesKept DEF GatesGood
<1> QED
  BY <1>5, <1>6, <1>8, <1>9, <1>10, <1>11 DEF TickInv

LEMMA TickSpawnGood ==
  ASSUME TickInv, UNCHANGED project, TickSpawn
  PROVE  TickInv'
<1>0. TypeOK /\ PhasesGood /\ GatesGood /\ SnapshotGood
  BY DEF TickInv
<1>1. PICK d \in todo : Takes(d, "spawn") /\ Spawn(d.issue)
  BY DEF TickSpawn
<1> DEFINE i == d.issue
<1>2. /\ UNCHANGED <<status, wait, tick, past>> /\ tick.pc = "run"
      /\ d.kind = "spawn" /\ todo' = todo \ {d} /\ i \in Issues
      /\ phase' = IF phase[i] = "none" THEN [phase EXCEPT ![i] = "spawned"] ELSE phase
  BY <1>0, <1>1, Types DEF TickSpawn, Takes, Spawn, Decisions
<1>3. phase' \in [Issues -> Phase]
      /\ \A j \in Issues : phase'[j] = IF j = i /\ phase[i] = "none" THEN "spawned"
                                       ELSE phase[j]
  BY <1>0, <1>2, Types DEF Phase
<1>4. TypeOK'
  BY <1>0, <1>2, <1>3, Types, TypeNext
<1>5. i \in ToSpawn /\ ToSpawn' \subseteq ToSpawn
  BY <1>2 DEF ToSpawn
<1>6. i \notin past.byHand => i \notin ToSpawn' \/ phase[i] = "none"
  BY <1>0, <1>2, <1>5 DEF PhasesGood
<1>7. SnapshotGood'
  BY <1>0, <1>2 DEF SnapshotGood
<1>8. GatesGood'
  BY <1>0, <1>2, MinutesKept DEF GatesGood
<1>9. \A j \in Issues : j \in Claimed' => j \in Claimed
  <2> SUFFICES ASSUME NEW j \in Issues, j \in Claimed', j # i
               PROVE  j \in Claimed
    BY <1>5 DEF Claimed
  <2>1. phase'[j] = phase[j]
    BY <1>3
  <2> QED
    BY <1>2, <1>5, <2>1 DEF Claimed, Running
<1>10. \A j \in Issues : MergeClaim(j)' => MergeClaim(j)
  <2> SUFFICES ASSUME NEW j \in Issues, MergeClaim(j)'
               PROVE  MergeClaim(j)
    OBVIOUS
  <2>1. CASE j = i
    BY <1>2, <1>5, <2>1 DEF MergeClaim
  <2>2. CASE j # i
    BY <1>2, <1>3, <1>5, <2>2 DEF MergeClaim
  <2> QED
    BY <2>1, <2>2
<1>11. PhasesGood'
  <2>1. \A j \in Issues : phase'[j] \in Actionable => status'[j] = phase'[j]
    BY <1>0, <1>2, <1>3, StatusParts DEF PhasesGood
  <2>2. ASSUME NEW j \in Issues \ past.byHand
        PROVE  /\ phase'[j] = "spawned" => status[j] \in Actionable
               /\ j \in ToSpawn' => phase'[j] = "none" /\ status[j] \in Actionable
    <3>1. CASE j # i
      BY <1>0, <1>3, <1>5, <2>2, <3>1 DEF PhasesGood
    <3>2. CASE j = i
      <4>1. status[i] \in Actionable /\ phase[i] = "none"
        BY <1>0, <1>5, <2>2, <3>2 DEF PhasesGood
      <4>2. i \notin ToSpawn'
        <5> SUFFICES ASSUME NEW e \in todo, e # d, e.kind = "spawn", e.issue = i
                     PROVE  FALSE
          BY <1>2 DEF ToSpawn
        <5> QED
          BY <1>0, <1>2 DEF SnapshotGood
      <4> QED
        BY <3>2, <4>1, <4>2
    <3> QED
      BY <3>1, <3>2
  <2> QED
    BY <1>2, <2>1, <2>2 DEF PhasesGood
<1> QED
  BY <1>4, <1>7, <1>8, <1>9, <1>10, <1>11, Quiet

\* A gate that a tick services is released, armed, or left as it is.
LEMMA TickGateGood ==
  ASSUME TickInv, UNCHANGED project, TickGate
  PROVE  TickInv'
<1>0. TypeOK /\ PhasesGood /\ GatesGood /\ SnapshotGood
  BY DEF TickInv
<1>1. PICK d \in todo :
        /\ Takes(d, "gate")
        /\ \/ /\ GateReleases(d.issue) /\ Goes(d.issue, Target(d.issue))
              /\ UNCHANGED wait
           \/ /\ GateArms(d.issue)
              /\ wait' = [wait EXCEPT ![d.issue] = Minutes(d.issue)]
              /\ UNCHANGED <<status, past>>
           \/ UNCHANGED <<status, wait, past>>
  BY DEF TickGate
<1> DEFINE i == d.issue
<1>2. /\ UNCHANGED <<phase, tick>> /\ tick.pc = "run" /\ i \in Issues
      /\ todo' \subseteq todo
  BY <1>0, <1>1, Types DEF TickGate, Takes, Decisions
<1>3. ToSpawn' \subseteq ToSpawn /\ Running' = Running
  BY <1>2 DEF ToSpawn, Running
<1>4. ASSUME UNCHANGED <<status, past>>, GatesGood',
             wait' \in [Issues -> {NoWait} \cup 0..MaxAge]
      PROVE  TickInv'
  <2>1. TypeOK'
    BY <1>0, <1>2, <1>4, Types, TypeNext
  <2>2. SnapshotGood' /\ PhasesGood'
    BY <1>0, <1>2, <1>3, <1>4 DEF SnapshotGood, PhasesGood
  <2>3. /\ \A j \in Issues : j \in Claimed' => j \in Claimed
        /\ \A j \in Issues : MergeClaim(j)' => MergeClaim(j)
    BY <1>2, <1>3, <1>4 DEF Claimed, MergeClaim
  <2> QED
    BY <1>4, <2>1, <2>2, <2>3, Quiet
<1>5. CASE GateReleases(i) /\ Goes(i, Target(i)) /\ UNCHANGED wait
  <2>1. status[i] \in Gates /\ Target(i) \in Status
    BY <1>5, StatusParts DEF GateReleases, Serviceable, Gates, Target
  <2> QED
    BY <1>2, <1>5, <2>1, RestMoves, StatusParts
<1>6. CASE /\ GateArms(i) /\ wait' = [wait EXCEPT ![i] = Minutes(i)]
           /\ UNCHANGED <<status, past>>
  <2>1. /\ status[i] \in Gates /\ Minutes(i) \in 0..MaxAge /\ MaxAge \in Nat
        /\ past.age[i] \in 0..MaxAge
    BY <1>0, <1>2, <1>6, ProjectTyped DEF GateArms, Serviceable, Gates, TypeOK
  <2>2. /\ wait' \in [Issues -> {NoWait} \cup 0..MaxAge]
        /\ \A j \in Issues : wait'[j] = IF j = i THEN Minutes(i) ELSE wait[j]
    BY <1>0, <1>2, <1>6, <2>1, Types
  <2>3. GatesGood'
    <3> SUFFICES ASSUME NEW j \in Issues \ past.rearmed, wait'[j] # NoWait
                 PROVE  /\ status[j] \in Gates
                        /\ past.age[j] + wait'[j] >= Minutes(j)
      BY <1>6, MinutesKept DEF GatesGood
    <3>1. CASE j = i
      BY <2>1, <2>2, <3>1
    <3>2. CASE j # i
      BY <1>0, <2>2, <3>2 DEF GatesGood
    <3> QED
      BY <3>1, <3>2
  <2> QED
    BY <1>4, <1>6, <2>2, <2>3
<1>7. CASE UNCHANGED <<status, wait, past>>
  <2>1. GatesGood'
    BY <1>0, <1>7, MinutesKept DEF GatesGood
  <2> QED
    BY <1>0, <1>4, <1>7, <2>1, Types
<1> QED
  BY <1>1, <1>5, <1>6, <1>7

-----------------------------------------------------------------------------
(* ProjectTick: phases and operators                                       *)

LEMMA PhaseBeginsGood ==
  ASSUME TickInv, UNCHANGED project, NEW i \in Issues, PhaseBegins(i)
  PROVE  TickInv'
<1>0. TypeOK /\ PhasesGood /\ GatesGood /\ SnapshotGood
  BY DEF TickInv
<1>1. /\ phase[i] = "spawned" /\ UNCHANGED <<wait, tick, todo>>
      /\ status[i] = "NEW" => Goes(i, "PLANNING") /\ phase' = [phase EXCEPT ![i] = "PLANNING"]
      /\ status[i] # "NEW" =>
           /\ phase' = [phase EXCEPT ![i] = IF HasPhase(status[i]) THEN status[i]
                                            ELSE "over"]
           /\ UNCHANGED <<status, past>>
  BY DEF PhaseBegins
<1>2. ToSpawn' = ToSpawn /\ status \in [Issues -> Status] /\ status[i] \in Status
  BY <1>0, <1>1, Types DEF ToSpawn
<1>3. i \notin past.byHand => i \notin ToSpawn
  BY <1>0, <1>1 DEF PhasesGood
<1>4. CASE status[i] = "NEW"
  <2>1. /\ status' \in [Issues -> Status] /\ past' \in PastType
        /\ \A j \in Issues : status'[j] = IF j = i THEN "PLANNING" ELSE status[j]
        /\ \A j \in Issues : past'.age[j] = IF j = i THEN 0 ELSE past.age[j]
        /\ past'.byHand = past.byHand
        /\ past'.rearmed = IF wait[i] = NoWait THEN past.rearmed
                           ELSE past.rearmed \cup {i}
    BY <1>0, <1>1, <1>4, StatusParts, GoesTo
  <2>2. "PLANNING" \in Actionable
    BY DEF Actionable
  <2>3. /\ phase' \in [Issues -> Phase]
        /\ \A j \in Issues : phase'[j] = IF j = i THEN "PLANNING" ELSE phase[j]
    BY <1>0, <1>1, <1>4, <2>2, Types DEF Phase
  <2>4. TypeOK'
    BY <1>0, <1>1, <2>1, <2>3, Types, TypeNext
  <2>5. Running' = Running
    BY <1>1, <2>3 DEF Running
  <2>6. SnapshotGood'
    BY <1>0, <1>1, <2>1, <2>5 DEF SnapshotGood
  <2>7. PhasesGood'
    BY <1>0, <1>2, <1>3, <2>1, <2>2, <2>3, StatusParts DEF PhasesGood
  <2>8. GatesGood'
    <3> SUFFICES ASSUME NEW j \in Issues \ past'.rearmed, wait[j] # NoWait
                 PROVE  status'[j] \in Gates /\ past'.age[j] + wait[j] >= Minutes(j)'
      BY <1>1 DEF GatesGood
    <3>1. j # i /\ j \notin past.rearmed
      BY <2>1
    <3> QED
      BY <1>0, <2>1, <3>1, MinutesKept DEF GatesGood
  <2>9. /\ \A j \in Issues : j \in Claimed' => j \in Claimed
        /\ \A j \in Issues : MergeClaim(j)' => MergeClaim(j)
    BY <1>2, <2>1, <2>3, <2>5 DEF Claimed, MergeClaim
  <2> QED
    BY <2>4, <2>6, <2>7, <2>8, <2>9, Quiet
<1>5. CASE status[i] # "NEW"
  <2> DEFINE p == IF HasPhase(status[i]) THEN status[i] ELSE "over"
  <2>1. p \in Phase /\ p # "none" /\ p # "spawned" /\ (p \in Actionable => p = status[i])
    BY <1>2, StatusParts DEF Phase
  <2>2. UNCHANGED <<status, past>> /\ phase' = [phase EXCEPT ![i] = p]
    BY <1>1, <1>5
  <2> HIDE DEF p
  <2>3. /\ phase' \in [Issues -> Phase]
        /\ \A j \in Issues : phase'[j] = IF j = i THEN p ELSE phase[j]
    BY <1>0, <2>1, <2>2, Types
  <2>4. TypeOK'
    BY <1>0, <1>1, <2>2, <2>3, Types, TypeNext
  <2>5. Running' = Running
    BY <1>1, <2>1, <2>3 DEF Running
  <2>6. SnapshotGood'
    BY <1>0, <1>1, <2>2, <2>5 DEF SnapshotGood
  <2>7. PhasesGood'
    BY <1>0, <1>2, <1>3, <2>1, <2>2, <2>3 DEF PhasesGood
  <2>8. GatesGood'
    BY <1>0, <1>1, <2>2, MinutesKept DEF GatesGood
  <2>9. /\ \A j \in Issues : j \in Claimed' => j \in Claimed
        /\ \A j \in Issues : MergeClaim(j)' => MergeClaim(j)
    BY <1>1, <1>2, <2>2, <2>3, <2>5 DEF Claimed, MergeClaim
  <2> QED
    BY <2>4, <2>6, <2>7, <2>8, <2>9, Quiet
<1> QED
  BY <1>4, <1>5

LEMMA PhaseDeclaresGood ==
  ASSUME TickInv, UNCHANGED project, NEW i \in Issues, PhaseDeclares(i)
  PROVE  TickInv'
<1>0. TypeOK /\ PhasesGood /\ GatesGood /\ SnapshotGood
  BY DEF TickInv
<1>1. PICK s \in Declared \cup {"FAILED"} : Goes(i, s)
  BY DEF PhaseDeclares
<1>2. /\ phase[i] \in Actionable /\ phase' = [phase EXCEPT ![i] = "over"]
      /\ UNCHANGED <<wait, tick, todo>>
  BY DEF PhaseDeclares
<1>3. s \in Status
  BY StatusParts, TickAssumption
<1>4. /\ status' \in [Issues -> Status] /\ past' \in PastType
      /\ \A j \in Issues : status'[j] = IF j = i THEN s ELSE status[j]
      /\ \A j \in Issues : past'.age[j] = IF j = i THEN 0 ELSE past.age[j]
      /\ past'.byHand = past.byHand
      /\ past'.rearmed = IF wait[i] = NoWait THEN past.rearmed
                         ELSE past.rearmed \cup {i}
  BY <1>0, <1>1, <1>3, GoesTo
<1>5. /\ phase' \in [Issues -> Phase]
      /\ \A j \in Issues : phase'[j] = IF j = i THEN "over" ELSE phase[j]
  BY <1>0, <1>2, Types DEF Phase
<1>6. TypeOK'
  BY <1>0, <1>2, <1>4, <1>5, Types, TypeNext
<1>7. ToSpawn' = ToSpawn /\ Running' = Running
  BY <1>2, <1>5, StatusParts DEF ToSpawn, Running
<1>8. i \notin past.byHand => i \notin ToSpawn
  BY <1>0, <1>2, StatusParts DEF PhasesGood
<1>9. SnapshotGood'
  BY <1>0, <1>2, <1>4, <1>7 DEF SnapshotGood
<1>10. PhasesGood'
  BY <1>0, <1>4, <1>5, <1>7, <1>8, StatusParts DEF PhasesGood
<1>11. GatesGood'
  <2> SUFFICES ASSUME NEW j \in Issues \ past'.rearmed, wait[j] # NoWait
               PROVE  status'[j] \in Gates /\ past'.age[j] + wait[j] >= Minutes(j)'
    BY <1>2 DEF GatesGood
  <2>1. j # i /\ j \notin past.rearmed
    BY <1>4
  <2> QED
    BY <1>0, <1>4, <2>1, MinutesKept DEF GatesGood
<1>12. \A j \in Issues : j \in Claimed' => j \in Claimed
  BY <1>4, <1>7 DEF Claimed
<1>13. \A j \in Issues : MergeClaim(j)' => MergeClaim(j)
  BY <1>4, <1>5, <1>7, <1>8 DEF MergeClaim
<1> QED
  BY <1>6, <1>9, <1>10, <1>11, <1>12, <1>13, Quiet

LEMMA PhaseExitsGood ==
  ASSUME TickInv, UNCHANGED project, NEW i \in Issues, PhaseExits(i)
  PROVE  TickInv'
<1>0. TypeOK /\ PhasesGood /\ GatesGood /\ SnapshotGood
  BY DEF TickInv
<1>1. /\ phase[i] = "over" /\ phase' = [phase EXCEPT ![i] = "none"]
      /\ UNCHANGED <<status, wait, tick, todo, past>>
  BY DEF PhaseExits
<1>2. /\ phase' \in [Issues -> Phase]
      /\ \A j \in Issues : phase'[j] = IF j = i THEN "none" ELSE phase[j]
  BY <1>0, <1>1, Types DEF Phase
<1>3. TypeOK'
  BY <1>0, <1>1, <1>2, Types, TypeNext
<1>4. ToSpawn' = ToSpawn /\ Running' \subseteq Running
  BY <1>1, <1>2 DEF ToSpawn, Running
<1>5. SnapshotGood'
  BY <1>0, <1>1, <1>4 DEF SnapshotGood
<1>6. PhasesGood'
  BY <1>0, <1>1, <1>2, <1>4, StatusParts DEF PhasesGood
<1>7. GatesGood'
  BY <1>0, <1>1, MinutesKept DEF GatesGood
<1>8. /\ \A j \in Issues : j \in Claimed' => j \in Claimed
      /\ \A j \in Issues : MergeClaim(j)' => MergeClaim(j)
  BY <1>1, <1>2, <1>4 DEF Claimed, MergeClaim
<1> QED
  BY <1>3, <1>5, <1>6, <1>7, <1>8, Quiet

\* What a human starts counts neither against the cap nor against the lane.
LEMMA RunNowGood ==
  ASSUME TickInv, UNCHANGED project, NEW i \in Issues, RunNow(i)
  PROVE  TickInv'
<1>0. TypeOK /\ PhasesGood /\ GatesGood /\ SnapshotGood
  BY DEF TickInv
<1>1. /\ phase[i] = "none" /\ phase' = [phase EXCEPT ![i] = "spawned"]
      /\ past' = [past EXCEPT !.byHand = @ \cup {i}]
      /\ UNCHANGED <<status, wait, tick, todo>>
  BY DEF RunNow, Spawn
<1>2. /\ phase' \in [Issues -> Phase]
      /\ \A j \in Issues : phase'[j] = IF j = i THEN "spawned" ELSE phase[j]
  BY <1>0, <1>1, Types DEF Phase
<1>3. /\ past' \in PastType /\ past'.age = past.age /\ past'.rearmed = past.rearmed
      /\ past'.byHand = past.byHand \cup {i}
  BY <1>0, <1>1, Types DEF PastType
<1>4. TypeOK'
  BY <1>0, <1>1, <1>2, <1>3, Types, TypeNext
<1>5. /\ ToSpawn' = ToSpawn
      /\ Running' \ past'.byHand \subseteq Running \ past.byHand
  BY <1>1, <1>2, <1>3 DEF ToSpawn, Running
<1>6. SnapshotGood'
  BY <1>0, <1>1, <1>5 DEF SnapshotGood
<1>7. PhasesGood'
  BY <1>0, <1>1, <1>2, <1>3, <1>5, StatusParts DEF PhasesGood
<1>8. GatesGood'
  BY <1>0, <1>1, <1>3, MinutesKept DEF GatesGood
<1>9. \A j \in Issues : j \in Claimed' => j \in Claimed
  BY <1>5 DEF Claimed
<1>10. \A j \in Issues : MergeClaim(j)' => MergeClaim(j)
  BY <1>1, <1>2, <1>3, <1>5 DEF MergeClaim
<1> QED
  BY <1>4, <1>6, <1>7, <1>8, <1>9, <1>10, Quiet

\* The other commands, and the pull request found merged, move an issue at rest.
LEMMA OperatorGood ==
  ASSUME TickInv, UNCHANGED project, NEW i \in Issues, Operator(i) \/ TickObserve(i)
  PROVE  TickInv'
<1>1. "READY_TO_MERGE" \notin Actionable /\ {"MERGING", "DONE"} \subseteq Status
  BY StatusParts
<1>2. ASSUME ApproveMerge(i) \/ ExecuteMerge(i) PROVE TickInv'
  BY <1>1, <1>2, RestMoves DEF ApproveMerge, ExecuteMerge
<1>3. ASSUME TickObserve(i) PROVE TickInv'
  BY <1>1, <1>3, RestMoves DEF TickObserve
<1>4. ASSUME AnswerGate(i) PROVE TickInv'
  <2>1. PICK s \in Actionable : Goes(i, s)
    BY <1>4 DEF AnswerGate
  <2>2. s \in Status /\ status[i] \notin Actionable
    BY <1>4, StatusParts DEF AnswerGate
  <2>3. UNCHANGED <<wait, phase, tick, todo>>
    BY <1>4 DEF AnswerGate
  <2> QED
    BY <2>1, <2>2, <2>3, RestMoves
<1> QED
  BY <1>2, <1>3, <1>4, RunNowGood DEF Operator

\* A minute less to wait is a minute more waited, for an issue at its gate.
LEMMA MinuteGood ==
  ASSUME TickInv, Minute
  PROVE  TickInv'
<1>0. TypeOK /\ PhasesGood /\ GatesGood /\ SnapshotGood
  BY DEF TickInv
<1>1. /\ UNCHANGED <<project, status, phase, tick, todo>>
      /\ wait' = [i \in Issues |-> IF wait[i] \in {NoWait, 0} THEN wait[i]
                                   ELSE wait[i] - 1]
  BY DEF Minute
<1> DEFINE age == [i \in Issues |-> IF status[i] \in Gates /\ past.age[i] < MaxAge
                                    THEN past.age[i] + 1 ELSE past.age[i]]
<1>2. past' = [past EXCEPT !.age = age]
  BY DEF Minute
<1>3. /\ MaxAge \in Nat /\ past.age \in [Issues -> 0..MaxAge]
      /\ wait \in [Issues -> {NoWait} \cup 0..MaxAge]
      /\ NoWait \notin Nat
  BY <1>0, Types, TickAssumption DEF PastType
<1>4. age \in [Issues -> 0..MaxAge]
  BY <1>3
<1>5. /\ past' \in PastType /\ past'.age = age /\ past'.byHand = past.byHand
      /\ past'.rearmed = past.rearmed
  <2> HIDE DEF age
  <2> QED
    BY <1>0, <1>2, <1>4, Types DEF PastType
<1>6. wait' \in [Issues -> {NoWait} \cup 0..MaxAge]
  BY <1>1, <1>3
<1>7. TypeOK'
  BY <1>0, <1>1, <1>5, <1>6, Types, TypeNext
<1>8. GatesGood'
  <2> SUFFICES ASSUME NEW i \in Issues \ past.rearmed, wait'[i] # NoWait
               PROVE  status[i] \in Gates /\ age[i] + wait'[i] >= Minutes(i)
    BY <1>1, <1>5, MinutesKept DEF GatesGood
  <2>1. /\ wait[i] # NoWait /\ wait[i] \in 0..MaxAge
        /\ wait'[i] = IF wait[i] = 0 THEN 0 ELSE wait[i] - 1
    BY <1>1, <1>3
  <2>2. status[i] \in Gates /\ past.age[i] + wait[i] >= Minutes(i)
    BY <1>0, <2>1 DEF GatesGood
  <2>3. Minutes(i) \in 0..MaxAge /\ past.age[i] \in 0..MaxAge
    BY <1>0, <1>3, ProjectTyped
  <2> QED
    BY <1>3, <2>1, <2>2, <2>3
<1>9. /\ ToSpawn' = ToSpawn /\ Running' = Running
      /\ SnapshotGood' /\ PhasesGood'
  BY <1>0, <1>1, <1>5 DEF ToSpawn, Running, SnapshotGood, PhasesGood
<1>10. /\ \A j \in Issues : j \in Claimed' => j \in Claimed
       /\ \A j \in Issues : MergeClaim(j)' => MergeClaim(j)
  BY <1>1, <1>5, <1>9 DEF Claimed, MergeClaim
<1> QED
  BY <1>1, <1>7, <1>8, <1>9, <1>10, Quiet

LEMMA TickInvNext == TickInv /\ [Next]_vars => TickInv'
<1> SUFFICES ASSUME TickInv, [Next]_vars PROVE TickInv'
  OBVIOUS
<1>1. CASE TickStep
  BY <1>1, TickStartGood, TickDecideGood, TickSpawnGood, TickGateGood, TickEndGood
     DEF TickStep
<1>2. CASE \E i \in Issues : PhaseStep(i)
  BY <1>2, PhaseBeginsGood, PhaseDeclaresGood, PhaseExitsGood DEF PhaseStep
<1>3. CASE \E i \in Issues : (Operator(i) \/ TickObserve(i)) /\ UNCHANGED project
  BY <1>3, OperatorGood
<1>4. CASE Minute
  BY <1>4, MinuteGood
<1>5. CASE UNCHANGED vars
  BY <1>5 DEF vars, TickInv, TypeOK, SnapshotGood, PhasesGood, CapGood, LaneGood,
     GatesGood, MergeClaim, Claimed, ToSpawn, Running, MaxAge, MaxConcurrency,
     PlanGateMin, CompletionMin, Minutes, Local, Policy
<1> QED
  BY <1>1, <1>2, <1>3, <1>4, <1>5 DEF Next

LEMMA TickInvAlways == Spec => []TickInv
BY TickInvInit, TickInvNext, PTL DEF Spec

-----------------------------------------------------------------------------
(* ProjectTick: the theorems                                               *)

\* What the tick, the phases and the operators keep of one project's issues has
\* its type in every reachable state.
THEOREM TickTypeCorrect == Spec => []TypeOK
<1>1. TickInv => TypeOK
  BY DEF TickInv
<1> QED
  BY <1>1, TickInvAlways, PTL

\* At most max_concurrency of the issues the ticks started are in the running
\* set (decide, scheduler.rs): slots handed out are spawned later, and count
\* until the next snapshot.
THEOREM CapIsRespected == Spec => []CapRespected
<1>1. ASSUME TickInv PROVE CapRespected
  <2> DEFINE R == Running \ past.byHand
  <2>1. TypeOK /\ CapGood
    BY <1>1 DEF TickInv
  <2>2. Claimed \subseteq Issues /\ R \subseteq Claimed
    BY <2>1 DEF TypeOK, Claimed, Running, ToSpawn
  <2>3. /\ Cardinality(R) <= Cardinality(Claimed)
        /\ Cardinality(R) \in Nat /\ Cardinality(Claimed) \in Nat
    BY <2>2, FS_Subset, FS_CardinalityType, TickAssumption
  <2> QED
    BY <2>1, <2>3, ProjectTyped DEF CapGood, CapRespected
<1> QED
  BY <1>1, TickInvAlways, PTL

\* Two local merges that ticks started are never at work together (the lane of
\* decide, scheduler.rs).
THEOREM MergesAreSerial == Spec => []OneMergeAtATime
<1>1. ASSUME TickInv PROVE OneMergeAtATime
  <2> SUFFICES ASSUME Local, NEW i \in Issues \ past.byHand,
                      NEW j \in Issues \ past.byHand,
                      phase[i] = "MERGING", phase[j] = "MERGING"
               PROVE  i = j
    BY DEF OneMergeAtATime
  <2>1. MergeClaim(i) /\ MergeClaim(j)
    BY <1>1, StatusParts DEF TickInv, PhasesGood, MergeClaim
  <2> QED
    BY <1>1, <2>1 DEF TickInv, LaneGood
<1> QED
  BY <1>1, TickInvAlways, PTL

\* A tick opens a gate only when the issue has been there for the configured
\* minutes (service_soft_gate, engine.rs), whatever the tick was doing when the
\* deadline passed.
THEOREM GatesGiveFullTime == Spec => FullGate
<1> DEFINE A == \A i \in Issues \ past.rearmed :
                  TickGate /\ status'[i] # status[i] => past.age[i] >= Minutes(i)
<1>1. TickInv /\ [Next]_vars => [A]_vars
  <2> SUFFICES ASSUME TickInv, NEW i \in Issues \ past.rearmed, TickGate,
                      status'[i] # status[i]
               PROVE  past.age[i] >= Minutes(i)
    OBVIOUS
  <2>0. TypeOK /\ GatesGood
    BY DEF TickInv
  <2>1. PICK d \in todo :
          \/ GateReleases(d.issue) /\ Goes(d.issue, Target(d.issue))
          \/ UNCHANGED status
    BY DEF TickGate
  <2>2. GateReleases(d.issue) /\ Goes(d.issue, Target(d.issue)) /\ d.issue = i
    <3>1. GateReleases(d.issue) /\ Goes(d.issue, Target(d.issue))
      BY <2>1
    <3>2. d.issue \in Issues /\ Target(d.issue) \in Status
      BY <2>0, Types, StatusParts DEF Decisions, Target
    <3> QED
      BY <2>0, <3>1, <3>2, GoesTo
  <2>3. Minutes(i) \in 0..MaxAge /\ past.age[i] \in 0..MaxAge /\ NoWait \notin Nat
    BY <2>0, ProjectTyped, TickAssumption DEF TypeOK
  <2>4. Minutes(i) = 0 \/ wait[i] = 0
    BY <2>2 DEF GateReleases
  <2> QED
    BY <2>0, <2>3, <2>4 DEF GatesGood
<1> QED
  BY <1>1, TickInvAlways, PTL DEF Spec, FullGate
-----------------------------------------------------------------------------
(* Cadence: numbers                                                        *)

\* No later minute has come by the moment x.
LEMMA MinuteBegins ==
  ASSUME NEW x \in Nat, NEW m \in Nat, NEW u \in Nat \ {0}, x \div u < m
  PROVE  m * u > x
<1> DEFINE q == x \div u
<1>1. q \in Nat /\ x < (q + 1) * u
  OBVIOUS
<1>2. m >= q + 1 /\ m * u >= (q + 1) * u /\ m * u \in Nat /\ (q + 1) * u \in Nat
  <2> HIDE DEF q
  <2>1. q \in Nat /\ q < m
    BY <1>1 DEF q
  <2>2. PICK k \in Nat : m = (q + 1) + k
    <3>1. m - (q + 1) \in Nat /\ m = (q + 1) + (m - (q + 1))
      BY <2>1
    <3> QED
      BY <3>1
  <2>3. m * u = (q + 1) * u + k * u
    BY <2>1, <2>2
  <2>4. k * u \in Nat /\ (q + 1) * u \in Nat
    BY <2>1, <2>2
  <2> QED
    BY <2>1, <2>3, <2>4
<1> HIDE DEF q
<1> QED
  BY <1>1, <1>2

-----------------------------------------------------------------------------
(* Cadence: what is stored                                                 *)

\* Cadences the daemon can act upon.
Cadences == {Manual, Tick} \cup {c \in EveryTexts : c.minutes > 0}
            \cup {c \in CronTexts : Parses(c)}

\* A shorthand becomes a text of another kind, or is refused.
LEMMA ShortMakes ==
  ASSUME NEW n \in Int, NEW unit \in {"m", "h", "d"}
  PROVE  ShortCadence(n, unit) \in {Refused} \cup EveryTexts \cup CronTexts
<1>1. {HourMin, DayHours, WeekDays} \subseteq Nat \ {0}
  BY CalendarAssumption
<1>2. Any \in Fields /\ (\A k \in Nat : Step(k) \in Fields) /\ At({0}) \in Fields
  BY DEF Any, Step, At, Fields
<1>3. ASSUME NEW f1 \in Fields, NEW f2 \in Fields, NEW f3 \in Fields,
             NEW f4 \in Fields, NEW f5 \in Fields
      PROVE  Cron(<<f1, f2, f3, f4, f5>>) \in CronTexts
  <2>1. <<f1, f2, f3, f4, f5>> \in [1..5 -> Fields]
    OBVIOUS
  <2> QED
    BY <2>1 DEF Cron, CronTexts
<1>4. \A k \in Nat : OnHour(Step(k)) \in CronTexts /\ OnDay(Step(k), Any) \in CronTexts
  BY <1>2, <1>3 DEF OnHour, OnDay
<1>5. /\ OnDay(Any, Any) \in CronTexts /\ OnDay(Any, At({0})) \in CronTexts
      /\ \A k \in Nat : Cron(<<Step(k), Any, Any, Any, Any>>) \in CronTexts
  BY <1>2, <1>3 DEF OnDay
<1>6. \A k \in Int : Every(k) \in EveryTexts
  BY DEF Every, EveryTexts
<1>7. CASE n <= 0
  BY <1>1, <1>7 DEF ShortCadence
<1>8. CASE n > 0
  <2>1. /\ n \in Nat /\ n * HourMin \in Int /\ n \div HourMin \in Nat
        /\ n \div DayHours \in Nat
    BY <1>1, <1>8
  <2>2. CASE unit = "m"
    <3>1. \/ n \in 1..(HourMin - 1)
          \/ n >= HourMin /\ n % HourMin = 0
          \/ n >= HourMin /\ n % HourMin # 0
      BY <1>1, <1>8
    <3> QED
      BY <1>1, <1>4, <1>5, <1>6, <1>8, <2>1, <2>2, <3>1 DEF ShortCadence
  <2>3. CASE unit = "h"
    <3>1. \/ n \in 1..(DayHours - 1)
          \/ n >= DayHours /\ n % DayHours = 0
          \/ n >= DayHours /\ n % DayHours # 0
      BY <1>1, <1>8
    <3> QED
      BY <1>1, <1>4, <1>5, <1>6, <1>8, <2>1, <2>3, <3>1 DEF ShortCadence
  <2>4. CASE unit = "d"
    <3>1. ShortCadence(n, unit) = DaysCadence(n)
      BY <1>8, <2>4 DEF ShortCadence
    <3> QED
      BY <1>4, <1>5, <2>1, <3>1 DEF DaysCadence
  <2> QED
    BY <2>2, <2>3, <2>4
<1> QED
  BY <1>7, <1>8

LEMMA Kinds ==
  /\ Manual.kind = "manual" /\ Tick.kind = "tick" /\ Refused.kind = "refused"
  /\ \A c \in EveryTexts : c.kind = "every" /\ c.minutes \in Int
  /\ \A c \in CronTexts : c.kind = "cron"
  /\ \A c \in ShortTexts : /\ c.kind = "short" /\ c.amount \in Int
                           /\ c.unit \in {"m", "h", "d"}
BY DEF Manual, Tick, Refused, EveryTexts, CronTexts, ShortTexts

\* Normalising once removes the shorthand.
LEMMA NormalizeOnce ==
  ASSUME NEW text \in Texts
  PROVE  Normalize(text) \in Texts \ ShortTexts
<1>1. CASE text \in ShortTexts
  <2>1. Normalize(text) = ShortCadence(text.amount, text.unit)
    BY <1>1, Kinds DEF Normalize
  <2>2. Normalize(text) \in {Refused} \cup EveryTexts \cup CronTexts
    BY <1>1, <2>1, Kinds, ShortMakes
  <2> QED
    BY <2>2, Kinds DEF Texts
<1>2. CASE text \in {Manual, Tick, Refused} \cup EveryTexts \cup CronTexts
  <2>1. Normalize(text) \in {text, Refused}
    BY <1>2, Kinds DEF Normalize
  <2> QED
    BY <1>2, <2>1, Kinds DEF Texts
<1> QED
  BY <1>1, <1>2 DEF Texts

\* Normalising what is no shorthand accepts or refuses it.
LEMMA NormalizeTwice ==
  ASSUME NEW text \in Texts \ ShortTexts
  PROVE  Normalize(text) \in Cadences \cup {Refused}
<1>1. CASE text \in {Manual, Tick, Refused}
  BY <1>1, Kinds DEF Normalize, Cadences
<1>2. CASE text \in EveryTexts
  BY <1>2, Kinds DEF Normalize, Cadences
<1>3. CASE text \in CronTexts
  BY <1>3, Kinds DEF Normalize, Cadences
<1> QED
  BY <1>1, <1>2, <1>3 DEF Texts

LEMMA NormalizeFixed ==
  ASSUME NEW c \in Cadences
  PROVE  /\ Normalize(c) = c /\ c # Refused
         /\ c.kind \in {"manual", "tick", "every", "cron"}
         /\ c.kind = "every" => c.minutes \in Nat
<1>1. CASE c \in {Manual, Tick}
  BY <1>1, Kinds DEF Normalize
<1>2. CASE c \in EveryTexts /\ c.minutes > 0
  BY <1>2, Kinds DEF Normalize
<1>3. CASE c \in CronTexts /\ Parses(c)
  BY <1>3, Kinds DEF Normalize
<1> QED
  BY <1>1, <1>2, <1>3 DEF Cadences

\* Cadences a project may have, whose occurrences the calendar lists.
Known == {c \in Cadences : c.kind = "cron" => c \in Crons}

LEMMA StoredKnown ==
  ASSUME NEW text \in Typed, Stored(text) # Refused
  PROVE  Stored(text) \in Known
<1>1. text \in Texts
  BY CalendarAssumption
<1>2. Stored(text) = Normalize(Normalize(text))
  BY DEF Stored, DaemonNormalize
<1>3. Stored(text) \in Cadences
  BY <1>1, <1>2, NormalizeOnce, NormalizeTwice
<1> QED
  BY <1>3 DEF Known, Crons

-----------------------------------------------------------------------------
(* Cadence: occurrences                                                    *)

\* The next occurrence is in sight when there is one, and is one.
LEMMA NextIsOccurrence ==
  ASSUME NEW c \in Crons, NEW since \in Int, NEW until \in Nat,
         NextAfter(c, since) \in 0..until
  PROVE  \E m \in Occurrences[c] : since \div MinuteMs < m /\ m * MinuteMs <= until
<1> DEFINE N == {n \in Occurrences[c] : n - (since \div MinuteMs) \in 1..ScanMinutes}
           S == {m * MinuteMs : m \in N}
<1>1. MinuteMs \in Nat \ {0} /\ N \subseteq Nat /\ since \div MinuteMs \in Int
  BY CalendarAssumption DEF Occurrences
<1>2. S \subseteq Nat /\ Earliest(S) \in 0..until
  <2>1. \A m \in Nat : m * MinuteMs \in Nat
    BY <1>1
  <2> QED
    BY <1>1, <2>1 DEF NextAfter
<1>3. S # {}
  BY <1>2 DEF Earliest, Never
<1>4. PICK x \in S : \A y \in S : x <= y
  <2> HIDE DEF S
  <2> QED
    BY <1>2, <1>3, Least
<1>5. Earliest(S) \in S
  <2> HIDE DEF S
  <2>1. Earliest(S) = CHOOSE m \in S : \A n \in S : m <= n
    BY <1>3 DEF Earliest
  <2> QED
    BY <1>4, <2>1
<1>6. PICK m \in N : Earliest(S) = m * MinuteMs
  BY <1>5
<1> QED
  BY <1>1, <1>2, <1>6

-----------------------------------------------------------------------------
(* Cadence: an occurrence in sight                                         *)

\* A quotient and a remainder are those of the number they make.
LEMMA DivModIs ==
  ASSUME NEW n \in Nat \ {0}, NEW q \in Nat, NEW r \in 0..(n - 1)
  PROVE  (q * n + r) % n = r /\ (q * n + r) \div n = q
<1> DEFINE x == q * n + r
           p == x \div n
           s == x % n
<1>1. x \in Nat /\ p \in Nat /\ s \in 0..(n - 1) /\ x = n * p + s
  OBVIOUS
<1>2. q * n + r = p * n + s
  BY <1>1
<1> HIDE DEF x, p, s
<1>3. ASSUME p < q PROVE FALSE
  <2>1. PICK k \in Nat : q = (p + 1) + k
    <3>1. q - (p + 1) \in Nat /\ q = (p + 1) + (q - (p + 1))
      BY <1>1, <1>3
    <3> QED
      BY <3>1
  <2>2. q * n = p * n + n + k * n /\ k * n \in Nat
    BY <1>1, <2>1
  <2> QED
    BY <1>1, <1>2, <2>2
<1>4. ASSUME q < p PROVE FALSE
  <2>1. PICK k \in Nat : p = (q + 1) + k
    <3>1. p - (q + 1) \in Nat /\ p = (q + 1) + (p - (q + 1))
      BY <1>1, <1>4
    <3> QED
      BY <3>1
  <2>2. p * n = q * n + n + k * n /\ k * n \in Nat
    BY <1>1, <2>1
  <2> QED
    BY <1>1, <1>2, <2>2
<1>5. p = q /\ s = r
  <2>1. p = q
    BY <1>1, <1>3, <1>4
  <2> QED
    BY <1>1, <1>2, <2>1
<1> QED
  BY <1>5 DEF p, s, x

\* Every remainder comes up among n numbers in a row.
LEMMA ComesRound ==
  ASSUME NEW n \in Nat \ {0}, NEW a \in Nat, NEW r \in 0..(n - 1)
  PROVE  \E k \in 0..(n - 1) : (a + k) % n = r
<1> DEFINE q == a \div n
           s == a % n
<1>1. q \in Nat /\ s \in 0..(n - 1) /\ a = n * q + s
  OBVIOUS
<1> HIDE DEF q, s
<1>2. CASE r >= s
  <2>1. r - s \in 0..(n - 1) /\ a + (r - s) = q * n + r
    BY <1>1, <1>2
  <2>2. (q * n + r) % n = r
    BY <1>1, DivModIs
  <2> QED
    BY <2>1, <2>2
<1>3. CASE r < s
  <2>1. r + n - s \in 0..(n - 1) /\ a + (r + n - s) = (q + 1) * n + r /\ q + 1 \in Nat
    BY <1>1, <1>3
  <2>2. ((q + 1) * n + r) % n = r
    BY <2>1, DivModIs
  <2> QED
    BY <2>1, <2>2
<1> QED
  BY <1>1, <1>2, <1>3

\* A field that parses names a value of its range.
LEMMA FieldNames ==
  ASSUME NEW f \in 1..5, NEW raw \in Fields, FieldParses(raw, f)
  PROVE  \E v \in Low[f]..High[f] : FieldHas(raw, f, v)
<1>1. Low[f] \in Int /\ High[f] \in Int /\ Low[f] <= High[f]
  BY CalendarAssumption DEF Low, High
<1> HIDE DEF Low, High
<1>2. CASE raw.kind = "any"
  BY <1>1, <1>2 DEF FieldHas
<1>3. CASE raw.kind = "step"
  <2>1. raw.by \in Nat \ {0} /\ Low[f] \in Low[f]..High[f]
    BY <1>1, <1>3 DEF FieldParses
  <2>2. (Low[f] - Low[f]) % raw.by = 0
    BY <1>1, <2>1
  <2> QED
    BY <1>3, <2>1, <2>2 DEF FieldHas
<1>4. CASE raw.kind = "at"
  BY <1>4 DEF FieldHas, FieldParses
<1> QED
  BY <1>2, <1>3, <1>4 DEF Fields

\* The day of Matches.
DayFits(cron, day) ==
  LET date == DateOf[day % Cycle]
      dom == FieldHas(cron.fields[3], 3, date.dom)
      dow == \/ FieldHas(cron.fields[5], 5, day % WeekDays)
             \/ day % WeekDays = 0 /\ FieldHas(cron.fields[5], 5, WeekDays)
  IN /\ FieldHas(cron.fields[4], 4, date.month)
     /\ IF cron.fields[3] = Any \/ cron.fields[5] = Any THEN dom /\ dow
        ELSE dom \/ dow

LEMMA AnyHas == \A f, v : FieldHas(Any, f, v)
BY DEF FieldHas, Any

\* A cadence that parses and whose day exists has one within a cycle and a week.
LEMMA SomeDayFits ==
  ASSUME NEW c \in CronTexts, Parses(c), DayExists(c), NEW today \in Nat
  PROVE  \E day \in (today + 1)..(today + Cycle + WeekDays - 1) : DayFits(c, day)
<1>1. /\ Cycle \in Nat \ {0} /\ WeekDays \in Nat \ {0} /\ DOMAIN DateOf = 0..(Cycle - 1)
      /\ \A d \in 0..(Cycle - 1) : DateOf[d].month \in 1..Months
  BY CalendarAssumption, DatesAssumption
<1>2. \A f \in 1..5 : c.fields[f] \in Fields /\ FieldParses(c.fields[f], f)
  BY DEF CronTexts, Parses
<1>3. \A d \in 0..(Cycle - 1) : \E day \in (today + 1)..(today + Cycle) : day % Cycle = d
  <2> SUFFICES ASSUME NEW d \in 0..(Cycle - 1)
               PROVE  \E day \in (today + 1)..(today + Cycle) : day % Cycle = d
    OBVIOUS
  <2>1. PICK k \in 0..(Cycle - 1) : ((today + 1) + k) % Cycle = d
    <3>1. today + 1 \in Nat
      OBVIOUS
    <3> QED
      BY <1>1, <3>1, ComesRound
  <2>2. (today + 1) + k \in (today + 1)..(today + Cycle)
    BY <1>1
  <2> QED
    BY <2>1, <2>2
<1>4. CASE c.fields[5] = Any
  <2>1. PICK d \in 0..(Cycle - 1) : /\ FieldHas(c.fields[3], 3, DateOf[d].dom)
                                    /\ FieldHas(c.fields[4], 4, DateOf[d].month)
    BY <1>1, <1>4 DEF DayExists
  <2>2. PICK day \in (today + 1)..(today + Cycle) : day % Cycle = d
    BY <1>3
  <2>3. DayFits(c, day)
    BY <1>4, <2>1, <2>2, AnyHas DEF DayFits
  <2> QED
    BY <1>1, <2>2, <2>3
<1>5. CASE c.fields[5] # Any
  <2>1. PICK w \in 0..WeekDays : FieldHas(c.fields[5], 5, w)
    <3>1. Low[5] = 0 /\ High[5] = WeekDays
      BY DEF Low, High
    <3> QED
      BY <1>2, <3>1, FieldNames
  <2>2. PICK r \in 0..(WeekDays - 1) : (r = w) \/ (r = 0 /\ w = WeekDays)
    <3>1. CASE w = WeekDays
      <4>1. 0 \in 0..(WeekDays - 1)
        BY <1>1
      <4> QED
        BY <3>1, <4>1
    <3>2. CASE w # WeekDays
      <4>1. w \in 0..(WeekDays - 1)
        BY <1>1, <3>2
      <4> QED
        BY <4>1
    <3> QED
      BY <3>1, <3>2
  <2>3. PICK month \in 1..Months : FieldHas(c.fields[4], 4, month)
    <3>1. Low[4] = 1 /\ High[4] = Months
      BY DEF Low, High
    <3> QED
      BY <1>2, <3>1, FieldNames
  <2>4. PICK d \in 0..(Cycle - WeekDays) :
          \A k \in 0..(WeekDays - 1) : DateOf[d + k].month = month
    BY DatesAssumption
  <2>5. d \in 0..(Cycle - 1)
    BY <1>1
  <2>6. PICK first \in (today + 1)..(today + Cycle) : first % Cycle = d
    BY <1>3, <2>5
  <2>7. PICK k \in 0..(WeekDays - 1) : (first + k) % WeekDays = r
    <3>1. first \in Nat
      BY <1>1
    <3> QED
      BY <1>1, <3>1, ComesRound
  <2>8. (first + k) % Cycle = d + k
    <3> DEFINE q == first \div Cycle
    <3>1. first \in Nat /\ first = Cycle * q + d /\ q \in Nat
      BY <1>1, <2>6
    <3> HIDE DEF q
    <3>2. d + k \in 0..(Cycle - 1)
      BY <1>1
    <3>3. (q * Cycle + (d + k)) % Cycle = d + k
      BY <1>1, <3>1, <3>2, DivModIs
    <3>4. first + k = q * Cycle + (d + k)
      BY <1>1, <3>1
    <3> QED
      BY <3>3, <3>4
  <2>9. DayFits(c, first + k)
    <3>1. FieldHas(c.fields[4], 4, DateOf[(first + k) % Cycle].month)
      BY <2>3, <2>4, <2>8
    <3>2. \/ FieldHas(c.fields[5], 5, (first + k) % WeekDays)
          \/ (first + k) % WeekDays = 0 /\ FieldHas(c.fields[5], 5, WeekDays)
      BY <2>1, <2>2, <2>7
    <3> QED
      BY <1>5, <3>1, <3>2, AnyHas DEF DayFits
  <2>10. first + k \in (today + 1)..(today + Cycle + WeekDays - 1)
    <3>1. /\ first \in Nat /\ today + 1 <= first /\ first <= today + Cycle
          /\ k \in Nat /\ k <= WeekDays - 1
      BY <1>1
    <3> QED
      BY <1>1, <3>1
  <2> QED
    BY <2>9, <2>10
<1> QED
  BY <1>4, <1>5

\* The minute of a day, an hour and a minute that fit.
LEMMA MinuteFits ==
  ASSUME NEW c \in CronTexts, NEW day \in Nat, DayFits(c, day),
         NEW h \in 0..(DayHours - 1), FieldHas(c.fields[2], 2, h),
         NEW m \in 0..(HourMin - 1), FieldHas(c.fields[1], 1, m)
  PROVE  Matches(c, (day * DayHours + h) * HourMin + m)
<1> DEFINE hour == day * DayHours + h
           minute == hour * HourMin + m
<1>1. DayHours \in Nat \ {0} /\ HourMin \in Nat \ {0}
  BY CalendarAssumption
<1>2. hour \in Nat /\ hour % DayHours = h /\ hour \div DayHours = day
  <2>1. day * DayHours \in Nat
    BY <1>1
  <2>2. hour \in Nat
    BY <1>1, <2>1
  <2> QED
    BY <1>1, <2>2, DivModIs, Zenon
<1>3. minute % HourMin = m /\ minute \div HourMin = hour
  <2> HIDE DEF hour
  <2> QED
    BY <1>1, <1>2, DivModIs, Zenon
<1> HIDE DEF hour, minute
<1>4. Matches(c, minute)
  BY <1>2, <1>3 DEF Matches, DayFits
<1> QED
  BY <1>4 DEF minute, hour

\* From today on, the days within a cycle and a week lie in the scan.
LEMMA DayInScan ==
  ASSUME NEW from \in Nat, NEW h \in 0..(DayHours - 1), NEW m \in 0..(HourMin - 1),
         NEW day \in ((from \div HourMin) \div DayHours + 1)
                     ..((from \div HourMin) \div DayHours + Cycle + WeekDays - 1)
  PROVE  ((day * DayHours + h) * HourMin + m) - from \in 1..ScanMinutes
<1> DEFINE hours == from \div HourMin
           today == hours \div DayHours
           span == Cycle + WeekDays
<1>0. /\ DayHours \in Nat \ {0} /\ HourMin \in Nat \ {0} /\ ScanMinutes \in Nat
      /\ Cycle \in Nat /\ WeekDays \in Nat
  BY CalendarAssumption, DatesAssumption
<1>1. /\ DayHours \in Nat \ {0} /\ HourMin \in Nat \ {0} /\ span \in Nat
      /\ ScanMinutes \in Nat /\ ScanMinutes >= span * DayHours * HourMin
  <2>1. span \in Nat
    BY <1>0
  <2>2. ScanMinutes >= span * DayHours * HourMin
    BY DatesAssumption, Zenon
  <2> QED
    BY <1>0, <2>1, <2>2
<1>2. hours \in Nat /\ from >= hours * HourMin
  BY <1>1
<1>3. today \in Nat /\ hours >= today * DayHours
  <2>1. hours \in Nat
    BY <1>2
  <2> HIDE DEF hours
  <2> QED
    BY <1>1, <2>1
<1>4. day \in Nat /\ today < day /\ day + 1 <= today + span
  <2>1. day \in (today + 1)..(today + Cycle + WeekDays - 1)
    OBVIOUS
  <2>2. span = Cycle + WeekDays
    OBVIOUS
  <2> HIDE DEF today, span
  <2> QED
    BY <1>0, <1>1, <1>3, <2>1, <2>2
<1>5. day * DayHours > hours
  <2> HIDE DEF hours
  <2> QED
    BY <1>1, <1>2, <1>4, MinuteBegins
<1> HIDE DEF today, span
<1>6. (day * DayHours + h) \in Nat /\ hours < day * DayHours + h
  <2>1. day * DayHours \in Nat
    BY <1>1, <1>4
  <2> HIDE DEF hours
  <2> QED
    BY <1>1, <1>2, <1>5, <2>1
<1>7. (day * DayHours + h) * HourMin > from
  <2> DEFINE x == day * DayHours + h
  <2>1. x \in Nat /\ from \div HourMin < x
    BY <1>6
  <2> HIDE DEF x
  <2>2. x * HourMin > from
    BY <1>1, <2>1, MinuteBegins
  <2> QED
    BY <2>2 DEF x
<1> HIDE DEF hours
<1>8. PICK k \in Nat : today + span = day + 1 + k
  <2>1. today + span - (day + 1) \in Nat
    BY <1>1, <1>3, <1>4
  <2> QED
    BY <1>1, <1>3, <1>4, <2>1
<1>9. day * DayHours + h <= (today + span) * DayHours - 1
  <2>1. (today + span) * DayHours = day * DayHours + DayHours + k * DayHours
    BY <1>1, <1>3, <1>4, <1>8
  <2>2. k * DayHours \in Nat /\ day * DayHours \in Nat
    BY <1>1, <1>4
  <2> QED
    BY <1>1, <2>1, <2>2
<1>10. (day * DayHours + h) * HourMin + m <= ((today + span) * DayHours) * HourMin - 1
  <2> DEFINE x == day * DayHours + h
             y == (today + span) * DayHours
  <2>1. x \in Nat /\ y \in Nat /\ x <= y - 1
    BY <1>1, <1>3, <1>6, <1>9
  <2> HIDE DEF x, y
  <2>2. PICK j \in Nat : y = x + 1 + j
    <3>1. y - (x + 1) \in Nat /\ y = x + 1 + (y - (x + 1))
      BY <2>1
    <3> QED
      BY <3>1
  <2>3. y * HourMin = x * HourMin + HourMin + j * HourMin
    BY <1>1, <2>1, <2>2
  <2>4. j * HourMin \in Nat /\ x * HourMin \in Nat
    BY <1>1, <2>1
  <2>5. x * HourMin + m <= y * HourMin - 1
    BY <1>1, <2>3, <2>4
  <2> QED
    BY <2>5 DEF x, y
<1>11. ((today + span) * DayHours) * HourMin <= from + ScanMinutes
  <2>1. PICK j \in Nat : hours = today * DayHours + j
    <3>1. today * DayHours \in Nat
      BY <1>1, <1>3
    <3>2. hours - today * DayHours \in Nat
      BY <1>2, <1>3, <3>1
    <3> QED
      BY <1>2, <3>1, <3>2
  <2>2. today * DayHours \in Nat /\ span * DayHours \in Nat
    BY <1>1, <1>3
  <2>3. (today + span) * DayHours = today * DayHours + span * DayHours
    BY <1>1, <1>3
  <2>4. ((today + span) * DayHours) * HourMin
          = (today * DayHours) * HourMin + (span * DayHours) * HourMin
    BY <1>1, <2>2, <2>3
  <2>5. hours * HourMin = (today * DayHours) * HourMin + j * HourMin
    BY <1>1, <2>1, <2>2
  <2>6. j * HourMin \in Nat /\ (today * DayHours) * HourMin \in Nat
    BY <1>1, <2>1, <2>2
  <2>7. (today * DayHours) * HourMin <= from
    BY <1>2, <2>5, <2>6
  <2>8. (span * DayHours) * HourMin <= ScanMinutes /\ (span * DayHours) * HourMin \in Nat
    BY <1>1, <2>2
  <2> QED
    BY <1>1, <2>4, <2>6, <2>7, <2>8
<1> DEFINE n == (day * DayHours + h) * HourMin + m
           y == ((today + span) * DayHours) * HourMin
<1>12. n \in Nat /\ y \in Int /\ n > from /\ n <= y - 1 /\ y <= from + ScanMinutes
  <2>1. (day * DayHours + h) * HourMin \in Nat
    BY <1>1, <1>6
  <2>2. (today + span) * DayHours \in Nat
    BY <1>1, <1>3
  <2>3. y \in Nat
    BY <1>1, <2>2
  <2> QED
    BY <1>1, <1>7, <1>10, <1>11, <2>1, <2>3
<1> HIDE DEF n, y
<1>13. n - from \in 1..ScanMinutes
  BY <1>1, <1>12
<1> QED
  BY <1>13 DEF n

\* The scan finds an occurrence exactly if the cadence names a day there is.
LEMMA NextInSight ==
  ASSUME NEW c \in Crons, c \in CronTexts, Parses(c), NEW since \in 0..Horizon
  PROVE  NextAfter(c, since) # Never <=> DayExists(c)
<1> DEFINE from == since \div MinuteMs
           N == {n \in Occurrences[c] : n - from \in 1..ScanMinutes}
           S == {m * MinuteMs : m \in N}
<1>1. /\ MinuteMs \in Nat \ {0} /\ Horizon \in Nat /\ since \in Nat
      /\ ScanMinutes \in Nat /\ HourMin \in Nat \ {0} /\ DayHours \in Nat \ {0}
      /\ Cycle \in Nat \ {0} /\ WeekDays \in Nat \ {0} /\ DOMAIN DateOf = 0..(Cycle - 1)
  BY CalendarAssumption, DatesAssumption
<1>2. /\ Occurrences[c] \subseteq Nat
      /\ \A n : n \in Occurrences[c] <=>
                  n \in 0..(Horizon \div MinuteMs + ScanMinutes) /\ Matches(c, n)
  BY <1>1 DEF Occurrences
<1>3. from \in Nat /\ from <= Horizon \div MinuteMs
  <2>1. from \in Nat /\ from * MinuteMs <= since /\ Horizon \div MinuteMs \in Nat
    BY <1>1
  <2>2. Horizon \div MinuteMs < from => from * MinuteMs > Horizon
    BY <1>1, <2>1, MinuteBegins
  <2> HIDE DEF from
  <2>3. from * MinuteMs \in Nat
    BY <1>1, <2>1
  <2> QED
    BY <1>1, <2>1, <2>2, <2>3
<1>4. NextAfter(c, since) = Earliest(S)
  BY DEF NextAfter
<1>5. S # {} => Earliest(S) \in Nat
  <2> SUFFICES ASSUME S # {} PROVE Earliest(S) \in Nat
    OBVIOUS
  <2>1. S \subseteq Nat
    <3>1. \A m \in Nat : m * MinuteMs \in Nat
      BY <1>1
    <3> QED
      BY <1>2, <3>1
  <2> HIDE DEF S
  <2>2. PICK x \in S : \A y \in S : x <= y
    BY <2>1, Least
  <2>3. Earliest(S) \in S
    BY <2>2 DEF Earliest
  <2> QED
    BY <2>1, <2>3
<1>6. NextAfter(c, since) # Never <=> N # {}
  <2>1. N = {} => NextAfter(c, since) = Never
    BY <1>4 DEF Earliest
  <2>2. N # {} => NextAfter(c, since) \in Nat
    BY <1>4, <1>5
  <2> QED
    BY <2>1, <2>2 DEF Never
<1>7. ASSUME N # {} PROVE DayExists(c)
  <2>1. PICK n \in N : TRUE
    BY <1>7
  <2>2. n \in Nat /\ Matches(c, n)
    BY <1>2, <2>1
  <2> DEFINE day == (n \div HourMin) \div DayHours
  <2>3. day % Cycle \in DOMAIN DateOf
    <3>1. n \div HourMin \in Nat
      BY <1>1, <2>2
    <3>2. day \in Nat
      BY <1>1, <3>1
    <3> HIDE DEF day
    <3> QED
      BY <1>1, <3>2
  <2>4. c.fields[5] = Any => /\ FieldHas(c.fields[3], 3, DateOf[day % Cycle].dom)
                             /\ FieldHas(c.fields[4], 4, DateOf[day % Cycle].month)
    BY <2>2 DEF Matches
  <2> QED
    BY <2>3, <2>4 DEF DayExists
<1>8. ASSUME DayExists(c) PROVE N # {}
  <2>1. \A f \in 1..5 : c.fields[f] \in Fields /\ FieldParses(c.fields[f], f)
    BY DEF CronTexts, Parses
  <2>2. PICK m \in 0..(HourMin - 1) : FieldHas(c.fields[1], 1, m)
    <3>1. Low[1] = 0 /\ High[1] = HourMin - 1
      BY DEF Low, High
    <3> QED
      BY <2>1, <3>1, FieldNames
  <2>3. PICK h \in 0..(DayHours - 1) : FieldHas(c.fields[2], 2, h)
    <3>1. Low[2] = 0 /\ High[2] = DayHours - 1
      BY DEF Low, High
    <3> QED
      BY <2>1, <3>1, FieldNames
  <2> DEFINE today == (from \div HourMin) \div DayHours
  <2>4. today \in Nat
    <3> HIDE DEF from
    <3>1. from \div HourMin \in Nat
      BY <1>1, <1>3
    <3> QED
      BY <1>1, <3>1
  <2>5. PICK day \in (today + 1)..(today + Cycle + WeekDays - 1) : DayFits(c, day)
    <3> HIDE DEF today
    <3> QED
      BY <1>8, <2>4, SomeDayFits
  <2>6. day \in Nat
    <3> HIDE DEF today
    <3> QED
      BY <1>1, <2>4
  <2> DEFINE n == (day * DayHours + h) * HourMin + m
  <2>7. Matches(c, n)
    BY <2>2, <2>3, <2>5, <2>6, MinuteFits
  <2>8. n - from \in 1..ScanMinutes
    <3>1. from \in Nat
      BY <1>3
    <3> HIDE DEF from
    <3> QED
      BY <3>1, DayInScan
  <2>9. n \in Nat
    <3>1. day * DayHours + h \in Nat
      BY <1>1, <2>6
    <3> QED
      BY <1>1, <3>1
  <2>10. n \in 0..(Horizon \div MinuteMs + ScanMinutes)
    <3>1. Horizon \div MinuteMs \in Nat
      BY <1>1
    <3> HIDE DEF n, from
    <3> QED
      BY <1>1, <1>3, <2>8, <2>9, <3>1
  <2> HIDE DEF n
  <2>11. n \in N
    BY <1>2, <2>7, <2>8, <2>10
  <2> QED
    BY <2>11
<1> QED
  BY <1>6, <1>7, <1>8

-----------------------------------------------------------------------------
(* Cadence: the inductive invariant                                        *)

\* Nothing is read or recorded before its time.
ClockGood == now \in 0..Horizon /\ last \in Nat \cup {Never} /\ schedule \in Known
LoopGood == loop.pc = "deciding" => /\ loop.at \in Nat /\ loop.at <= now
                                    /\ loop.schedule \in Known

\* c has come due between the last run and the moment `at`.
Answers(c, from, at) ==
  \/ c.kind = "tick"
  \/ c.kind = "every" /\ (from = Never \/ at - from >= c.minutes * MinuteMs)
  \/ c.kind = "cron" /\ Pending(c, Since(from), at) # {}

\* While an automatic tick holds the guard, no other run is recorded.
TickGood ==
  guard # NoTick =>
    /\ guard.at \in Nat
    /\ guard.by = "auto" /\ ~guard.blind =>
         guard.cadence \in Known /\ Answers(guard.cadence, last, guard.at)

CadenceInv == ClockGood /\ LoopGood /\ TickGood

LEMMA CadenceInvInit == LoopInit => CadenceInv
<1> SUFFICES ASSUME LoopInit PROVE CadenceInv
  OBVIOUS
<1>1. Manual \in Known
  BY Kinds DEF Known, Cadences
<1> QED
  BY <1>1, CalendarAssumption DEF LoopInit, CadenceInv, ClockGood, LoopGood, TickGood, Idle

\* What is due when the loop decides is answered by the tick it starts.
LEMMA DueAnswers ==
  ASSUME NEW c \in Known, NEW l \in Nat \cup {Never}, NEW read \in Nat,
         NEW at \in Nat, read <= at, Due(c, l, read)
  PROVE  Answers(c, l, at)
<1>1. Normalize(c) = c /\ (c.kind = "every" => c.minutes \in Nat)
      /\ (c.kind = "cron" => c \in Crons)
  BY NormalizeFixed DEF Known
<1>2. CASE c.kind = "tick"
  BY <1>2 DEF Answers
<1>3. CASE c.kind = "every" /\ (l = Never \/ read - l >= c.minutes * MinuteMs)
  <2>1. c.minutes * MinuteMs \in Nat
    BY <1>1, <1>3, CalendarAssumption
  <2> HIDE DEF Never
  <2> QED
    BY <1>3, <2>1 DEF Answers
<1>4. CASE c.kind = "cron" /\ NextAfter(c, Since(l)) \in 0..read
  <2>1. Since(l) \in Int
    BY CalendarAssumption DEF Since
  <2>2. PICK m \in Occurrences[c] : Since(l) \div MinuteMs < m /\ m * MinuteMs <= read
    BY <1>1, <1>4, <2>1, NextIsOccurrence
  <2>3. m \in Nat /\ m * MinuteMs \in Nat
    <3>1. m \in Nat
      BY <1>1, <1>4 DEF Occurrences
    <3> QED
      BY <3>1, CalendarAssumption
  <2>4. m \in Pending(c, Since(l), at)
    BY <2>2, <2>3 DEF Pending
  <2> QED
    BY <1>4, <2>4 DEF Answers
<1> QED
  BY <1>1, <1>2, <1>3, <1>4 DEF Due

LEMMA CadenceInvNext == CadenceInv /\ [LoopNext]_loopVars => CadenceInv'
<1> SUFFICES ASSUME CadenceInv, [LoopNext]_loopVars PROVE CadenceInv'
  OBVIOUS
<1>0. ClockGood /\ LoopGood /\ TickGood
  BY DEF CadenceInv
<1>1. CASE Clock
  BY <1>0, <1>1, CalendarAssumption DEF Clock, CadenceInv, ClockGood, LoopGood, TickGood
<1>2. ASSUME NEW text \in Typed, Reconfigure(text) PROVE CadenceInv'
  <2>1. schedule' \in Known
    BY <1>2, StoredKnown DEF Reconfigure
  <2> QED
    BY <1>0, <1>2, <2>1 DEF Reconfigure, CadenceInv, ClockGood, LoopGood, TickGood
<1>3. CASE LoopStarts
  BY <1>0, <1>3 DEF LoopStarts, CadenceInv, ClockGood, LoopGood, TickGood
<1>4. CASE LoopDecides
  <2>1. /\ UNCHANGED <<now, schedule, last>> /\ loop.pc = "deciding"
        /\ \/ /\ Due(loop.schedule, last, loop.at) /\ Starts("auto", FALSE)
              /\ loop' = [pc |-> "ticking"]
           \/ loop' = Idle /\ UNCHANGED guard
    BY <1>4, Zenon DEF LoopDecides
  <2>2. ClockGood' /\ LoopGood'
    <3>1. loop' = [pc |-> "ticking"] \/ loop' = Idle
      BY <2>1, Zenon
    <3>2. loop'.pc # "deciding"
      BY <3>1 DEF Idle
    <3> QED
      BY <1>0, <2>1, <3>2 DEF ClockGood, LoopGood
  <2>3. CASE UNCHANGED guard
    BY <1>0, <2>1, <2>2, <2>3 DEF CadenceInv, TickGood
  <2>4. CASE Due(loop.schedule, last, loop.at) /\ Starts("auto", FALSE)
    <3>1. loop.at \in Nat /\ loop.at <= now /\ loop.schedule \in Known
      BY <1>0, <2>1 DEF LoopGood
    <3>2. Normalize(loop.schedule) = loop.schedule
      BY <3>1, NormalizeFixed DEF Known
    <3>3. /\ guard'.at = now /\ guard'.cadence = loop.schedule
          /\ now \in Nat /\ last \in Nat \cup {Never} /\ last' = last
      BY <1>0, <2>1, <2>4, <3>2 DEF Starts, ClockGood
    <3>4. Answers(loop.schedule, last, now)
      BY <2>4, <3>1, <3>3, DueAnswers
    <3>5. Answers(guard'.cadence, last', guard'.at)
      BY <3>3, <3>4
    <3>6. TickGood'
      BY <3>1, <3>3, <3>5 DEF TickGood
    <3> QED
      BY <2>2, <3>6 DEF CadenceInv
  <2> QED
    BY <2>1, <2>3, <2>4
<1>5. CASE LoopCannotRead
  <2>1. /\ UNCHANGED <<now, schedule, last>> /\ (loop' = Idle \/ loop' = [pc |-> "ticking"])
        /\ (UNCHANGED guard \/ Starts("auto", TRUE))
    BY <1>5, Zenon DEF LoopCannotRead
  <2>2. ClockGood' /\ LoopGood'
    <3>1. loop'.pc # "deciding"
      BY <2>1 DEF Idle
    <3> QED
      BY <1>0, <2>1, <3>1 DEF ClockGood, LoopGood
  <2>3. CASE UNCHANGED guard
    BY <1>0, <2>1, <2>2, <2>3 DEF CadenceInv, TickGood
  <2>4. CASE Starts("auto", TRUE)
    BY <1>0, <2>2, <2>4 DEF Starts, CadenceInv, ClockGood, TickGood
  <2> QED
    BY <2>1, <2>3, <2>4
<1>6. CASE ManualTick
  BY <1>0, <1>6 DEF ManualTick, Starts, CadenceInv, ClockGood, LoopGood, TickGood
<1>7. CASE TickEnds
  <2>1. last' \in Nat \cup {Never} /\ guard' = NoTick
    BY <1>0, <1>7 DEF TickEnds, TickGood, ClockGood, RecordedAs, Released
  <2> QED
    BY <1>0, <1>7, <2>1 DEF TickEnds, Released, Idle, CadenceInv, ClockGood,
       LoopGood, TickGood
<1>8. CASE TickFails \/ Crash
  BY <1>0, <1>8 DEF TickFails, Crash, Released, Idle, CadenceInv, ClockGood,
     LoopGood, TickGood
<1>9. CASE UNCHANGED loopVars
  BY <1>0, <1>9 DEF loopVars, CadenceInv, ClockGood, LoopGood, TickGood, Answers
<1> QED
  BY <1>1, <1>2, <1>3, <1>4, <1>5, <1>6, <1>7, <1>8, <1>9 DEF LoopNext

LEMMA CadenceInvAlways == LoopSpec => []CadenceInv
BY CadenceInvInit, CadenceInvNext, PTL DEF LoopSpec

-----------------------------------------------------------------------------
(* Cadence: the theorems                                                   *)

\* The daemon stores nothing that it would read differently, or refuse, when it
\* normalises it once more (is_due, schedule.rs).
THEOREM StoredIsNormal == LoopSpec => []StoredIsFinal
<1>1. CadenceInv => StoredIsFinal
  BY NormalizeFixed DEF CadenceInv, ClockGood, Known, StoredIsFinal
<1> QED
  BY <1>1, CadenceInvAlways, PTL

\* What is stored can be evaluated, and the scan of next_after comes upon an
\* occurrence exactly if the cadence names a day that some month has.
THEOREM StoredHasOccurrence == LoopSpec => []StoredCadenceRuns
<1>1. ASSUME CadenceInv PROVE StoredCadenceRuns
  <2>1. schedule \in Known /\ now \in 0..Horizon
    BY <1>1 DEF CadenceInv, ClockGood
  <2>2. StoredIsFinal
    BY <2>1, NormalizeFixed DEF Known, StoredIsFinal
  <2>3. ASSUME schedule.kind = "cron"
        PROVE  NextAfter(schedule, now) # Never <=> DayExists(schedule)
    <3>1. schedule \in Crons /\ schedule \in CronTexts /\ Parses(schedule)
      BY <2>1, <2>3, Kinds DEF Known, Cadences
    <3> QED
      BY <2>1, <3>1, NextInSight
  <2> QED
    BY <2>2, <2>3 DEF StoredCadenceRuns
<1> QED
  BY <1>1, CadenceInvAlways, PTL

\* The console's countdown is over exactly when the loop would run the project
\* (next_due_ms and is_due, schedule.rs).
THEOREM CountdownIsRight == LoopSpec => []CountdownTellsDue
<1>1. ASSUME CadenceInv PROVE CountdownTellsDue
  <2> SUFFICES ASSUME schedule.kind # "tick"
               PROVE  CountdownOver(schedule, last, now) <=> Due(schedule, last, now)
    BY DEF CountdownTellsDue
  <2>1. /\ now \in Nat /\ last \in Nat \cup {Never} /\ Normalize(schedule) = schedule
        /\ schedule.kind \in {"manual", "tick", "every", "cron"}
        /\ schedule.kind = "every" => schedule.minutes \in Nat
    BY <1>1, NormalizeFixed DEF CadenceInv, ClockGood, Known
  <2>2. CASE schedule.kind = "manual"
    <3>1. NextDue(schedule, last, now) = Never
      BY <2>1, <2>2 DEF NextDue
    <3> QED
      BY <2>1, <2>2, <3>1 DEF CountdownOver, Due, Never
  <2>3. CASE schedule.kind = "every"
    <3>1. schedule.minutes * MinuteMs \in Nat
      BY <2>1, <2>3, CalendarAssumption
    <3>2. NextDue(schedule, last, now) = IF last = Never THEN now
                                         ELSE last + schedule.minutes * MinuteMs
      BY <2>1, <2>3 DEF NextDue
    <3>3. Due(schedule, last, now) <=>
            (last = Never \/ now - last >= schedule.minutes * MinuteMs)
      BY <2>1, <2>3 DEF Due
    <3> QED
      BY <2>1, <3>1, <3>2, <3>3 DEF CountdownOver, Never
  <2>4. CASE schedule.kind = "cron"
    <3>1. NextDue(schedule, last, now) = NextAfter(schedule, Since(last))
      BY <2>1, <2>4 DEF NextDue
    <3> QED
      BY <2>1, <2>4, <3>1 DEF CountdownOver, Due
  <2> QED
    BY <2>1, <2>2, <2>3, <2>4
<1> QED
  BY <1>1, CadenceInvAlways, PTL

\* An automatic run that could read its last run answers an occurrence of its
\* cadence which no earlier run answered, and leaves later ones to be answered;
\* with @every it keeps the distance (LoopDecides reads the project, the clock
\* and the last run at different moments: scheduler.rs).
THEOREM RunsAnswer == LoopSpec => RunsAnswerOccurrences
<1> DEFINE A == last' # last /\ ~guard.blind =>
       LET c == guard.cadence IN
       \/ c.kind = "tick"
       \/ c.kind = "every" /\ (last = Never \/ last' - last >= c.minutes * MinuteMs)
       \/ /\ c.kind = "cron"
          /\ Pending(c, Since(last), last') # {}
          /\ Pending(c, guard.at, last') = {}
<1>1. CadenceInv /\ [LoopNext]_loopVars => [A]_loopVars
  <2> SUFFICES ASSUME CadenceInv, LoopNext, last' # last, ~guard.blind
               PROVE  A
    OBVIOUS
  <2>1. TickEnds
    BY DEF LoopNext, Clock, Reconfigure, LoopStarts, LoopDecides, LoopCannotRead,
       ManualTick, TickFails, Crash
  <2>2. /\ guard # NoTick /\ guard.by = "auto" /\ last' = guard.at
        /\ guard.at \in Nat /\ guard.cadence \in Known
        /\ Answers(guard.cadence, last, guard.at)
    BY <2>1 DEF TickEnds, Counts, RecordedAs, CadenceInv, TickGood
  <2>3. guard.cadence.kind = "cron" => Pending(guard.cadence, guard.at, guard.at) = {}
    <3> SUFFICES ASSUME guard.cadence.kind = "cron",
                        NEW m \in Occurrences[guard.cadence],
                        guard.at \div MinuteMs < m, m * MinuteMs <= guard.at
                 PROVE  FALSE
      BY DEF Pending
    <3>1. m \in Nat
      BY <2>2 DEF Known, Occurrences
    <3>2. m * MinuteMs > guard.at /\ m * MinuteMs \in Nat
      BY <2>2, <3>1, CalendarAssumption, MinuteBegins
    <3> QED
      BY <2>2, <3>2
  <2> QED
    BY <2>2, <2>3 DEF Answers
<1> QED
  BY <1>1, CadenceInvAlways, PTL DEF LoopSpec, RunsAnswerOccurrences

=============================================================================
