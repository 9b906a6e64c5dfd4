--------------------------- MODULE ConsoleProofs ---------------------------
(***************************************************************************)
(* Theorems about Console, for any number of projects, issues, backlog     *)
(* items and routines, any rows the console started from, and any bounds   *)
(* on keys, changes and the events a subscriber may lag behind: the issue  *)
(* one reads stays the one that is open, the runs beside it are its own,   *)
(* and the cursor follows an issue into the place an event moved it to.    *)
(*                                                                         *)
(* Each handler is a chain of refreshes, so the proofs are of three kinds. *)
(* ...Is says what a handler comes to, with Then and CASE resolved; a      *)
(* ...Frame lists the fields it may touch; ...Good, ...Shown and ...Fit    *)
(* say which part of the invariant it keeps.  The invariant needs that the *)
(* lists the console loads are lists at all: a finite set can be listed in *)
(* every order, and what is joined of lists of rows is a list of rows.     *)
(***************************************************************************)
EXTENDS Console, FiniteSetTheorems, WellFoundedInduction, TLAPS

\* Numbers are compared by the finite sets below them, whose inclusion the
\* library proves to be well-founded.
LEMMA Least ==
  ASSUME NEW T, T \subseteq Nat, T # {}
  PROVE  \E x \in T : \A y \in T : x <= y
<1> DEFINE below(n) == {k \in Nat : k < n}
           U == {below(n) : n \in T}
           R == StrictSubsetOrdering(Nat)
<1>1. \A n \in Nat : below(n) \in FiniteSubsetsOf(Nat)
  <2> SUFFICES ASSUME NEW n \in Nat PROVE below(n) \in FiniteSubsetsOf(Nat)
    OBVIOUS
  <2>1. below(n) = 0..(n - 1)
    OBVIOUS
  <2>2. IsFiniteSet(0..(n - 1))
    BY FS_Interval
  <2> QED
    BY <2>1, <2>2 DEF FiniteSubsetsOf
<1>2. U \subseteq FiniteSubsetsOf(Nat) /\ U # {}
  BY <1>1
<1>3. IsWellFoundedOn(R, FiniteSubsetsOf(Nat))
  BY FS_StrictSubsetOrderingWellFounded
<1>4. PICK u \in U : \A v \in U : ~(<<v, u>> \in R)
  BY <1>2, <1>3, WFMin
<1>5. PICK x \in T : u = below(x)
  OBVIOUS
<1>6. ASSUME NEW y \in T, y < x
      PROVE  FALSE
  <2>1. below(y) \subseteq below(x) /\ below(y) # below(x)
    <3>1. y \in below(x) /\ y \notin below(y)
      BY <1>6
    <3> QED
      BY <1>6, <3>1
  <2>2. <<below(y), below(x)>> \in R
    BY <2>1 DEF StrictSubsetOrdering
  <2> QED
    BY <1>4, <1>5, <2>2
<1> QED
  BY <1>6

LEMMA FirstIn == \A S : S \subseteq Nat /\ S # {} => First(S) \in S
<1> SUFFICES ASSUME NEW S, S \subseteq Nat, S # {} PROVE First(S) \in S
  OBVIOUS
<1>1. \E x \in S : \A y \in S : x <= y
  BY Least
<1> QED
  BY <1>1 DEF First

LEMMA SteppedIn ==
  ASSUME NEW n \in Int, NEW delta \in Int, NEW len \in Nat
  PROVE  /\ Stepped(n, delta, len) \in Nat \ {0}
         /\ len # 0 => Stepped(n, delta, len) <= len
<1>1. CASE len = 0
  BY <1>1 DEF Stepped
<1>2. CASE len # 0
  BY <1>2 DEF Stepped
<1> QED
  BY <1>1, <1>2

LEMMA ToSetIn == \A T, s : s \in Seq(T) => ToSet(s) \subseteq T
BY DEF ToSet

-----------------------------------------------------------------------------
(* Lists                                                                   *)

Order(R, S) ==
  /\ \A x, y \in S : x # y => <<x, y>> \in R \/ <<y, x>> \in R
  /\ \A x, y, z \in S : <<x, y>> \in R /\ <<y, z>> \in R => <<x, z>> \in R

\* The least of some finite sets, by inclusion.
LEMMA LeastSet ==
  ASSUME NEW S, IsFiniteSet(S), NEW Bad, Bad \subseteq SUBSET S, Bad # {}
  PROVE  \E T \in Bad : \A U \in Bad : ~(U \subseteq T /\ U # T)
<1> DEFINE R == StrictSubsetOrdering(S)
<1>1. Bad \subseteq FiniteSubsetsOf(S)
  BY FS_Subset DEF FiniteSubsetsOf
<1>2. IsWellFoundedOn(R, FiniteSubsetsOf(S))
  BY FS_StrictSubsetOrderingWellFounded
<1>3. PICK T \in Bad : \A U \in Bad : ~(<<U, T>> \in R)
  BY <1>1, <1>2, WFMin
<1> QED
  BY <1>3 DEF StrictSubsetOrdering

\* A finite set has a last element in every order.
LEMMA HasLast ==
  ASSUME NEW S, IsFiniteSet(S), S # {}, NEW R, Order(R, S)
  PROVE  \E x \in S : \A y \in S \ {x} : <<y, x>> \in R
<1> DEFINE Greatest(T) == \E x \in T : \A y \in T \ {x} : <<y, x>> \in R
           Bad == {T \in SUBSET S : T # {} /\ ~Greatest(T)}
<1>1. SUFFICES ASSUME Bad # {} PROVE FALSE
  OBVIOUS
<1>2. PICK T \in Bad : \A U \in Bad : ~(U \subseteq T /\ U # T)
  <2> HIDE DEF Greatest
  <2>1. \E T \in Bad : \A U \in Bad : ~(U \subseteq T /\ U # T)
    <3>1. Bad \subseteq SUBSET S
      OBVIOUS
    <3> HIDE DEF Bad
    <3> QED
      BY <1>1, <3>1, LeastSet
  <2> QED
    BY <2>1
<1>3. PICK x \in T : TRUE
  OBVIOUS
<1> DEFINE U == T \ {x}
<1>4. U = {} \/ Greatest(U)
  <2>1. U \subseteq T /\ U # T
    BY <1>3
  <2> QED
    BY <1>2, <2>1
<1>5. CASE U = {}
  <2>1. \A y \in T \ {x} : <<y, x>> \in R
    BY <1>5
  <2> QED
    BY <1>2, <1>3, <2>1
<1>6. CASE Greatest(U)
  <2>1. PICK m \in U : \A y \in U \ {m} : <<y, m>> \in R
    BY <1>6
  <2>2. x # m /\ x \in S /\ m \in S /\ T \subseteq S
    BY <1>3, <2>1
  <2>3. CASE <<x, m>> \in R
    <3>1. \A y \in T \ {m} : <<y, m>> \in R
      BY <2>1, <2>3
    <3> QED
      BY <1>2, <2>1, <3>1
  <2>4. CASE <<m, x>> \in R
    <3>1. \A y \in T \ {x} : <<y, x>> \in R
      <4> SUFFICES ASSUME NEW y \in T \ {x}, y # m PROVE <<y, x>> \in R
        BY <2>4
      <4>1. <<y, m>> \in R /\ y \in S
        BY <2>1, <2>2
      <4> QED
        BY <2>2, <2>4, <4>1 DEF Order
    <3> QED
      BY <1>2, <1>3, <3>1
  <2> QED
    BY <2>2, <2>3, <2>4 DEF Order
<1> QED
  BY <1>4, <1>5, <1>6

Lists(S, R) == {s \in [1..Cardinality(S) -> S] :
                  \A n \in 2..Cardinality(S) : <<s[n - 1], s[n]>> \in R}

\* A finite set can be listed in every order.
LEMMA HasList ==
  ASSUME NEW S, IsFiniteSet(S), NEW R, Order(R, S)
  PROVE  Lists(S, R) # {}
<1> DEFINE Bad == {T \in SUBSET S : Lists(T, R) = {}}
<1>1. SUFFICES ASSUME Bad # {} PROVE FALSE
  OBVIOUS
<1>2. PICK T \in Bad : \A U \in Bad : ~(U \subseteq T /\ U # T)
  <2>1. \E T \in Bad : \A U \in Bad : ~(U \subseteq T /\ U # T)
    <3>1. Bad \subseteq SUBSET S
      OBVIOUS
    <3> HIDE DEF Bad
    <3> QED
      BY <1>1, <3>1, LeastSet
  <2> QED
    BY <2>1
<1>3. IsFiniteSet(T) /\ T \subseteq S
  BY <1>2, FS_Subset
<1>4. T # {}
  <2> SUFFICES ASSUME T = {} PROVE FALSE
    OBVIOUS
  <2>1. Cardinality(T) = 0
    BY FS_EmptySet
  <2>2. <<>> \in Lists(T, R)
    BY <2>1 DEF Lists
  <2> QED
    BY <1>2, <2>2
<1>5. Order(R, T)
  BY <1>3 DEF Order
<1>6. PICK x \in T : \A y \in T \ {x} : <<y, x>> \in R
  BY <1>3, <1>4, <1>5, HasLast
<1> DEFINE U == T \ {x}
           c == Cardinality(U)
<1>7. IsFiniteSet(U) /\ c \in Nat /\ Cardinality(T) = c + 1
  <2>1. IsFiniteSet(U)
    BY <1>3, FS_Subset
  <2>2. c = Cardinality(T) - 1 /\ Cardinality(T) \in Nat
    BY <1>3, <1>6, FS_RemoveElement, FS_CardinalityType
  <2> QED
    BY <2>1, <2>2, FS_CardinalityType
<1>8. PICK s : s \in Lists(U, R)
  <2>1. U \subseteq T /\ U # T /\ U \in SUBSET S
    BY <1>3, <1>6
  <2> QED
    BY <1>2, <2>1
<1> DEFINE t == [n \in 1..(c + 1) |-> IF n = c + 1 THEN x ELSE s[n]]
<1>9. s \in [1..c -> U] /\ \A n \in 2..c : <<s[n - 1], s[n]>> \in R
  BY <1>8 DEF Lists
<1> HIDE DEF c
<1>10. t \in [1..(c + 1) -> T]
  BY <1>6, <1>7, <1>9
<1>11. \A n \in 2..(c + 1) : <<t[n - 1], t[n]>> \in R
  <2> SUFFICES ASSUME NEW n \in 2..(c + 1) PROVE <<t[n - 1], t[n]>> \in R
    OBVIOUS
  <2>1. CASE n = c + 1
    <3>1. t[n] = x /\ t[n - 1] = s[c] /\ c \in 1..c
      BY <1>7, <2>1
    <3>2. s[c] \in T \ {x}
      BY <1>9, <3>1
    <3> QED
      BY <1>6, <3>1, <3>2
  <2>2. CASE n # c + 1
    <3>1. n \in 2..c /\ n - 1 \in 1..c
      BY <1>7, <2>2
    <3>2. t[n] = s[n] /\ t[n - 1] = s[n - 1]
      BY <1>7, <3>1
    <3> QED
      BY <1>9, <3>1, <3>2
  <2> QED
    BY <2>1, <2>2
<1>12. t \in Lists(T, R)
  <2> HIDE DEF t
  <2> QED
    BY <1>7, <1>10, <1>11 DEF Lists
<1> QED
  BY <1>2, <1>12

\* So what Sorted chooses there is a list of the set.
LEMMA SortedType ==
  ASSUME NEW S, IsFiniteSet(S), NEW R, Order(R, S)
  PROVE  Sorted(S, R) \in Seq(S)
<1>1. Sorted(S, R) \in Lists(S, R)
  <2>1. \E s \in [1..Cardinality(S) -> S] :
          \A n \in 2..Cardinality(S) : <<s[n - 1], s[n]>> \in R
    BY HasList DEF Lists
  <2> QED
    BY <2>1 DEF Sorted, Lists
<1>2. Cardinality(S) \in Nat
  BY FS_CardinalityType
<1> QED
  BY <1>1, <1>2 DEF Lists

LEMMA NumbersType ==
  ASSUME NEW S, S \subseteq Nat, IsFiniteSet(S)
  PROVE  Sorted(S, ById) \in Seq(S) /\ Sorted(S, NewestFirst) \in Seq(S)
<1>1. Order(ById, S) /\ Order(NewestFirst, S)
  BY DEF Order, ById, NewestFirst
<1> QED
  BY <1>1, SortedType

LEMMA LaneType == \A s \in Status : Lane(s) \in 1..4
BY DEF Lane, Status, Actionable, HumanGated, Terminal

LEMMA RankType == \A s \in Status : Rank(s) \in 1..16
<1> SUFFICES ASSUME NEW s \in Status PROVE Rank(s) \in 1..16
  OBVIOUS
<1>1. DOMAIN StatusOrder = 1..16
  BY DEF StatusOrder
<1>2. \E n \in 1..16 : StatusOrder[n] = s
  BY DEF StatusOrder, Status, Actionable, HumanGated, Terminal
<1> QED
  BY <1>1, <1>2 DEF Rank

LEMMA StatusViewType ==
  ASSUME NEW S, S \subseteq Issues, IsFiniteSet(S), NEW stat, \A i \in S : stat[i] \in Status
  PROVE  Sorted(S, ByStatus(stat)) \in Seq(S)
<1> DEFINE calm(k) == IF stat[k] \in Attention THEN 0 ELSE 1
           lane(k) == Lane(stat[k])
           rank(k) == Rank(stat[k])
<1>1. \A k \in S : calm(k) \in Nat /\ lane(k) \in Nat /\ rank(k) \in Nat /\ k \in Nat
  BY LaneType, RankType, ViewAssumption
<1> DEFINE Before(i, j) ==
        \/ calm(i) < calm(j)
        \/ calm(i) = calm(j) /\ lane(i) < lane(j)
        \/ calm(i) = calm(j) /\ lane(i) = lane(j) /\ rank(i) < rank(j)
        \/ calm(i) = calm(j) /\ lane(i) = lane(j) /\ rank(i) = rank(j) /\ i < j
<1>2. \A i, j \in S : <<i, j>> \in ByStatus(stat) <=> Before(i, j)
  BY DEF ByStatus
<1> HIDE DEF calm, lane, rank
<1>3. \A i, j \in S : i # j => Before(i, j) \/ Before(j, i)
  BY <1>1
<1>4. \A i, j, k \in S : Before(i, j) /\ Before(j, k) => Before(i, k)
  BY <1>1
<1> HIDE DEF Before
<1>5. Order(ByStatus(stat), S)
  BY <1>2, <1>3, <1>4 DEF Order
<1> QED
  BY <1>5, SortedType

\* Only keeps a list a list, of what is in the set.
LEMMA OnlyType ==
  ASSUME NEW s, NEW T, s \in Seq(T), NEW S
  PROVE  Only(s, S) \in Seq(T \cap S)
<1> DEFINE at == {n \in DOMAIN s : s[n] \in S}
           sorted(x) == Sorted(x, ById)
           places(x) == [n \in DOMAIN x |-> s[x[n]]]
           kept == sorted(at)
<1>1. at \subseteq Nat /\ IsFiniteSet(at)
  <2>1. at \subseteq 1..Len(s) /\ Len(s) \in Nat
    OBVIOUS
  <2>2. IsFiniteSet(1..Len(s))
    BY <2>1, FS_Interval
  <2> QED
    BY <2>1, <2>2, FS_Subset
<1>2. kept \in Seq(at)
  BY <1>1, NumbersType
<1>3. Only(s, S) = places(kept)
  <2>1. Only(s, S) = CHOOSE y \in {places(x) :
            x \in {CHOOSE z \in {sorted(x) : x \in {at}} : TRUE}} : TRUE
    BY DEF Only, Then
  <2>2. \A e : (CHOOSE z \in {sorted(x) : x \in {e}} : TRUE) = sorted(e)
    OBVIOUS
  <2>3. \A e : (CHOOSE z \in {places(x) : x \in {e}} : TRUE) = places(e)
    OBVIOUS
  <2> HIDE DEF at, sorted, places
  <2> QED
    BY <2>1, <2>2, <2>3
<1> HIDE DEF kept
<1>4. DOMAIN kept = 1..Len(kept) /\ Len(kept) \in Nat
  BY <1>2
<1>5. \A n \in 1..Len(kept) : s[kept[n]] \in T \cap S
  BY <1>2
<1> QED
  BY <1>3, <1>4, <1>5

\* Lists joined are a list.  FlattenSeq chooses a function defined by recursion
\* over the places of the list of lists; that there is one, and that it joins
\* lists to lists, each holds at the least place where it might not.
LEMMA FlattenType ==
  ASSUME NEW T, NEW ss \in Seq(Seq(T))
  PROVE  FlattenSeq(ss) \in Seq(T)
<1> DEFINE N == Len(ss)
           Step(g, i) == IF i = 1 THEN ss[i] ELSE g[i - 1] \o ss[i]
           Has(n) == \E g \in [1..n -> Seq(T)] : \A i \in 1..n : g[i] = Step(g, i)
           Bad == {n \in 1..N : ~Has(n)}
<1>1. N \in Nat /\ \A i \in 1..N : ss[i] \in Seq(T)
  OBVIOUS
<1>2. CASE N = 0
  <2>1. FlattenSeq(ss) = ss /\ ss = <<>>
    BY <1>2 DEF FlattenSeq
  <2> QED
    BY <2>1
<1>3. CASE N # 0
  <2>1. Bad = {}
    <3>1. SUFFICES ASSUME Bad # {} PROVE FALSE
      OBVIOUS
    <3>2. PICK n \in Bad : \A m \in Bad : n <= m
      <4>1. Bad \subseteq Nat
        OBVIOUS
      <4> HIDE DEF Bad
      <4> QED
        BY <3>1, <4>1, Least
    <3>3. n # 1
      <4> SUFFICES ASSUME n = 1 PROVE FALSE
        OBVIOUS
      <4> DEFINE g == [i \in 1..1 |-> ss[i]]
      <4>1. g \in [1..1 -> Seq(T)] /\ \A i \in 1..1 : g[i] = Step(g, i)
        BY <1>1, <1>3
      <4>2. Has(1)
        <5> HIDE DEF g
        <5> QED
          BY <4>1
      <4> QED
        BY <3>2, <4>2
    <3>4. n - 1 \in 1..N /\ n \in 1..N /\ n - 1 \notin Bad
      <4>1. n \in 1..N
        BY <3>2
      <4>2. n - 1 \in 1..N /\ ~(n <= n - 1)
        BY <1>1, <3>3, <4>1
      <4> HIDE DEF Bad
      <4> QED
        BY <3>2, <4>1, <4>2
    <3>5. PICK f \in [1..(n - 1) -> Seq(T)] : \A i \in 1..(n - 1) : f[i] = Step(f, i)
      BY <3>4
    <3> DEFINE g == [i \in 1..n |-> IF i = n THEN f[n - 1] \o ss[n] ELSE f[i]]
    <3>6. g \in [1..n -> Seq(T)]
      BY <1>1, <3>4, <3>5
    <3>7. \A i \in 1..n : g[i] = Step(g, i)
      <4> SUFFICES ASSUME NEW i \in 1..n PROVE g[i] = Step(g, i)
        OBVIOUS
      <4>1. CASE i = n
        <5>1. n \in 1..n /\ n - 1 \in 1..n /\ n - 1 # n
          <6> HIDE DEF Bad
          <6> QED
            BY <1>1, <3>4
        <5>2. g[n] = f[n - 1] \o ss[n] /\ g[n - 1] = f[n - 1]
          BY <5>1
        <5> QED
          BY <3>3, <4>1, <5>1, <5>2
      <4>2. CASE i # n
        <5>1. i \in 1..(n - 1) /\ (i # 1 => i - 1 \in 1..(n - 1))
          BY <3>4, <4>2
        <5>2. g[i] = f[i]
          BY <4>2
        <5>3. i # 1 => g[i - 1] = f[i - 1]
          <6>1. i # 1 => i - 1 \in 1..n /\ i - 1 # n
            BY <3>4, <5>1
          <6> QED
            BY <6>1
        <5> QED
          BY <3>5, <5>1, <5>2, <5>3
      <4> QED
        BY <4>1, <4>2
    <3>8. Has(n)
      <4> HIDE DEF g
      <4> QED
        BY <3>6, <3>7
    <3> QED
      BY <3>2, <3>8
  <2>2. PICK g \in [1..N -> Seq(T)] : \A i \in 1..N : g[i] = Step(g, i)
    <3>1. N \in 1..N
      BY <1>1, <1>3
    <3> QED
      BY <2>1, <3>1
  <2> DEFINE flat == CHOOSE h : h = [i \in 1..N |-> IF i = 1 THEN ss[i] ELSE h[i - 1] \o ss[i]]
  <2>3. FlattenSeq(ss) = flat[N]
    BY <1>3 DEF FlattenSeq
  <2> DEFINE P(h) == h = [i \in 1..N |-> IF i = 1 THEN ss[i] ELSE h[i - 1] \o ss[i]]
  <2>4. P(flat)
    <3>1. P(g)
      BY <2>2
    <3>2. flat = CHOOSE h : P(h)
      OBVIOUS
    <3> HIDE DEF P, flat
    <3> QED
      BY <3>1, <3>2
  <2> HIDE DEF flat
  <2> DEFINE Wrong == {i \in 1..N : flat[i] \notin Seq(T)}
  <2>5. Wrong = {}
    <3>1. SUFFICES ASSUME Wrong # {} PROVE FALSE
      OBVIOUS
    <3>2. PICK n \in Wrong : \A m \in Wrong : n <= m
      <4>1. Wrong \subseteq Nat
        OBVIOUS
      <4> HIDE DEF Wrong
      <4> QED
        BY <3>1, <4>1, Least
    <3>3. CASE n = 1
      BY <1>1, <2>4, <3>2, <3>3
    <3>4. CASE n # 1
      <4>1. n - 1 \in 1..N /\ n - 1 \notin Wrong
        <5>1. n \in 1..N
          BY <3>2
        <5>2. n - 1 \in 1..N /\ ~(n <= n - 1)
          BY <1>1, <3>4, <5>1
        <5> HIDE DEF Wrong
        <5> QED
          BY <3>2, <5>2
      <4>2. flat[n] = flat[n - 1] \o ss[n]
        BY <2>4, <3>2, <3>4
      <4>3. flat[n - 1] \in Seq(T) /\ ss[n] \in Seq(T)
        BY <1>1, <3>2, <4>1
      <4>4. flat[n] \in Seq(T)
        BY <4>2, <4>3
      <4> QED
        BY <3>2, <4>4
    <3> QED
      BY <3>3, <3>4
  <2> QED
    BY <1>1, <1>3, <2>3, <2>5
<1> QED
  BY <1>2, <1>3

LEMMA SwapIn ==
  ASSUME NEW T, NEW s \in Seq(T), NEW i \in ToSet(s), NEW delta \in {-1, 1}
  PROVE  Swap(s, i, delta) \in Seq(T) /\ ToSet(Swap(s, i, delta)) \subseteq ToSet(s)
<1> DEFINE at == CHOOSE n \in DOMAIN s : s[n] = i
           to == Stepped(at, delta, Len(s))
<1>1. at \in DOMAIN s /\ s[at] = i
  BY DEF ToSet
<1> HIDE DEF at
<1>2. DOMAIN s = 1..Len(s) /\ Len(s) \in Nat
  OBVIOUS
<1>3. to \in DOMAIN s
  <2>1. Len(s) # 0 /\ at \in Int /\ delta \in Int
    BY <1>1, <1>2
  <2>2. to \in Nat \ {0} /\ to <= Len(s)
    BY <1>2, <2>1, SteppedIn
  <2> QED
    BY <1>2, <2>2
<1>4. Swap(s, i, delta) = [s EXCEPT ![at] = s[to], ![to] = i]
  BY DEF Swap, at
<1> HIDE DEF to
<1> DEFINE t == [s EXCEPT ![at] = s[to], ![to] = i]
<1>5. DOMAIN t = DOMAIN s /\ \A n \in DOMAIN s : t[n] \in {s[n], s[to], s[at]}
  BY <1>1, <1>3
<1>6. t = [n \in 1..Len(s) |-> t[n]]
  BY <1>2
<1> HIDE DEF t
<1>7. \A n \in 1..Len(s) : t[n] \in T
  BY <1>1, <1>2, <1>3, <1>5
<1>8. t \in Seq(T)
  <2>1. [n \in 1..Len(s) |-> t[n]] \in Seq(T)
    BY <1>2, <1>7
  <2> QED
    BY <1>6, <2>1
<1>9. ToSet(t) \subseteq ToSet(s)
  BY <1>1, <1>3, <1>5 DEF ToSet
<1> QED
  BY <1>4, <1>8, <1>9 DEF t

-----------------------------------------------------------------------------
(* What the handlers come to, and which fields they may touch              *)

\* The fields of the console, and that at most those in S differ.
Fields == DOMAIN NewUi
Same(u, v, S) == /\ DOMAIN u = Fields => DOMAIN v = Fields
                 /\ DOMAIN u = Fields => \A f \in Fields \ S : v[f] = u[f]

LEMMA KeyFrame == Same(ui, Key(ui), {"pending"})
BY DEF Same, Fields, NewUi, Key

LEMMA SyncActiveIs ==
  ASSUME NEW u
  PROVE  SyncActive(u) =
           LET at == {n \in DOMAIN u.projects : u.projects[n] = TreeItem(u).project}
           IN IF at = {} THEN u ELSE [u EXCEPT !.proj = First(at)]
BY DEF SyncActive, Then

LEMMA SyncActiveFrame == ASSUME NEW u PROVE Same(u, SyncActive(u), {"proj"})
BY SyncActiveIs DEF Same, Fields, NewUi

LEMMA ClampTreeFrame == ASSUME NEW u PROVE Same(u, ClampTree(u), {"sel"})
BY DEF Same, Fields, NewUi, ClampTree

LEMMA SelectTreeIs ==
  ASSUME NEW u, NEW k, NEW i
  PROVE  LET test(row) ==
               row.kind = k /\ (IF k = "project" THEN row.project ELSE row.id) = i
             at == RowIndexes(u, test)
         IN  SelectTree(u, k, i) =
               SyncActive(IF at = {} THEN u ELSE [u EXCEPT !.sel = First(at)])
<1> DEFINE test(row) ==
             row.kind = k /\ (IF k = "project" THEN row.project ELSE row.id) = i
           to(at) == IF at = {} THEN u ELSE [u EXCEPT !.sel = First(at)]
<1>1. \A R : (CHOOSE w \in {to(v) : v \in {R}} : TRUE) = to(R)
  OBVIOUS
<1>2. \A v : (CHOOSE w \in {SyncActive(x) : x \in {v}} : TRUE) = SyncActive(v)
  OBVIOUS
<1>3. SelectTree(u, k, i) = CHOOSE w \in {SyncActive(x) :
        x \in {CHOOSE w \in {to(v) : v \in {RowIndexes(u, test)}} : TRUE}} : TRUE
  BY DEF SelectTree, SelectRow, Then
<1> QED
  BY <1>1, <1>2, <1>3

LEMMA SelectTreeFrame ==
  ASSUME NEW u, NEW k, NEW i
  PROVE  Same(u, SelectTree(u, k, i), {"sel", "proj"})
<1> DEFINE test(row) ==
             row.kind = k /\ (IF k = "project" THEN row.project ELSE row.id) = i
           at == RowIndexes(u, test)
           v == IF at = {} THEN u ELSE [u EXCEPT !.sel = First(at)]
<1>1. SelectTree(u, k, i) = SyncActive(v)
  BY SelectTreeIs
<1>2. Same(u, v, {"sel"})
  BY DEF Same, Fields, NewUi
<1>3. Same(v, SyncActive(v), {"proj"})
  BY SyncActiveFrame
<1> QED
  <2> HIDE DEF v
  <2> QED
    BY <1>1, <1>2, <1>3 DEF Same

\* PreserveIssue with the rows of the tree and the places of the issue named.
Unfolded(u, p, i) ==
  [u EXCEPT !.expanded = @ \cup {p},
            !.archive = IF i \in ToSet(u.kids[p].archived) THEN @ \cup {p} ELSE @]
ItemIn(u, p, i) ==
  Item(IF i \in ToSet(u.kids[p].archived) THEN "archived" ELSE "issue", p, i)
Places(w, item) == {n \in DOMAIN TreeRows(w) : TreeRows(w)[n] = item}

LEMMA PreserveIssueIs ==
  ASSUME NEW u, NEW p, NEW i
  PROVE  PreserveIssue(u, p, i) =
           IF i \notin ToSet(u.kids[p].live) \cup ToSet(u.kids[p].archived) THEN u
           ELSE LET w == Unfolded(u, p, i)
                    at == Places(w, ItemIn(u, p, i))
                IN IF at = {} THEN w ELSE SyncActive([w EXCEPT !.sel = First(at)])
<1> DEFINE item == ItemIn(u, p, i)
           v == Unfolded(u, p, i)
           test(row) == row = item
           to(w, at) == IF at = {} THEN w ELSE [w EXCEPT !.sel = First(at)]
           rows(w) == RowIndexes(w, test)
           select(w) == CHOOSE z \in {SyncActive(x) :
                          x \in {CHOOSE y \in {to(w, a) : a \in {rows(w)}} : TRUE}} : TRUE
           step(w) == IF rows(w) = {} THEN w ELSE select(w)
<1>1. \A w : rows(w) = Places(w, item)
  BY DEF RowIndexes, Then, Places
<1>2. \A w, R : (CHOOSE y \in {to(w, a) : a \in {R}} : TRUE) = to(w, R)
  OBVIOUS
<1>3. \A x : (CHOOSE z \in {SyncActive(y) : y \in {x}} : TRUE) = SyncActive(x)
  OBVIOUS
<1>4. \A w : select(w) = SyncActive(to(w, rows(w)))
  <2> SUFFICES ASSUME NEW w PROVE select(w) = SyncActive(to(w, rows(w)))
    OBVIOUS
  <2> DEFINE moved == CHOOSE y \in {to(w, a) : a \in {rows(w)}} : TRUE
  <2>1. moved = to(w, rows(w))
    <3> HIDE DEF rows
    <3> QED
      BY <1>2
  <2>2. select(w) = CHOOSE z \in {SyncActive(y) : y \in {moved}} : TRUE
    OBVIOUS
  <2> HIDE DEF moved, select, rows
  <2> QED
    BY <1>3, <2>1, <2>2
<1>5. (CHOOSE y \in {step(w) : w \in {v}} : TRUE) = step(v)
  <2> HIDE DEF step
  <2> QED
    OBVIOUS
<1>6. i \in ToSet(u.kids[p].live) \cup ToSet(u.kids[p].archived)
      => PreserveIssue(u, p, i) = CHOOSE y \in {step(w) : w \in {v}} : TRUE
  BY DEF PreserveIssue, SelectRow, Then, Unfolded, ItemIn
<1>7. i \notin ToSet(u.kids[p].live) \cup ToSet(u.kids[p].archived) => PreserveIssue(u, p, i) = u
  BY DEF PreserveIssue
<1> QED
  BY <1>1, <1>4, <1>5, <1>6, <1>7

LEMMA PreserveIssueFrame ==
  ASSUME NEW u, NEW p, NEW i
  PROVE  Same(u, PreserveIssue(u, p, i), {"expanded", "archive", "sel", "proj"})
<1> DEFINE w == Unfolded(u, p, i)
           at == Places(w, ItemIn(u, p, i))
           v == [w EXCEPT !.sel = First(at)]
<1>1. Same(u, w, {"expanded", "archive"})
  BY DEF Same, Fields, NewUi, Unfolded
<1>2. PreserveIssue(u, p, i) \in {u, w, SyncActive(v)}
  BY PreserveIssueIs
<1> HIDE DEF w
<1>3. Same(w, v, {"sel"})
  BY DEF Same, Fields, NewUi
<1>4. Same(v, SyncActive(v), {"proj"})
  BY SyncActiveFrame
<1> QED
  <2> HIDE DEF v
  <2> QED
    BY <1>1, <1>2, <1>3, <1>4 DEF Same

LEMMA RefreshChildrenFrame ==
  ASSUME NEW u, NEW d, NEW p
  PROVE  Same(u, RefreshChildren(u, d, p), {"kids"})
BY DEF Same, Fields, NewUi, RefreshChildren

LEMMA RefreshActiveFrame ==
  ASSUME NEW u, NEW d
  PROVE  Same(u, RefreshActive(u, d), {"kids"})
BY RefreshChildrenFrame DEF RefreshActive

LEMMA RefreshIssuesIs ==
  ASSUME NEW u, NEW d
  PROVE  RefreshIssues(u, d) =
           IF IsIssue(TreeItem(u))
           THEN PreserveIssue(RefreshActive(u, d), TreeItem(u).project, TreeItem(u).id)
           ELSE RefreshActive(u, d)
BY DEF RefreshIssues, Then

LEMMA RefreshIssuesFrame ==
  ASSUME NEW u, NEW d
  PROVE  Same(u, RefreshIssues(u, d), {"kids", "expanded", "archive", "sel", "proj"})
<1> DEFINE v == RefreshActive(u, d)
<1>1. Same(u, v, {"kids"})
  BY RefreshChildrenFrame DEF RefreshActive
<1>2. RefreshIssues(u, d) \in {v, PreserveIssue(v, TreeItem(u).project, TreeItem(u).id)}
  BY RefreshIssuesIs
<1>3. Same(v, PreserveIssue(v, TreeItem(u).project, TreeItem(u).id),
           {"expanded", "archive", "sel", "proj"})
  BY PreserveIssueFrame
<1> QED
  BY <1>1, <1>2, <1>3 DEF Same

LEMMA RefreshActivityFrame == ASSUME NEW u PROVE Same(u, RefreshActivity(u), {"activity"})
BY DEF Same, Fields, NewUi, RefreshActivity

\* The detail with the issue i asked for.
Loaded(u, d, i) ==
  [u EXCEPT !.detail = IF d.issue[i] # Absent THEN i ELSE None,
            !.detailStatus = d.issue[i]]

\* The detail with none.
Unloaded(u) == [u EXCEPT !.detail = None, !.detailStatus = Absent, !.runs = None]

LEMMA RefreshDetailIs ==
  ASSUME NEW u, NEW d
  PROVE  RefreshDetail(u, d) =
           IF SelectedIssue(u) # None THEN RefreshRuns(Loaded(u, d, SelectedIssue(u)))
           ELSE Unloaded(u)
BY DEF RefreshDetail, Then, Loaded, Unloaded

LEMMA RefreshDetailFrame ==
  ASSUME NEW u, NEW d
  PROVE  Same(u, RefreshDetail(u, d), {"detail", "detailStatus", "runs"})
<1> DEFINE i == SelectedIssue(u)
           v == Loaded(u, d, i)
           w == Unloaded(u)
<1>1. RefreshDetail(u, d) \in {RefreshRuns(v), w}
  BY RefreshDetailIs
<1>2. Same(u, v, {"detail", "detailStatus"})
  <2> HIDE DEF i
  <2> QED
    BY DEF Same, Fields, NewUi, Loaded
<1>3. Same(u, w, {"detail", "detailStatus", "runs"})
  BY DEF Same, Fields, NewUi, Unloaded
<1> HIDE DEF v, w
<1>4. Same(v, RefreshRuns(v), {"runs"})
  <2> DEFINE r == SelectedIssue(v)
  <2>1. RefreshRuns(v) = [v EXCEPT !.runs = r]
    BY DEF RefreshRuns
  <2> HIDE DEF r
  <2> QED
    BY <2>1 DEF Same, Fields, NewUi
<1> QED
  BY <1>1, <1>2, <1>3, <1>4 DEF Same

\* RefreshAll, without Then.
RefreshedAll(u, d) ==
  LET v == RefreshProjects(u, d)
      w == [v EXCEPT !.kids = [p \in Projects |->
              IF p \in ToSet(d.projects) THEN Children(d, p) ELSE @[p]]]
  IN RefreshActivity(RefreshDetail(SyncActive(ClampTree(w)), d))

LEMMA RefreshAllIs ==
  ASSUME NEW u, NEW d
  PROVE  RefreshAll(u, d) = RefreshedAll(u, d)
<1> DEFINE v == RefreshProjects(u, d)
           w == [v EXCEPT !.kids = [p \in Projects |->
                   IF p \in ToSet(d.projects) THEN Children(d, p) ELSE @[p]]]
           detail(x) == RefreshActivity(RefreshDetail(x, d))
<1>1. \A x : (CHOOSE z \in {ClampTree(y) : y \in {x}} : TRUE) = ClampTree(x)
  OBVIOUS
<1>2. \A x : (CHOOSE z \in {SyncActive(y) : y \in {x}} : TRUE) = SyncActive(x)
  OBVIOUS
<1>3. \A x : (CHOOSE z \in {detail(y) : y \in {x}} : TRUE) = detail(x)
  OBVIOUS
<1>4. RefreshAll(u, d) =
        CHOOSE a \in {detail(x) : x \in {CHOOSE b \in {SyncActive(y) : y \in {
          CHOOSE c \in {ClampTree(z) : z \in {w}} : TRUE}} : TRUE}} : TRUE
  BY DEF RefreshAll, Then
<1> QED
  BY <1>1, <1>2, <1>3, <1>4 DEF RefreshedAll

LEMMA RefreshProjectsFrame ==
  ASSUME NEW u, NEW d
  PROVE  Same(u, RefreshProjects(u, d), {"projects", "proj", "kids", "expanded", "archive"})
<1> DEFINE gone == {p \in Projects : p \notin ToSet(d.projects)}
           cursor == IF u.proj > Len(d.projects) THEN Stepped(u.proj, 0, Len(d.projects))
                     ELSE u.proj
           kids == [p \in Projects |-> IF p \in gone THEN NoChildren ELSE u.kids[p]]
           v == [u EXCEPT !.projects = d.projects, !.proj = cursor, !.kids = kids,
                          !.expanded = @ \ gone, !.archive = @ \ gone]
<1>1. RefreshProjects(u, d) \in {v, [v EXCEPT !.expanded = ToSet(d.projects)]}
  BY DEF RefreshProjects
<1> HIDE DEF gone, cursor, kids
<1>2. Same(u, v, {"projects", "proj", "kids", "expanded", "archive"})
  BY DEF Same, Fields, NewUi
<1> HIDE DEF v
<1>3. Same(v, [v EXCEPT !.expanded = ToSet(d.projects)], {"expanded"})
  BY DEF Same, Fields, NewUi
<1> QED
  BY <1>1, <1>2, <1>3 DEF Same

LEMMA MoveRowFrame ==
  ASSUME NEW u, NEW delta
  PROVE  Same(u, MoveRow(u, delta), {"kids", "sel", "proj"})
<1> DEFINE item == TreeItem(u)
<1> HIDE DEF item
<1>1. CASE item.kind = "backlog"
  <2> DEFINE v == [u EXCEPT !.kids[item.project].backlog = Swap(@, item.id, delta)]
  <2>1. MoveRow(u, delta) = SelectTree(v, "backlog", item.id)
    BY <1>1 DEF MoveRow, item
  <2>2. Same(u, v, {"kids"})
    BY DEF Same, Fields, NewUi
  <2> HIDE DEF v
  <2> QED
    BY <2>1, <2>2, SelectTreeFrame DEF Same
<1>2. CASE item.kind = "issue"
  <2> DEFINE v == [u EXCEPT !.kids[item.project].live = Swap(@, item.id, delta)]
  <2>1. MoveRow(u, delta) = SelectTree(v, "issue", item.id)
    BY <1>2 DEF MoveRow, item
  <2>2. Same(u, v, {"kids"})
    BY DEF Same, Fields, NewUi
  <2> HIDE DEF v
  <2> QED
    BY <2>1, <2>2, SelectTreeFrame DEF Same
<1>3. CASE item.kind \notin {"backlog", "issue"}
  BY <1>3 DEF MoveRow, item, Same
<1> QED
  BY <1>1, <1>2, <1>3

LEMMA MoveSectionFrame ==
  ASSUME NEW u, NEW delta
  PROVE  Same(u, MoveSection(u, delta), {"section"})
<1> DEFINE at == CHOOSE n \in DOMAIN Sections : Sections[n] = u.section
           s == Sections[Stepped(at, delta, Len(Sections))]
<1>1. MoveSection(u, delta) = [u EXCEPT !.section = s]
  BY DEF MoveSection
<1> HIDE DEF s
<1> QED
  BY <1>1 DEF Same, Fields, NewUi

LEMMA FoldedFrame ==
  ASSUME NEW u, NEW open
  PROVE  Same(u, Folded(u, open), {"expanded", "archive", "sel", "proj"})
<1> DEFINE item == TreeItem(u)
           p == item.project
           set(S) == IF open THEN S \cup {p} ELSE S \ {p}
           v1 == [u EXCEPT !.expanded = set(@)]
           v2 == [u EXCEPT !.archive = set(@), !.expanded = IF open THEN @ \cup {p} ELSE @]
<1>1. Folded(u, open) \in {u, SyncActive(ClampTree(v1)), SyncActive(ClampTree(v2))}
  <2> HIDE DEF item
  <2>1. CASE item.kind \in Roots
    BY <2>1 DEF Folded, item
  <2>2. CASE item.kind = "archive"
    BY <2>2 DEF Folded, Roots, item
  <2>3. CASE item.kind \notin Roots \cup {"archive"}
    BY <2>3 DEF Folded, item
  <2> QED
    BY <2>1, <2>2, <2>3
<1> HIDE DEF set
<1>2. Same(u, v1, {"expanded", "archive"}) /\ Same(u, v2, {"expanded", "archive"})
  BY DEF Same, Fields, NewUi
<1> HIDE DEF v1, v2
<1>3. \A v : Same(u, v, {"expanded", "archive"})
         => Same(u, SyncActive(ClampTree(v)), {"expanded", "archive", "sel", "proj"})
  BY ClampTreeFrame, SyncActiveFrame DEF Same
<1> QED
  BY <1>1, <1>2, <1>3 DEF Same

LEMMA ClampKanbanFrame == ASSUME NEW u PROVE Same(u, ClampKanban(u), {"card"})
<1> DEFINE n == Stepped(u.card, 0, Len(Cards(u, u.lane)))
<1>1. ClampKanban(u) = [u EXCEPT !.card = n]
  BY DEF ClampKanban
<1> HIDE DEF n
<1> QED
  BY <1>1 DEF Same, Fields, NewUi

LEMMA DeletedRefreshFrame ==
  ASSUME NEW u, NEW d
  PROVE  Same(u, DeletedRefresh(u, d), {"kids", "expanded", "archive", "sel", "proj"})
<1>1. DeletedRefresh(u, d) \in {RefreshActive(u, d), RefreshActive(RefreshIssues(u, d), d)}
  BY DEF DeletedRefresh
<1>2. Same(u, RefreshIssues(u, d), {"kids", "expanded", "archive", "sel", "proj"})
  BY RefreshIssuesFrame
<1>3. \A v : Same(v, RefreshActive(v, d), {"kids"})
  BY RefreshActiveFrame
<1> QED
  BY <1>1, <1>2, <1>3 DEF Same

-----------------------------------------------------------------------------
(* Where one can be                                                        *)

\* Where one can be: the detail, the board and the project are of the overview.
PlaceOK(u) ==
  /\ DOMAIN u = Fields
  /\ u.back \in {"Left", "ProjectKanban"}
  /\ u.view \in {"Overview", "Logs", "Ask", "Config"}
  /\ u.focus \in {"Left", "ProjectDetail", "ProjectKanban", "IssueDetail", "Settings"}
  /\ u.focus = "Settings" => u.view = "Config"
  /\ u.focus \in {"ProjectDetail", "ProjectKanban", "IssueDetail"} => u.view = "Overview"

-----------------------------------------------------------------------------
(* What a turn of the loop comes to                                        *)

\* What comes after an event about an issue, when the rows are loaded again.
Again(u, v, i) == IF IsIssue(TreeItem(u)) /\ TreeItem(u).id = i THEN Reselected(v, i) ELSE v

LEMMA HandledIs ==
  ASSUME NEW u, NEW d, NEW e, e.kind \in {"status", "rows"}
  PROVE  LET v == RefreshIssues(u, d)
             w == IF e.kind = "status" THEN Again(u, v, e.id) ELSE v
         IN  Handled(u, d, e) = RefreshActivity(RefreshDetail(w, d))
<1> DEFINE v == RefreshIssues(u, d)
           again(x) == Again(u, x, e.id)
           end(x) == RefreshActivity(RefreshDetail(x, d))
<1>1. CASE e.kind = "status"
  <2>1. \A x : (CHOOSE z \in {again(y) : y \in {x}} : TRUE) = again(x)
    <3> HIDE DEF again
    <3> QED
      OBVIOUS
  <2>2. \A x : (CHOOSE z \in {end(y) : y \in {x}} : TRUE) = end(x)
    <3> HIDE DEF end
    <3> QED
      OBVIOUS
  <2>3. Handled(u, d, e)
          = CHOOSE z \in {end(y) : y \in {CHOOSE b \in {again(x) : x \in {v}} : TRUE}} : TRUE
    BY <1>1 DEF Handled, Then, Again
  <2> HIDE DEF again, end
  <2>4. Handled(u, d, e) = end(again(v))
    BY <2>1, <2>2, <2>3
  <2> QED
    BY <1>1, <2>4 DEF again, end
<1>2. CASE e.kind = "rows"
  BY <1>2 DEF Handled, Then
<1> QED
  BY <1>1, <1>2

LEMMA PolledIs ==
  LET rows == IF ui.move \/ Active(ui) = None THEN ui
              ELSE RefreshActivity(RefreshActive(ui, db))
  IN  Polled(ui, db) \in {ui, rows, RefreshDetail(rows, db)}
<1> DEFINE rows == IF ui.move \/ Active(ui) = None THEN ui
                   ELSE RefreshActivity(RefreshActive(ui, db))
           end(v) == IF v.focus = "IssueDetail" \/ SelectedStatus(v) # Absent
                     THEN RefreshDetail(v, db) ELSE v
<1>1. (CHOOSE w \in {end(v) : v \in {rows}} : TRUE) = end(rows)
  <2> HIDE DEF end
  <2> QED
    OBVIOUS
<1>2. Polled(ui, db) = IF ui.view # "Overview" THEN ui
                       ELSE CHOOSE w \in {end(v) : v \in {rows}} : TRUE
  BY DEF Polled, Then
<1> QED
  BY <1>1, <1>2

\* The order of the projects, as the daemon keeps it when one is moved.
Reordered(d, p, delta) ==
  [d EXCEPT !.projects = IF p \in ToSet(d.projects) THEN Swap(d.projects, p, delta)
                         ELSE d.projects]

\* j and k: what is shown next, and how the daemon orders the projects then.
LEMMA KeyVerticalIs ==
  ASSUME PlaceOK(ui), NEW delta, KeyVertical(delta)
  PROVE  LET u == Key(ui)
             d == Reordered(db, Active(u), delta)
         IN  /\ \/ ui' \in {ui, u, MoveRow(u, delta), MoveSection(u, delta),
                            MoveSel(u, delta),
                            [u EXCEPT !.card = Stepped(@, delta, Len(Cards(u, u.lane)))]}
                \/ ui' = SelectTree(RefreshProjects(u, d), "project", Active(u))
             /\ db' \in {db, d} /\ session' \in {session, "exited"}
<1> DEFINE u == Key(ui)
           moved == u.move /\ TreeItem(u).kind = "project" /\ Active(u) # None
           n == Reordered(db, Active(u), delta)
           d == IF moved THEN n ELSE db
           r == SelectTree(RefreshProjects(u, d), "project", Active(u))
           c == [u EXCEPT !.card = Stepped(@, delta, Len(Cards(u, u.lane)))]
           a1 == Local(u)
           a2 == Asking(r)
           a3 == Local(MoveRow(u, delta))
           a4 == Local(c)
           a5 == Local(MoveSection(u, delta))
           a6 == Asking(MoveSel(u, delta))
<1>1. (CASE u.view = "Config" -> a1
        [] u.view # "Config" /\ moved -> a2
        [] u.view # "Config" /\ u.move /\ ~moved -> a3
        [] u.view # "Config" /\ ~u.move ->
             CASE u.focus = "ProjectKanban" -> a4
               [] u.focus = "ProjectDetail" -> a5
               [] u.focus = "IssueDetail" -> a1
               [] u.focus = "Left" -> a6)
  BY DEF KeyVertical, Reordered
<1>2. db' \in {db, n}
  BY DEF KeyVertical, Reordered
<1>3. a1 \/ (moved /\ a2) \/ a3 \/ a4 \/ a5 \/ a6
  <2>1. PlaceOK(u)
    BY DEF PlaceOK, Key, Fields, NewUi
  <2> DEFINE inConfig == u.view = "Config"
  <2>2. ~inConfig => u.focus \in {"Left", "ProjectDetail", "ProjectKanban", "IssueDetail"}
    BY <2>1 DEF PlaceOK
  <2> HIDE DEF a1, a2, a3, a4, a5, a6, u
  <2>4. CASE inConfig
    BY <1>1, <2>4
  <2>5. CASE ~inConfig /\ u.move
    BY <1>1, <2>5
  <2>6. CASE ~inConfig /\ ~u.move
    BY <1>1, <2>2, <2>6
  <2> QED
    BY <2>4, <2>5, <2>6
<1>4. moved => d = n
  OBVIOUS
<1> HIDE DEF u, c, n, d, moved
<1>5. moved /\ a2 => ui' \in {ui, SelectTree(RefreshProjects(u, n), "project", Active(u))}
  BY <1>4 DEF Asking
<1>6. a1 \/ a2 \/ a3 \/ a4 \/ a5 \/ a6 => session' \in {session, "exited"}
  BY DEF Asking, Local
<1>7. a1 \/ a3 \/ a4 \/ a5 \/ a6
      => ui' \in {ui, u, MoveRow(u, delta), MoveSection(u, delta), MoveSel(u, delta), c}
  BY DEF Asking, Local
<1> HIDE DEF a1, a2, a3, a4, a5, a6
<1>8. \/ ui' \in {ui, u, MoveRow(u, delta), MoveSection(u, delta), MoveSel(u, delta), c}
      \/ ui' = SelectTree(RefreshProjects(u, n), "project", Active(u))
  BY <1>3, <1>5, <1>7
<1> QED
  BY <1>2, <1>3, <1>6, <1>8 DEF u, c, n

\* h and l.
LEMMA KeyHorizontalIs ==
  ASSUME NEW delta, KeyHorizontal(delta)
  PROVE  LET u == Key(ui)
         IN  ui' \in {u, Folded(u, delta = 1), MoveSection(u, delta),
                      ClampKanban([u EXCEPT !.lane = Stepped(@, delta, 4)]),
                      [u EXCEPT !.mode = "Selected"]}
<1> DEFINE u == Key(ui)
           fold == Folded(u, delta = 1)
           board == ClampKanban([u EXCEPT !.lane = Stepped(@, delta, 4)])
           section == MoveSection(u, delta)
           mode == [u EXCEPT !.mode = "Selected"]
           b1 == u.focus = "Left" /\ u.view = "Overview"
           b2 == u.focus = "ProjectKanban"
           b3 == u.focus = "ProjectDetail"
           b4 == u.focus = "IssueDetail"
<1>1. ui' = CASE u.move -> u
              [] ~u.move /\ u.focus = "Left" /\ u.view = "Overview" -> fold
              [] ~u.move /\ b2 -> board
              [] ~u.move /\ b3 -> section
              [] ~u.move /\ b4 -> mode
              [] OTHER -> u
  BY DEF KeyHorizontal, Local
<1> HIDE DEF u, fold, board, section, mode
<1>2. ui' \in {u, fold, board, section, mode}
  BY <1>1
<1> QED
  BY <1>2 DEF u, fold, board, section, mode

\* Enter.
LEMMA KeyEnterIs ==
  ASSUME KeyEnter
  PROVE  LET u == Key(ui)
         IN  /\ \/ ui' \in {ui, u, [u EXCEPT !.mode = "Active"]}
                \/ /\ u.focus = "ProjectDetail"
                   /\ ui' = ClampKanban([u EXCEPT !.focus = "ProjectKanban"])
                \/ u.view = "Overview" /\ ui' = Drill(u, db)
             /\ session' \in {session, "exited"}
<1> DEFINE u == Key(ui)
           mode == [u EXCEPT !.mode = "Active"]
           board == ClampKanban([u EXCEPT !.focus = "ProjectKanban"])
           a1 == Local(mode)
           a2 == Local(IF u.section = "Kanban" THEN board ELSE u)
           a3 == Asking(Drill(u, db))
           a4 == Local(u)
           offered == "drill" \in Offers(u)
<1>1. (CASE u.focus = "IssueDetail" -> a1
        [] u.focus = "ProjectDetail" -> a2
        [] u.focus \notin {"IssueDetail", "ProjectDetail"}
             /\ u.view = "Overview" /\ offered -> a3
        [] OTHER -> a4)
  BY DEF KeyEnter
<1> HIDE DEF offered, a3, u, mode, board
<1>2. a1 \/ a2 \/ a3 \/ a4
  BY <1>1
<1>3. session' \in {session, "exited"}
  BY <1>2 DEF Local, a3, Asking
<1>4. \/ ui' \in {u, mode}
      \/ u.focus = "ProjectDetail" /\ ui' = board
      \/ u.view = "Overview" /\ a3
  BY <1>1 DEF Local
<1>5. a3 => ui' \in {ui, Drill(u, db)}
  BY DEF a3, Asking
<1> QED
  BY <1>3, <1>4, <1>5 DEF u, mode, board

\* Esc.
LEMMA KeyEscIs ==
  ASSUME KeyEsc
  PROVE  LET u == Key(ui)
             home == IF u.back = "ProjectKanban" /\ u.backSel # None
                     THEN SyncActive([u EXCEPT !.sel = u.backSel, !.backSel = None])
                     ELSE u
         IN  \/ ui' \in {u, [u EXCEPT !.mode = "Selected"], View(u, "Overview"),
                         [u EXCEPT !.focus = "Left", !.move = FALSE]}
             \/ /\ u.focus = "IssueDetail"
                /\ ui' = [home EXCEPT !.focus = u.back, !.move = FALSE]
             \/ /\ u.focus = "ProjectKanban"
                /\ ui' = [u EXCEPT !.focus = "ProjectDetail", !.move = FALSE]
<1> DEFINE u == Key(ui)
           home == IF u.back = "ProjectKanban" /\ u.backSel # None
                   THEN SyncActive([u EXCEPT !.sel = u.backSel, !.backSel = None])
                   ELSE u
           mode == [u EXCEPT !.mode = "Selected"]
           r1 == [home EXCEPT !.focus = u.back, !.move = FALSE]
           r2 == [u EXCEPT !.focus = "ProjectDetail", !.move = FALSE]
           r3 == [u EXCEPT !.focus = "Left", !.move = FALSE]
           r4 == View(u, "Overview")
           config == u.view = "Config"
<1>1. ui' = CASE u.focus = "IssueDetail" /\ u.mode = "Active" -> mode
              [] u.focus = "IssueDetail" /\ u.mode # "Active" -> r1
              [] u.focus = "ProjectKanban" -> r2
              [] u.focus = "ProjectDetail" -> r3
              [] config -> r4
              [] OTHER -> u
  BY DEF KeyEsc, Local
<1> HIDE DEF u, mode, r1, r2, r3, r4, config, home
<1>2. \/ ui' \in {u, mode, r3, r4}
      \/ u.focus = "IssueDetail" /\ ui' = r1
      \/ u.focus = "ProjectKanban" /\ ui' = r2
  BY <1>1
<1> QED
  BY <1>2 DEF u, mode, r1, r2, r3, r4, home

\* m.
LEMMA KeyMoveIs ==
  ASSUME KeyMove
  PROVE  LET u == Key(ui)
         IN  ui' \in {u, [u EXCEPT !.move = FALSE],
                      [u EXCEPT !.move = TRUE, !.focus = "Left"]}
<1> DEFINE u == Key(ui)
           off == [u EXCEPT !.move = FALSE]
           on == [u EXCEPT !.move = TRUE, !.focus = "Left"]
           offered == "move" \in Offers(u)
<1>1. ui' = CASE u.move -> off
              [] ~u.move /\ offered -> on
              [] OTHER -> u
  BY DEF KeyMove, Local
<1> HIDE DEF u, off, on, offered
<1>2. ui' \in {u, off, on}
  BY <1>1
<1> QED
  BY <1>2 DEF u, off, on

\* d.
LEMMA KeyDeleteIs ==
  ASSUME KeyDelete
  PROVE  LET Of(c) == Outcomes(c, db)
             removal == Command("RemoveProject", Active(ui))
         IN  /\ \/ /\ ui' \in {ui, [ui EXCEPT !.pending = Active(ui)]}
                   /\ UNCHANGED <<db, events>>
                \/ \E o \in Of(removal) :
                     db' = o.db /\ events' = o.ev /\ ui' = RefreshAll(Key(ui), o.db)
                \/ /\ ContextItem(ui).kind \in {"backlog", "routine", "issue", "archived"}
                   /\ \E o \in Of(DeleteCommand(ui)) :
                        db' = o.db /\ events' = o.ev /\ ui' = DeletedRefresh(ui, o.db)
             /\ session' \in {session, "exited"}
<1> DEFINE item == ContextItem(ui)
           stay == Local(ui) /\ Nowhere /\ sent' = NoCommand
           del == /\ Send(DeleteCommand(ui), ui, DeletedRefresh)
                  /\ sent' = [DeleteCommand(ui) EXCEPT !.on = item]
           offered == "delete" \in Offers(ui)
           onProject == item.kind = "project" /\ Active(ui) # None
           asked == [ui EXCEPT !.pending = Active(ui)]
           removed == \E o \in Outcomes(Command("RemoveProject", Active(ui)), db) :
                        db' = o.db /\ events' = o.ev /\ ui' = RefreshAll(Key(ui), o.db)
           deleted == \E o \in Outcomes(DeleteCommand(ui), db) :
                        db' = o.db /\ events' = o.ev /\ ui' = DeletedRefresh(ui, o.db)
           same == UNCHANGED <<db, events>>
           ends == session' \in {session, "exited"}
           deletable == item.kind \in {"backlog", "routine", "issue", "archived"}
<1>1. IF ~offered THEN stay
      ELSE CASE deletable -> del
             [] onProject -> Unregister(ui)
             [] OTHER -> stay
  BY DEF KeyDelete
<1>2. stay => ui' = ui /\ same /\ ends
  BY DEF Local, Nowhere
<1>3. del => ends /\ (deleted \/ (ui' = ui /\ same))
  BY DEF Send
<1>4. Unregister(ui) => ends /\ (removed \/ (ui' \in {ui, asked} /\ same))
  BY DEF Unregister, Send, Local, Nowhere
<1> HIDE DEF stay, del, offered, onProject, deletable
<1>5. stay \/ (deletable /\ del) \/ Unregister(ui)
  BY <1>1
<1> HIDE DEF asked, removed, deleted, same, ends
<1>6. ends /\ ((ui' \in {ui, asked} /\ same) \/ removed \/ (deletable /\ deleted))
  BY <1>2, <1>3, <1>4, <1>5
<1> QED
  BY <1>6 DEF asked, removed, deleted, same, ends, deletable, item

\* The tables of the daemon the console shows.
DbFields == {"projects", "issue", "updated", "backlog", "routine"}

\* What a command changes of the rows besides the issues.
Beside(d, x, c) ==
  /\ DOMAIN x = DbFields
  /\ x.issue = d.issue /\ x.updated = d.updated
  /\ x.projects \in {d.projects, Only(d.projects, Projects \ {c.id})}

LEMMA OutcomesIs ==
  ASSUME NEW c, NEW d, DOMAIN d = DbFields, NEW o \in Outcomes(c, d)
  PROVE  \/ o = Refused(d)
         \/ /\ c.cmd = "AbandonIssue" /\ d.issue[c.id] \notin Terminal \cup {Absent}
            /\ o = Effect(Touch(d, c.id, "ABANDONED"), Ev("status", c.id))
         \/ /\ c.cmd = "CleanupIssueWorktree" /\ d.issue[c.id] \in Terminal
            /\ o = Effect(Touch(d, c.id, Absent), Ev("rows", c.id))
         \/ \E x : Beside(d, x, c) /\ o \in {Effect(x, Ev("backlog", c.id)),
                                             Effect(x, Ev("none", None))}
<1> DEFINE b1 == c.cmd = "AbandonIssue" /\ d.issue[c.id] \notin Terminal \cup {Absent}
           b2 == c.cmd = "CleanupIssueWorktree" /\ d.issue[c.id] \in Terminal
           d3 == Judged(d, c.id, "approved")
           d4 == Judged(d, c.id, "dismissed")
           d5 == [d EXCEPT !.backlog[c.id] = "consumed"]
           s6 == IF c.on.kind = "on" THEN "off" ELSE "on"
           d6 == [d EXCEPT !.routine[c.id] = s6]
           d7 == [d EXCEPT !.routine[c.id] = Absent]
           s8 == Only(d.projects, Projects \ {c.id})
           d8 == [d EXCEPT !.projects = s8]
           e == Ev("backlog", c.id)
           none == Ev("none", None)
           o1 == Effect(Touch(d, c.id, "ABANDONED"), Ev("status", c.id))
           o2 == Effect(Touch(d, c.id, Absent), Ev("rows", c.id))
           o3 == Effect(d3, e)
           o4 == Effect(d4, e)
           o5 == Effect(d5, none)
           o6 == Effect(d6, none)
           o7 == Effect(d7, none)
           o8 == Effect(d8, none)
<1>1. Outcomes(c, d) = {Refused(d)} \cup
        CASE b1 -> {o1} [] b2 -> {o2}
          [] c.cmd = "ApproveBacklog" -> {o3} [] c.cmd = "DismissBacklog" -> {o4}
          [] c.cmd = "RunBacklogNow" /\ d.backlog[c.id] # "dismissed" -> {o5}
          [] c.cmd = "ToggleRoutine" -> {o6}
          [] c.cmd = "RemoveRoutine" -> {o7} [] c.cmd = "RemoveProject" -> {o8}
          [] OTHER -> {}
  BY DEF Outcomes
<1>2. \/ o = Refused(d) \/ (b1 /\ o = o1) \/ (b2 /\ o = o2)
      \/ o \in {o3, o4, o5, o6, o7, o8}
  <2> HIDE DEF o1, o2, o3, o4, o5, o6, o7, o8
  <2> QED
    BY <1>1
<1> HIDE DEF s6, s8
<1>3. /\ Beside(d, d3, c) /\ Beside(d, d4, c) /\ Beside(d, d5, c)
      /\ Beside(d, d6, c) /\ Beside(d, d7, c) /\ Beside(d, d8, c)
  BY DEF Beside, DbFields, Judged, s8
<1> HIDE DEF d3, d4, d5, d6, d7, d8
<1>4. o \in {o3, o4, o5, o6, o7, o8}
      => \E x : Beside(d, x, c) /\ o \in {Effect(x, e), Effect(x, none)}
  BY <1>3
<1> HIDE DEF o3, o4, o5, o6, o7, o8
<1> QED
  BY <1>2, <1>4

LEMMA OutcomesIssue ==
  ASSUME NEW c, NEW d, DOMAIN d = DbFields, NEW o \in Outcomes(c, d),
         c.cmd \notin {"AbandonIssue", "CleanupIssueWorktree"}
  PROVE  o.db.issue = d.issue
<1>1. Refused(d).db = d /\ \A x, e : Effect(x, e).db = x
  BY DEF Refused, Effect
<1>2. o = Refused(d) \/ \E x, e : Beside(d, x, c) /\ o = Effect(x, e)
  BY OutcomesIs
<1> QED
  BY <1>1, <1>2 DEF Beside

-----------------------------------------------------------------------------
(* The open issue                                                          *)

\* The fields that say what is open, and where.
Open == {"view", "focus", "back", "detail", "runs"}

\* The runs beside the issue are the issue's.
OpenOK(u) ==
  /\ PlaceOK(u)
  /\ u.focus = "IssueDetail" /\ u.detail # None => u.runs = u.detail

\* From u to v the open issue stays, or its row is gone in d.
Keeps(u, v, d) ==
  u.focus = "IssueDetail" /\ v.focus = "IssueDetail" /\ u.detail # None
  => v.detail = u.detail \/ d.issue[u.detail] = Absent

LEMMA OpenFrame ==
  ASSUME NEW u, NEW v, NEW S, NEW d, OpenOK(u), Same(u, v, S), S \cap Open = {}
  PROVE  OpenOK(v) /\ Keeps(u, v, d) /\ v.focus = u.focus /\ v.detail = u.detail
<1>1. Open \subseteq Fields \ S
  BY DEF Open, Fields, NewUi
<1>2. /\ v.view = u.view /\ v.focus = u.focus /\ v.back = u.back
      /\ v.detail = u.detail /\ v.runs = u.runs
  BY <1>1 DEF Same, OpenOK, PlaceOK, Open
<1> QED
  BY <1>2 DEF OpenOK, PlaceOK, Keeps, Same

LEMMA RefreshRunsOpen ==
  ASSUME NEW u, PlaceOK(u)
  PROVE  /\ OpenOK(RefreshRuns(u))
         /\ RefreshRuns(u).focus = u.focus
         /\ RefreshRuns(u).detail = u.detail
BY DEF OpenOK, PlaceOK, RefreshRuns, SelectedIssue, Fields, NewUi

LEMMA RefreshDetailOpen ==
  ASSUME NEW u, NEW d, PlaceOK(u)
  PROVE  OpenOK(RefreshDetail(u, d)) /\ Keeps(u, RefreshDetail(u, d), d)
         /\ RefreshDetail(u, d).focus = u.focus
<1> DEFINE v == Loaded(u, d, SelectedIssue(u))
           w == Unloaded(u)
<1>0. RefreshDetail(u, d) = IF SelectedIssue(u) # None THEN RefreshRuns(v) ELSE w
  BY RefreshDetailIs
<1>1. /\ PlaceOK(v) /\ v.focus = u.focus
      /\ v.detail = IF d.issue[SelectedIssue(u)] # Absent THEN SelectedIssue(u) ELSE None
  BY DEF PlaceOK, Loaded, Fields, NewUi
<1>2. u.focus = "IssueDetail" /\ u.detail # None => SelectedIssue(u) = u.detail
  BY DEF SelectedIssue
<1>3. OpenOK(w) /\ w.focus = u.focus
  BY DEF OpenOK, PlaceOK, Fields, NewUi, Unloaded
<1>4. CASE SelectedIssue(u) = None
  BY <1>0, <1>2, <1>3, <1>4 DEF Keeps
<1>5. CASE SelectedIssue(u) # None
  <2>1. RefreshDetail(u, d) = RefreshRuns(v)
    BY <1>0, <1>5
  <2> HIDE DEF v
  <2>2. OpenOK(RefreshRuns(v)) /\ RefreshRuns(v).focus = v.focus /\ RefreshRuns(v).detail = v.detail
    BY <1>1, RefreshRunsOpen
  <2> QED
    BY <1>1, <1>2, <2>1, <2>2 DEF Keeps
<1> QED
  BY <1>4, <1>5

\* What most handlers end with.
LEMMA ThenDetail ==
  ASSUME NEW u, NEW v, NEW S, NEW d, OpenOK(u), Same(u, v, S), S \cap Open = {}
  PROVE  LET w == RefreshActivity(RefreshDetail(v, d))
         IN  OpenOK(w) /\ Keeps(u, w, d) /\ w.focus = u.focus
<1> DEFINE r == RefreshDetail(v, d)
           w == RefreshActivity(r)
<1>1. OpenOK(v) /\ v.focus = u.focus /\ v.detail = u.detail
  BY OpenFrame
<1>2. OpenOK(r) /\ Keeps(v, r, d) /\ r.focus = v.focus
  BY <1>1, RefreshDetailOpen DEF OpenOK
<1>3. Same(r, w, {"activity"})
  BY RefreshActivityFrame
<1> HIDE DEF r, w
<1>4. OpenOK(w) /\ w.focus = r.focus /\ w.detail = r.detail
  BY <1>2, <1>3, OpenFrame DEF Open
<1>5. Keeps(u, w, d)
  BY <1>1, <1>2, <1>4 DEF Keeps
<1> QED
  BY <1>1, <1>2, <1>4, <1>5 DEF w, r

LEMMA RefreshAllOpen ==
  ASSUME NEW u, NEW d, OpenOK(u)
  PROVE  OpenOK(RefreshAll(u, d)) /\ Keeps(u, RefreshAll(u, d), d)
<1> DEFINE v == RefreshProjects(u, d)
           w == [v EXCEPT !.kids = [p \in Projects |->
                   IF p \in ToSet(d.projects) THEN Children(d, p) ELSE @[p]]]
           x == SyncActive(ClampTree(w))
           S == {"projects", "proj", "kids", "expanded", "archive", "sel"}
<1>1. Same(u, v, S)
  BY RefreshProjectsFrame DEF Same
<1> HIDE DEF v
<1>2. Same(v, w, {"kids"})
  BY DEF Same, Fields, NewUi
<1> HIDE DEF w
<1>3. Same(u, x, S)
  BY <1>1, <1>2, ClampTreeFrame, SyncActiveFrame DEF Same
<1>4. RefreshAll(u, d) = RefreshActivity(RefreshDetail(x, d))
  BY RefreshAllIs DEF RefreshedAll, v, w
<1> HIDE DEF x
<1> QED
  BY <1>3, <1>4, ThenDetail DEF Open

-----------------------------------------------------------------------------
(* The open issue: one step                                                *)

\* The events the console handles.
Kinds == {"status", "rows", "log", "backlog", "jobs", "tick"}

\* What a step has to bring about of the open issue.
Good(v) == OpenOK(v) /\ Keeps(ui, v, db)

\* A handler that leaves alone what is open.
LEMMA GoodFrame ==
  ASSUME OpenOK(ui), NEW v, NEW S, Same(ui, v, S), S \cap Open = {}
  PROVE  Good(v)
BY OpenFrame DEF Good

LEMMA UiGood == ASSUME OpenOK(ui), UNCHANGED ui PROVE Good(ui')
BY DEF Good, Keeps

LEMMA AskingGood == ASSUME OpenOK(ui), NEW v, Good(v), Asking(v)
                    PROVE  Good(ui')
BY DEF Good, Asking, Keeps

\* A console whose focus is set by hand, and not to the detail.
LEMMA FocusedGood ==
  ASSUME OpenOK(ui), NEW v, PlaceOK(v), v.focus # "IssueDetail"
  PROVE  Good(v)
BY DEF Good, OpenOK, PlaceOK, Keeps

LEMMA EnterGood ==
  ASSUME NEW u, PlaceOK(u), ui.focus # "IssueDetail"
  PROVE  Good(RefreshDetail(u, db))
BY RefreshDetailOpen DEF Good, Keeps

LEMMA HandledGood ==
  ASSUME OpenOK(ui), NEW e, e.kind \in Kinds
  PROVE  Good(Handled(ui, db, e))
<1>1. CASE e.kind \in {"status", "rows"}
  <2> DEFINE S == {"kids", "expanded", "archive", "sel", "proj"}
             v == RefreshIssues(ui, db)
             w == IF e.kind = "status" THEN Again(ui, v, e.id) ELSE v
  <2>1. Handled(ui, db, e) = RefreshActivity(RefreshDetail(w, db))
    BY <1>1, HandledIs
  <2>2. Same(ui, v, S)
    BY RefreshIssuesFrame
  <2> HIDE DEF v
  <2>3. ASSUME NEW p PROVE Same(v, PreserveIssue(v, p, e.id), S)
    BY PreserveIssueFrame DEF Same
  <2>4. w = v \/ \E p : w = PreserveIssue(v, p, e.id)
    BY DEF Again, Reselected
  <2> HIDE DEF w
  <2>5. Same(ui, w, S)
    BY <2>2, <2>3, <2>4 DEF Same
  <2> QED
    BY <2>1, <2>5, ThenDetail DEF Open, Good
<1>2. CASE e.kind = "log"
  <2>1. Handled(ui, db, e) \in {ui, RefreshRuns(ui)}
    BY <1>2 DEF Handled
  <2>2. Good(RefreshRuns(ui))
    BY RefreshRunsOpen DEF Good, Keeps, OpenOK
  <2> QED
    BY <2>1, <2>2 DEF Good, Keeps
<1>3. CASE e.kind \in {"backlog", "jobs"}
  <2>1. Same(ui, RefreshActivity(RefreshActive(ui, db)), {"kids", "activity"})
    BY RefreshActivityFrame, RefreshActiveFrame DEF Same
  <2>2. Handled(ui, db, e) = RefreshActivity(RefreshActive(ui, db))
    BY <1>3 DEF Handled
  <2> QED
    BY <2>1, <2>2, GoodFrame DEF Open
<1>4. CASE e.kind = "tick"
  <2> DEFINE w == IF e.id \in ToSet(db.projects) THEN RefreshChildren(ui, db, e.id) ELSE ui
  <2>1. Same(ui, w, {"kids"})
    BY RefreshChildrenFrame DEF Same
  <2>2. Handled(ui, db, e) \in {w, RefreshActivity(w)}
    BY <1>4 DEF Handled
  <2> HIDE DEF w
  <2>3. Same(ui, w, {"kids", "activity"}) /\ Same(ui, RefreshActivity(w), {"kids", "activity"})
    BY <2>1, RefreshActivityFrame DEF Same
  <2> QED
    BY <2>2, <2>3, GoodFrame DEF Open
<1> QED
  BY <1>1, <1>2, <1>3, <1>4 DEF Kinds

LEMMA PolledGood ==
  ASSUME OpenOK(ui)
  PROVE  Good(Polled(ui, db))
<1> DEFINE rows == IF ui.move \/ Active(ui) = None THEN ui
                   ELSE RefreshActivity(RefreshActive(ui, db))
<1>1. Polled(ui, db) \in {ui, rows, RefreshDetail(rows, db)}
  BY PolledIs
<1>2. Same(ui, rows, {"kids", "activity"})
  BY RefreshActivityFrame, RefreshActiveFrame DEF Same
<1> HIDE DEF rows
<1>3. OpenOK(rows) /\ Good(rows) /\ rows.focus = ui.focus /\ rows.detail = ui.detail
  BY <1>2, OpenFrame DEF Open, Good
<1>4. Good(RefreshDetail(rows, db))
  BY <1>3, RefreshDetailOpen DEF Good, OpenOK, PlaceOK, Keeps
<1> QED
  BY <1>1, <1>3, <1>4 DEF Good, Keeps

LEMMA MoveSelGood ==
  ASSUME OpenOK(ui), NEW u, Same(ui, u, {"pending"}), NEW delta
  PROVE  Good(MoveSel(u, delta))
<1> DEFINE w == [u EXCEPT !.sel = Stepped(@, delta, Len(TreeRows(u)))]
           v == SyncActive(w)
<1>1. Same(u, w, {"sel"})
  <2> DEFINE n == Stepped(u.sel, delta, Len(TreeRows(u)))
  <2>1. w = [u EXCEPT !.sel = n]
    OBVIOUS
  <2> HIDE DEF n, w
  <2> QED
    BY <2>1 DEF Same, Fields, NewUi
<1>2. MoveSel(u, delta) \in {u, RefreshDetail(v, db), RefreshActivity(v)}
  BY DEF MoveSel
<1> HIDE DEF w
<1>3. Same(ui, v, {"pending", "sel", "proj"})
  BY <1>1, SyncActiveFrame DEF Same
<1> HIDE DEF v
<1>4. Same(ui, RefreshActivity(v), {"pending", "sel", "proj", "activity"})
  BY <1>3, RefreshActivityFrame DEF Same
<1>5. Good(u) /\ Good(RefreshActivity(v))
  BY <1>4, GoodFrame DEF Open
<1>6. OpenOK(v) /\ v.focus = ui.focus /\ v.detail = ui.detail
  BY <1>3, OpenFrame DEF Open
<1>7. Good(RefreshDetail(v, db))
  BY <1>6, RefreshDetailOpen DEF Good, OpenOK, PlaceOK, Keeps
<1> QED
  BY <1>2, <1>5, <1>7

LEMMA KeyVerticalGood ==
  ASSUME OpenOK(ui), NEW delta, KeyVertical(delta)
  PROVE  Good(ui')
<1> DEFINE u == Key(ui)
           k == Active(u)
           d == Reordered(db, k, delta)
           r == SelectTree(RefreshProjects(u, d), "project", k)
           n == Stepped(u.card, delta, Len(Cards(u, u.lane)))
           c == [u EXCEPT !.card = n]
<1>1. ui' \in {ui, u, MoveRow(u, delta), MoveSection(u, delta), MoveSel(u, delta), c, r}
  BY KeyVerticalIs DEF OpenOK
<1>2. Same(ui, u, {"pending"})
  BY KeyFrame
<1> HIDE DEF u, d, k, n
<1>3. Same(ui, r, {"pending", "projects", "proj", "kids", "expanded", "archive", "sel"})
  <2> DEFINE v == RefreshProjects(u, d)
  <2>1. Same(u, v, {"projects", "proj", "kids", "expanded", "archive"})
    BY RefreshProjectsFrame
  <2> HIDE DEF v
  <2>2. Same(v, SelectTree(v, "project", k), {"sel", "proj"})
    BY SelectTreeFrame
  <2> QED
    BY <1>2, <2>1, <2>2 DEF Same, v
<1>4. Same(ui, c, {"pending", "card"})
  BY <1>2 DEF Same, Fields, NewUi
<1>5. Same(ui, MoveRow(u, delta), {"pending", "kids", "sel", "proj"})
  BY <1>2, MoveRowFrame DEF Same
<1>6. Same(ui, MoveSection(u, delta), {"pending", "section"})
  BY <1>2, MoveSectionFrame DEF Same
<1> HIDE DEF c, r
<1>7. Good(u) /\ Good(r) /\ Good(c) /\ Good(MoveRow(u, delta)) /\ Good(MoveSection(u, delta))
  BY <1>2, <1>3, <1>4, <1>5, <1>6, GoodFrame DEF Open
<1>8. Good(MoveSel(u, delta))
  BY <1>2, MoveSelGood
<1> QED
  BY <1>1, <1>7, <1>8, UiGood

LEMMA KeyHorizontalGood ==
  ASSUME OpenOK(ui), NEW delta, KeyHorizontal(delta)
  PROVE  Good(ui')
<1> DEFINE u == Key(ui)
           fold == Folded(u, delta = 1)
           n == Stepped(u.lane, delta, 4)
           lane == [u EXCEPT !.lane = n]
           board == ClampKanban(lane)
           section == MoveSection(u, delta)
           mode == [u EXCEPT !.mode = "Selected"]
<1>1. ui' \in {u, fold, section, board, mode}
  BY KeyHorizontalIs
<1>2. Same(ui, u, {"pending"})
  BY KeyFrame
<1> HIDE DEF u, n
<1>3. Same(ui, fold, {"pending", "expanded", "archive", "sel", "proj"})
  BY <1>2, FoldedFrame DEF Same
<1>4. Same(ui, board, {"pending", "lane", "card"})
  <2>1. Same(ui, lane, {"pending", "lane"})
    BY <1>2 DEF Same, Fields, NewUi
  <2> HIDE DEF lane
  <2> QED
    BY <2>1, ClampKanbanFrame DEF Same
<1>5. Same(ui, section, {"pending", "section"})
  BY <1>2, MoveSectionFrame DEF Same
<1>6. Same(ui, mode, {"pending", "mode"})
  BY <1>2 DEF Same, Fields, NewUi
<1> HIDE DEF fold, board, section, mode
<1> QED
  BY <1>1, <1>2, <1>3, <1>4, <1>5, <1>6, GoodFrame DEF Open

\* Where one may go: to the tree, to another view, into a project.
LEMMA FocusGood ==
  ASSUME OpenOK(ui), NEW u, NEW S, Same(ui, u, S), S \cap Open = {}
  PROVE  /\ Good([u EXCEPT !.focus = "Left"])
         /\ \A v \in {"Overview", "Logs", "Ask", "Config"} : Good(View(u, v))
         /\ u.view = "Overview" => /\ Good([u EXCEPT !.focus = "ProjectDetail"])
                                  /\ Good([u EXCEPT !.focus = "ProjectKanban"])
<1>1. PlaceOK(u)
  BY OpenFrame DEF OpenOK
<1>2. PlaceOK([u EXCEPT !.focus = "Left"])
  BY <1>1 DEF PlaceOK, Fields, NewUi
<1>3. \A v \in {"Overview", "Logs", "Ask", "Config"} :
         PlaceOK(View(u, v)) /\ View(u, v).focus # "IssueDetail"
  BY <1>1 DEF PlaceOK, View, Fields, NewUi
<1>4. u.view = "Overview" => /\ PlaceOK([u EXCEPT !.focus = "ProjectDetail"])
                            /\ PlaceOK([u EXCEPT !.focus = "ProjectKanban"])
  BY <1>1 DEF PlaceOK, Fields, NewUi
<1>5. \A f \in {"Left", "ProjectDetail", "ProjectKanban"} :
         [u EXCEPT !.focus = f].focus # "IssueDetail"
  BY <1>1 DEF PlaceOK, Fields, NewUi
<1> QED
  BY <1>2, <1>3, <1>4, <1>5, FocusedGood

LEMMA OpenCardGood ==
  ASSUME OpenOK(ui), NEW u, Same(ui, u, {"pending"}), u.focus = "ProjectKanban"
  PROVE  Good(OpenCard(u, db))
<1> DEFINE card == Card(u)
           left == SelectTree(u, "backlog", card.id)
           stat == ActiveKids(u).stat[card.id]
           v == [Enter(u, "ProjectKanban", u.sel) EXCEPT !.detail = card.id,
                                                         !.detailStatus = stat]
<1> HIDE DEF card
<1>1. CASE card.kind = "backlog"
  <2>1. OpenCard(u, db) = [left EXCEPT !.focus = "Left"]
    BY <1>1 DEF OpenCard, card
  <2>2. Same(ui, left, {"pending", "sel", "proj"})
    BY SelectTreeFrame DEF Same
  <2> HIDE DEF left
  <2> QED
    BY <2>1, <2>2, FocusGood DEF Open
<1>2. CASE card.kind = "issue"
  <2>1. OpenCard(u, db) = RefreshDetail(v, db)
    BY <1>2 DEF OpenCard, card
  <2>2. PlaceOK(u) /\ u.view = "Overview" /\ ui.focus # "IssueDetail"
    BY OpenFrame DEF OpenOK, Open, PlaceOK
  <2> HIDE DEF stat
  <2>3. PlaceOK(v)
    BY <2>2 DEF PlaceOK, Enter, Fields, NewUi
  <2> HIDE DEF v
  <2> QED
    BY <2>1, <2>2, <2>3, EnterGood
<1>3. CASE card.kind \notin {"backlog", "issue"}
  <2>1. OpenCard(u, db) = u
    BY <1>3 DEF OpenCard, card
  <2> QED
    BY <2>1, GoodFrame DEF Open
<1> QED
  BY <1>1, <1>2, <1>3

LEMMA DrillGood ==
  ASSUME OpenOK(ui), NEW u, Same(ui, u, {"pending"}), u.view = "Overview"
  PROVE  Good(Drill(u, db))
<1> DEFINE item == TreeItem(u)
           active == SyncActive(u)
           v == Enter(u, "Left", None)
           b1 == u.focus = "ProjectKanban"
           b2 == u.focus = "Left" /\ item.kind = "project"
           b3 == u.focus = "Left" /\ IsIssue(item)
<1>1. PlaceOK(u) /\ u.focus = ui.focus /\ Good(u)
  BY OpenFrame DEF OpenOK, Open, Good
<1> HIDE DEF item
<1>2. \/ Drill(u, db) = u
      \/ b1 /\ Drill(u, db) = OpenCard(u, db)
      \/ Drill(u, db) = [active EXCEPT !.focus = "ProjectDetail"]
      \/ b3 /\ Drill(u, db) = RefreshDetail(v, db)
  BY DEF Drill, item
<1>3. Same(ui, active, {"pending", "proj"}) /\ active.view = "Overview"
  BY <1>1, SyncActiveFrame DEF Same, PlaceOK, Fields, NewUi
<1> HIDE DEF active
<1>4. Good([active EXCEPT !.focus = "ProjectDetail"])
  BY <1>3, FocusGood DEF Open
<1>5. PlaceOK(v)
  BY <1>1 DEF PlaceOK, Enter, Fields, NewUi
<1> HIDE DEF v
<1>6. b3 => Good(RefreshDetail(v, db))
  BY <1>1, <1>5, EnterGood
<1>7. b1 => Good(OpenCard(u, db))
  BY OpenCardGood
<1> QED
  BY <1>1, <1>2, <1>4, <1>6, <1>7

LEMMA KeyEnterGood == ASSUME OpenOK(ui), KeyEnter PROVE Good(ui')
<1> DEFINE u == Key(ui)
           mode == [u EXCEPT !.mode = "Active"]
           into == [u EXCEPT !.focus = "ProjectKanban"]
           board == ClampKanban(into)
<1>1. \/ ui' \in {ui, u, mode}
      \/ u.focus = "ProjectDetail" /\ ui' = board
      \/ u.view = "Overview" /\ ui' = Drill(u, db)
  BY KeyEnterIs
<1>2. Same(ui, u, {"pending"})
  BY KeyFrame
<1> HIDE DEF u
<1>3. PlaceOK(u) /\ u.focus = ui.focus
  BY <1>2, OpenFrame DEF OpenOK, Open
<1>4. Same(ui, mode, {"pending", "mode"})
  BY <1>2 DEF Same, Fields, NewUi
<1>5. Good(u) /\ Good(mode)
  BY <1>2, <1>4, GoodFrame DEF Open
<1>6. u.focus = "ProjectDetail" => Good(board)
  <2> SUFFICES ASSUME u.focus = "ProjectDetail" PROVE Good(board)
    OBVIOUS
  <2>1. PlaceOK(into) /\ into.focus = "ProjectKanban"
    BY <1>3 DEF PlaceOK, Fields, NewUi
  <2>2. Good(into)
    BY <2>1, FocusedGood
  <2> HIDE DEF into
  <2>3. OpenOK(board) /\ board.focus = into.focus
    BY <2>2, ClampKanbanFrame, OpenFrame DEF Open, Good
  <2> QED
    BY <2>1, <2>3, FocusedGood DEF OpenOK
<1>7. u.view = "Overview" => Good(Drill(u, db))
  BY <1>2, DrillGood
<1> HIDE DEF mode, board
<1> QED
  BY <1>1, <1>5, <1>6, <1>7, UiGood

LEMMA KeyViewGood ==
  ASSUME OpenOK(ui), NEW delta \in {-1, 1}, KeyView(delta)
  PROVE  Good(ui')
<1> DEFINE u == Key(ui)
           at == {n \in DOMAIN Views : Views[n] = u.view}
           n == IF at = {} THEN 1 ELSE First(at)
           v == Views[((n - 1 + delta + Len(Views)) % Len(Views)) + 1]
<1>1. Same(ui, u, {"pending"})
  BY KeyFrame
<1>2. n \in 1..3
  <2>1. at \subseteq 1..3
    BY DEF Views
  <2>2. at # {} => First(at) \in at
    <3>1. at # {} => \E x \in at : \A y \in at : x <= y
      <4>1. at \subseteq Nat
        BY <2>1
      <4> HIDE DEF at
      <4> QED
        BY <4>1, Least
    <3> QED
      BY <3>1 DEF First
  <2> DEFINE m == First(at)
  <2>3. n = IF at = {} THEN 1 ELSE m
    OBVIOUS
  <2> HIDE DEF at, m, n
  <2> QED
    BY <2>1, <2>2, <2>3 DEF m
<1>3. v \in {"Overview", "Logs", "Ask"}
  <2> HIDE DEF n
  <2>1. ((n - 1 + delta + 3) % 3) + 1 \in 1..3
    BY <1>2
  <2> QED
    BY <2>1 DEF Views
<1>4. Asking(View(u, v)) \/ Local(View(u, v))
  BY DEF KeyView
<1> HIDE DEF u, v
<1>5. Good(View(u, v))
  BY <1>1, <1>3, FocusGood DEF Open
<1> QED
  BY <1>4, <1>5, AskingGood DEF Local

LEMMA KeySettingsGood == ASSUME OpenOK(ui), KeySettings PROVE Good(ui')
<1>1. Good(View(Key(ui), "Config"))
  BY KeyFrame, FocusGood DEF Open
<1> QED
  BY <1>1, AskingGood DEF KeySettings

LEMMA KeyEscGood == ASSUME OpenOK(ui), KeyEsc PROVE Good(ui')
<1> DEFINE u == Key(ui)
           back == [u EXCEPT !.sel = u.backSel, !.backSel = None]
           home == IF u.back = "ProjectKanban" /\ u.backSel # None THEN SyncActive(back) ELSE u
           mode == [u EXCEPT !.mode = "Selected"]
           r1 == [home EXCEPT !.focus = u.back, !.move = FALSE]
           r2 == [u EXCEPT !.focus = "ProjectDetail", !.move = FALSE]
           r3 == [u EXCEPT !.focus = "Left", !.move = FALSE]
           r4 == View(u, "Overview")
<1>1. Same(ui, u, {"pending"})
  BY KeyFrame
<1>2. \/ ui' \in {u, mode, r3, r4}
      \/ u.focus = "IssueDetail" /\ ui' = r1
      \/ u.focus = "ProjectKanban" /\ ui' = r2
  BY KeyEscIs
<1> HIDE DEF u
<1>3. PlaceOK(u) /\ u.focus = ui.focus
  BY <1>1, OpenFrame DEF OpenOK, Open
<1>4. Good(u) /\ Good(mode)
  <2>1. Same(ui, mode, {"pending", "mode"})
    BY <1>1 DEF Same, Fields, NewUi
  <2> QED
    BY <1>1, <2>1, GoodFrame DEF Open
<1>5. Good(r3) /\ (u.focus = "ProjectKanban" => Good(r2))
  <2>1. PlaceOK(r3) /\ r3.focus = "Left"
    BY <1>3 DEF PlaceOK, Fields, NewUi
  <2>2. u.focus = "ProjectKanban" => PlaceOK(r2) /\ r2.focus = "ProjectDetail"
    BY <1>3 DEF PlaceOK, Fields, NewUi
  <2> QED
    BY <2>1, <2>2, FocusedGood
<1>6. Good(r4)
  BY <1>1, FocusGood DEF Open
<1>7. u.focus = "IssueDetail" => Good(r1)
  <2> SUFFICES ASSUME u.focus = "IssueDetail" PROVE Good(r1)
    OBVIOUS
  <2>1. Same(u, back, {"sel", "backSel"})
    BY DEF Same, Fields, NewUi
  <2> HIDE DEF back
  <2>2. Same(u, home, {"sel", "backSel", "proj"})
    BY <2>1, SyncActiveFrame DEF Same
  <2> HIDE DEF home
  <2>3. PlaceOK(home) /\ home.view = "Overview"
    BY <1>1, <1>3, <2>2 DEF PlaceOK, Same, Fields, NewUi
  <2>4. PlaceOK(r1) /\ r1.focus # "IssueDetail"
    BY <1>3, <2>3 DEF PlaceOK, Fields, NewUi
  <2> QED
    BY <2>4, FocusedGood
<1> HIDE DEF mode, r1, r2, r3, r4
<1> QED
  BY <1>2, <1>4, <1>5, <1>6, <1>7

LEMMA KeyMoveGood == ASSUME OpenOK(ui), KeyMove PROVE Good(ui')
<1> DEFINE u == Key(ui)
           off == [u EXCEPT !.move = FALSE]
           on == [u EXCEPT !.move = TRUE, !.focus = "Left"]
<1>1. Same(ui, u, {"pending"})
  BY KeyFrame
<1>2. ui' \in {u, off, on}
  BY KeyMoveIs
<1> HIDE DEF u
<1>3. PlaceOK(u)
  BY <1>1, OpenFrame DEF OpenOK, Open
<1>4. PlaceOK(on) /\ on.focus # "IssueDetail"
  BY <1>3 DEF PlaceOK, Fields, NewUi
<1>5. Same(ui, off, {"pending", "move"})
  BY <1>1 DEF Same, Fields, NewUi
<1> HIDE DEF on, off
<1> QED
  BY <1>1, <1>2, <1>4, <1>5, FocusedGood, GoodFrame DEF Open

LEMMA KeyProjectGood ==
  ASSUME OpenOK(ui), NEW delta, KeyProject(delta)
  PROVE  Good(ui')
<1> DEFINE u == Key(ui)
           n == Stepped(u.proj, delta, Len(u.projects))
           v == [u EXCEPT !.proj = n]
           w == SelectTree(v, "project", Active(v))
<1>1. Same(ui, u, {"pending"})
  BY KeyFrame
<1>2. ui' \in {u, [w EXCEPT !.focus = "Left"]}
  BY DEF KeyProject, Local
<1> HIDE DEF u, n
<1>3. Same(ui, v, {"pending", "proj"})
  BY <1>1 DEF Same, Fields, NewUi
<1> HIDE DEF v
<1>4. Same(v, w, {"sel", "proj"})
  BY SelectTreeFrame
<1> HIDE DEF w
<1>5. Same(ui, w, {"pending", "proj", "sel"})
  BY <1>3, <1>4 DEF Same
<1> QED
  BY <1>1, <1>2, <1>5, GoodFrame, FocusGood DEF Open

LEMMA RefreshAllGood ==
  ASSUME OpenOK(ui), NEW u, NEW S, Same(ui, u, S), S \cap Open = {},
         NEW d, d.issue = db.issue
  PROVE  Good(RefreshAll(u, d))
<1>1. OpenOK(u) /\ u.focus = ui.focus /\ u.detail = ui.detail
  BY OpenFrame
<1>2. OpenOK(RefreshAll(u, d)) /\ Keeps(u, RefreshAll(u, d), d)
  BY <1>1, RefreshAllOpen
<1> QED
  BY <1>1, <1>2 DEF Good, Keeps

LEMMA KeyApproveGood ==
  ASSUME OpenOK(ui), KeyApprove
  PROVE  Good(ui')
<1> DEFINE u == Key(ui)
<1>1. Same(ui, u, {"pending"})
  BY KeyFrame
<1>2. ui' \in {u, ui} \/ \E d : ui' = RefreshActive(u, d)
  BY DEF KeyApprove, Send, Local
<1> HIDE DEF u
<1>3. \A d : Same(ui, RefreshActive(u, d), {"pending", "kids"})
  BY <1>1, RefreshActiveFrame DEF Same
<1> QED
  BY <1>1, <1>2, <1>3, GoodFrame, UiGood DEF Open

LEMMA KeyDeleteGood ==
  ASSUME OpenOK(ui), DOMAIN db = DbFields, KeyDelete
  PROVE  Good(ui')
<1> DEFINE p == Active(ui)
           asked == [ui EXCEPT !.pending = p]
           c == Command("RemoveProject", p)
<1>1. \/ ui' \in {ui, asked}
      \/ \E o \in Outcomes(c, db) : ui' = RefreshAll(Key(ui), o.db)
      \/ \E d : ui' = DeletedRefresh(ui, d)
  BY KeyDeleteIs
<1> HIDE DEF p
<1>2. Good(asked)
  <2>1. Same(ui, asked, {"pending"})
    BY DEF Same, Fields, NewUi
  <2> QED
    BY <2>1, GoodFrame DEF Open
<1> HIDE DEF asked
<1>3. ASSUME NEW o \in Outcomes(c, db)
      PROVE  Good(RefreshAll(Key(ui), o.db))
  <2>1. o.db.issue = db.issue
    BY OutcomesIssue DEF Command
  <2> QED
    BY <2>1, KeyFrame, RefreshAllGood DEF Open
<1>4. \A d : Good(DeletedRefresh(ui, d))
  BY DeletedRefreshFrame, GoodFrame DEF Open
<1> QED
  BY <1>1, <1>2, <1>3, <1>4, UiGood

LEMMA KeyExecuteGood ==
  ASSUME OpenOK(ui), DOMAIN db = DbFields, KeyExecute
  PROVE  Good(ui')
<1> DEFINE u == Key(ui)
           c == ExecuteCommand(u)
<1>1. Same(ui, u, {"pending"})
  BY KeyFrame
<1>2. \/ ui' \in {ui, u}
      \/ \E o \in Outcomes(c, db) : ui' = RefreshAll(u, o.db)
  BY DEF KeyExecute, Send, Local
<1> HIDE DEF u
<1>3. c.cmd \notin {"AbandonIssue", "CleanupIssueWorktree"}
  BY DEF ExecuteCommand, Command, NoCommand
<1>4. \A o \in Outcomes(c, db) : o.db.issue = db.issue
  BY <1>3, OutcomesIssue
<1> HIDE DEF c
<1>5. \A o \in Outcomes(c, db) : Good(RefreshAll(u, o.db))
  BY <1>1, <1>4, RefreshAllGood DEF Open
<1> QED
  BY <1>1, <1>2, <1>5, GoodFrame, UiGood DEF Open

LEMMA MovesGood == ASSUME OpenOK(ui), KeyMoves PROVE Good(ui')
BY KeyVerticalGood, KeyHorizontalGood, KeyViewGood, KeyProjectGood, KeyEnterGood,
   KeySettingsGood, KeyEscGood, KeyMoveGood DEF KeyMoves

-----------------------------------------------------------------------------
(* What is loaded                                                          *)

\* The issues of a project.
Owned(p) == {i \in Issues : OwnerOf.issue[i] = p}

\* What is loaded of a project.
KidsOK(k, p) ==
  /\ DOMAIN k = DOMAIN NoChildren
  /\ k.routines \in Seq(Routines) /\ k.backlog \in Seq(Backlog)
  /\ k.live \in Seq(Owned(p)) /\ k.archived \in Seq(Owned(p))
  /\ ToSet(k.live) \cap ToSet(k.archived) = {}
  /\ \A i \in ToSet(k.live) \cup ToSet(k.archived) : k.stat[i] \in Status

\* What is loaded, of every project.
ListsOK(u) ==
  /\ u.projects \in Seq(Projects)
  /\ DOMAIN u.kids = Projects
  /\ \A p \in Projects : KidsOK(u.kids[p], p)

\* The daemon's rows, as far as lists are made of them.
DbOK(d) ==
  /\ DOMAIN d = DbFields
  /\ d.projects \in Seq(Projects)
  /\ d.issue \in [Issues -> Status \cup {Absent}]
  /\ d.updated \in Seq(Issues)

LEMMA ChildrenOK ==
  ASSUME NEW d, DbOK(d), NEW p
  PROVE  KidsOK(Children(d, p), p)
<1> DEFINE mine == {i \in Issues : OwnerOf.issue[i] = p /\ d.issue[i] # Absent}
           live == {i \in mine : d.issue[i] \notin Terminal}
           routines == {r \in Routines : OwnerOf.routine[r] = p /\ d.routine[r] # Absent}
           backlog == {b \in Backlog : /\ OwnerOf.backlog[b] = p
                                      /\ d.backlog[b] \notin {Absent, "consumed"}}
           s1 == Sorted(routines, ById)
           s2 == Sorted(backlog, NewestFirst)
           s3 == Sorted(live, ByStatus(d.issue))
           s4 == Only(d.updated, mine \ live)
           stat == [i \in mine |-> d.issue[i]]
           appr == [b \in {c \in Backlog : OwnerOf.backlog[c] = p} |-> d.backlog[b]]
           on == [r \in {q \in Routines : OwnerOf.routine[q] = p} |-> d.routine[r]]
<1>1. Children(d, p) = [routines |-> s1, backlog |-> s2, live |-> s3, archived |-> s4,
                        stat |-> stat, appr |-> appr, on |-> on]
  BY DEF Children
<1>2. s1 \in Seq(Routines) /\ s2 \in Seq(Backlog)
  <2>1. /\ routines \subseteq Nat /\ IsFiniteSet(routines)
        /\ backlog \subseteq Nat /\ IsFiniteSet(backlog)
    BY ViewAssumption, FS_Subset
  <2>2. routines \subseteq Routines /\ backlog \subseteq Backlog
    OBVIOUS
  <2> HIDE DEF routines, backlog
  <2>3. s1 \in Seq(routines) /\ s2 \in Seq(backlog)
    BY <2>1, NumbersType
  <2> QED
    BY <2>2, <2>3
<1>3. s3 \in Seq(live)
  <2>1. live \subseteq Issues /\ \A i \in live : d.issue[i] \in Status
    BY DEF DbOK
  <2>2. IsFiniteSet(live)
    BY <2>1, ViewAssumption, FS_Subset
  <2> HIDE DEF live
  <2> QED
    BY <2>1, <2>2, StatusViewType
<1>4. s4 \in Seq(mine \ live)
  <2>1. s4 \in Seq(Issues \cap (mine \ live))
    BY OnlyType DEF DbOK
  <2>2. Issues \cap (mine \ live) = mine \ live
    OBVIOUS
  <2> QED
    BY <2>1, <2>2
<1>5. \A i \in mine : stat[i] \in Status
  BY DEF DbOK
<1>6. mine \subseteq Owned(p) /\ live \subseteq mine
  BY DEF Owned
<1> HIDE DEF s1, s2, s3, s4, stat, appr, on, mine, live
<1>7. ToSet(s3) \subseteq live /\ ToSet(s4) \subseteq mine \ live
  BY <1>3, <1>4, ToSetIn
<1>8. s3 \in Seq(Owned(p)) /\ s4 \in Seq(Owned(p))
  BY <1>3, <1>4, <1>6
<1>9. \A i \in ToSet(s3) \cup ToSet(s4) : stat[i] \in Status
  BY <1>5, <1>6, <1>7
<1>10. ToSet(s3) \cap ToSet(s4) = {}
  BY <1>7
<1> QED
  BY <1>1, <1>2, <1>8, <1>9, <1>10 DEF KidsOK, NoChildren

LEMMA NoChildrenOK == \A p : KidsOK(NoChildren, p)
BY DEF KidsOK, NoChildren, ToSet

-----------------------------------------------------------------------------
(* The rows of the tree                                                    *)

RowKinds == {"project", "routines", "routine", "backlogs", "backlog", "issues",
             "issue", "archive", "archived"}

\* What a row of the tree can be.
RowOK(u, r) ==
  /\ r.project \in ToSet(u.projects)
  /\ r.kind = "issue" => r.id \in ToSet(u.kids[r.project].live)
  /\ r.kind = "archived" => r.id \in ToSet(u.kids[r.project].archived)
  /\ r.kind = "backlog" => r.id \in ToSet(u.kids[r.project].backlog)
RowSet(u) == {r \in [kind : RowKinds, project : Projects, id : Nat] : RowOK(u, r)}

LEMMA ItemsIn ==
  ASSUME NEW k, NEW p, NEW T, NEW s \in Seq(T), NEW Rs,
         \A i \in ToSet(s) : Item(k, p, i) \in Rs
  PROVE  ItemsOf(k, p, s) \in Seq(Rs)
BY DEF ItemsOf, ToSet

LEMMA FirstOfIn ==
  ASSUME NEW T, NEW s \in Seq(T), NEW n \in Nat
  PROVE  FirstOf(s, n) \in Seq(T) /\ ToSet(FirstOf(s, n)) \subseteq ToSet(s)
<1> DEFINE m == IF Len(s) < n THEN Len(s) ELSE n
<1>1. m \in 0..Len(s) /\ Len(s) \in Nat
  OBVIOUS
<1>2. FirstOf(s, n) = SubSeq(s, 1, m)
  BY DEF FirstOf
<1> HIDE DEF m
<1>3. SubSeq(s, 1, m) = [i \in 1..m |-> s[i]]
  BY <1>1
<1> QED
  BY <1>1, <1>2, <1>3 DEF ToSet

LEMMA RowsIn ==
  ASSUME NEW u, ListsOK(u), NEW p \in ToSet(u.projects)
  PROVE  RowsOf(u, p) \in Seq(RowSet(u))
<1> DEFINE kids == u.kids[p]
           Rs == RowSet(u)
           old == FirstOf(kids.archived, ArchiveLimit)
<1>1. p \in Projects /\ KidsOK(kids, p)
  BY ToSetIn DEF ListsOK
<1>2. \A k \in RowKinds \ {"issue", "archived", "backlog"}, i \in Nat : Item(k, p, i) \in Rs
  BY <1>1 DEF RowSet, RowOK, Item
<1>3. \A i \in ToSet(kids.live) : Item("issue", p, i) \in Rs
  <2>1. ToSet(kids.live) \subseteq Nat
    BY <1>1, ToSetIn, ViewAssumption DEF KidsOK, Owned
  <2> QED
    BY <1>1, <2>1 DEF RowSet, RowOK, Item, RowKinds
<1>4. \A i \in ToSet(kids.backlog) : Item("backlog", p, i) \in Rs
  <2>1. ToSet(kids.backlog) \subseteq Nat
    BY <1>1, ToSetIn, ViewAssumption DEF KidsOK
  <2> QED
    BY <1>1, <2>1 DEF RowSet, RowOK, Item, RowKinds
<1>5. old \in Seq(Owned(p)) /\ \A i \in ToSet(old) : Item("archived", p, i) \in Rs
  <2>1. ToSet(kids.archived) \subseteq Nat
    BY <1>1, ToSetIn, ViewAssumption DEF KidsOK, Owned
  <2>2. \A i \in ToSet(kids.archived) : Item("archived", p, i) \in Rs
    BY <1>1, <2>1 DEF RowSet, RowOK, Item, RowKinds
  <2>3. old \in Seq(Owned(p)) /\ ToSet(old) \subseteq ToSet(kids.archived)
    BY <1>1, FirstOfIn, ViewAssumption DEF KidsOK
  <2> QED
    BY <2>2, <2>3
<1>6. \A i \in ToSet(kids.routines) : Item("routine", p, i) \in Rs
  <2>1. ToSet(kids.routines) \subseteq Nat
    BY <1>1, ToSetIn, ViewAssumption DEF KidsOK
  <2> QED
    BY <1>2, <2>1 DEF RowKinds
<1> DEFINE a == <<Item("project", p, None)>>
           b == <<Item("project", p, None), Item("routines", p, None)>>
           c == ItemsOf("routine", p, kids.routines)
           d == <<Item("backlogs", p, None)>>
           e == ItemsOf("backlog", p, kids.backlog)
           f == <<Item("issues", p, None)>>
           g == ItemsOf("issue", p, kids.live)
           h == <<Item("archive", p, None)>>
           k == IF p \in u.archive THEN ItemsOf("archived", p, old) ELSE <<>>
<1>7. a \in Seq(Rs) /\ b \in Seq(Rs) /\ d \in Seq(Rs) /\ f \in Seq(Rs) /\ h \in Seq(Rs)
  <2>1. \A x \in {"project", "routines", "backlogs", "issues", "archive"} :
          Item(x, p, None) \in Rs
    BY <1>2 DEF RowKinds, None
  <2> HIDE DEF Rs
  <2> QED
    BY <2>1
<1>8. c \in Seq(Rs) /\ e \in Seq(Rs) /\ g \in Seq(Rs) /\ k \in Seq(Rs)
  <2>1. c \in Seq(Rs)
    BY <1>1, <1>6, ItemsIn DEF KidsOK
  <2>2. e \in Seq(Rs)
    BY <1>1, <1>4, ItemsIn DEF KidsOK
  <2>3. g \in Seq(Rs)
    BY <1>1, <1>3, ItemsIn DEF KidsOK
  <2>4. ItemsOf("archived", p, old) \in Seq(Rs)
    BY <1>5, ItemsIn
  <2> HIDE DEF Rs
  <2>5. <<>> \in Seq(Rs)
    OBVIOUS
  <2> QED
    BY <2>1, <2>2, <2>3, <2>4, <2>5
<1>9. RowsOf(u, p) = IF p \notin u.expanded THEN a
                     ELSE b \o c \o d \o e \o f \o g \o h \o k
  BY DEF RowsOf
<1> HIDE DEF a, b, c, d, e, f, g, h, k, Rs
<1>10. b \o c \o d \o e \o f \o g \o h \o k \in Seq(Rs)
  <2>1. b \o c \o d \in Seq(Rs)
    BY <1>7, <1>8
  <2>2. b \o c \o d \o e \o f \in Seq(Rs)
    BY <1>7, <1>8, <2>1
  <2>3. b \o c \o d \o e \o f \o g \o h \in Seq(Rs)
    BY <1>7, <1>8, <2>2
  <2> QED
    BY <1>8, <2>3
<1> QED
  BY <1>7, <1>9, <1>10 DEF Rs

LEMMA TreeRowsIn ==
  ASSUME NEW u, ListsOK(u)
  PROVE  TreeRows(u) \in Seq(RowSet(u))
<1> DEFINE parts == [n \in DOMAIN u.projects |-> RowsOf(u, u.projects[n])]
<1>1. u.projects \in Seq(Projects)
  BY DEF ListsOK
<1>2. \A n \in DOMAIN u.projects : RowsOf(u, u.projects[n]) \in Seq(RowSet(u))
  BY RowsIn DEF ToSet
<1>3. parts \in Seq(Seq(RowSet(u)))
  BY <1>1, <1>2
<1>4. TreeRows(u) = FlattenSeq(parts)
  BY DEF TreeRows
<1> HIDE DEF parts
<1> QED
  BY <1>3, <1>4, FlattenType

\* The row under the cursor.
LEMMA TreeItemIs ==
  ASSUME NEW u
  PROVE  TreeItem(u) = IF u.sel \in DOMAIN TreeRows(u) THEN TreeRows(u)[u.sel] ELSE Nothing
BY DEF TreeItem, Then

LEMMA TreeItemIn ==
  ASSUME NEW u, ListsOK(u)
  PROVE  TreeItem(u) \in RowSet(u) \/ TreeItem(u) = Nothing
BY TreeItemIs, TreeRowsIn

\* The rows depend on what is loaded and unfolded only.
LEMMA SameRows ==
  ASSUME NEW u, NEW v, u.projects = v.projects, u.kids = v.kids,
         u.expanded = v.expanded, u.archive = v.archive
  PROVE  TreeRows(u) = TreeRows(v)
<1>1. \A p : RowsOf(u, p) = RowsOf(v, p)
  BY DEF RowsOf
<1> QED
  BY <1>1 DEF TreeRows

\* The issue a row of the tree is about is of the project of the row.
LEMMA IssueRow ==
  ASSUME NEW u, ListsOK(u), NEW r \in RowSet(u), IsIssue(r)
  PROVE  /\ r.project \in ToSet(u.projects) /\ r.project \in Projects
         /\ r.id \in Owned(r.project) /\ r.id \in Issues
         /\ r.id \in ToSet(u.kids[r.project].live) \cup ToSet(u.kids[r.project].archived)
<1>1. r.project \in Projects /\ RowOK(u, r)
  BY DEF RowSet
<1>2. r.id \in ToSet(u.kids[r.project].live) \cup ToSet(u.kids[r.project].archived)
  BY <1>1 DEF RowOK, IsIssue
<1>3. KidsOK(u.kids[r.project], r.project)
  BY <1>1 DEF ListsOK
<1>4. r.id \in Owned(r.project)
  BY <1>2, <1>3, ToSetIn DEF KidsOK
<1> QED
  BY <1>1, <1>2, <1>4 DEF RowOK, Owned

LEMMA IssueUnderCursor ==
  ASSUME NEW u, ListsOK(u), IsIssue(TreeItem(u))
  PROVE  /\ TreeItem(u) \in RowSet(u)
         /\ TreeItem(u).project \in ToSet(u.projects) /\ TreeItem(u).project \in Projects
         /\ TreeItem(u).id \in Owned(TreeItem(u).project) /\ TreeItem(u).id \in Issues
         /\ TreeItem(u).id \in ToSet(u.kids[TreeItem(u).project].live)
                                \cup ToSet(u.kids[TreeItem(u).project].archived)
<1>1. TreeItem(u) \in RowSet(u)
  <2>1. ~IsIssue(Nothing)
    BY DEF IsIssue, Nothing, Item
  <2> QED
    BY <2>1, TreeItemIn
<1> QED
  BY <1>1, IssueRow

-----------------------------------------------------------------------------
(* What is shown                                                           *)

\* The fields that what is shown is made of.
Shown == {"projects", "kids", "expanded", "archive", "proj"}

\* Lists of the rows they are said to be, folds of projects that are loaded, and
\* a cursor on one of the projects.
ShownOK(u) ==
  /\ DOMAIN u = Fields
  /\ ListsOK(u)
  /\ u.expanded \cup u.archive \subseteq ToSet(u.projects)
  /\ u.proj \in Nat \ {0}
  /\ u.projects # <<>> => u.proj <= Len(u.projects)

LEMMA ShownFrame ==
  ASSUME NEW u, NEW v, NEW S, ShownOK(u), Same(u, v, S), S \cap Shown = {}
  PROVE  ShownOK(v)
<1>1. Shown \subseteq Fields \ S
  BY DEF Shown, Fields, NewUi
<1>2. /\ v.projects = u.projects /\ v.kids = u.kids /\ v.expanded = u.expanded
      /\ v.archive = u.archive /\ v.proj = u.proj
  BY <1>1 DEF Same, ShownOK, Shown
<1>3. DOMAIN v = Fields
  BY DEF Same, ShownOK
<1>4. ListsOK(v)
  BY <1>2 DEF ShownOK, ListsOK
<1> QED
  BY <1>2, <1>3, <1>4 DEF ShownOK

LEMMA ActiveIn ==
  ASSUME NEW u, ShownOK(u)
  PROVE  /\ Active(u) = None \/ Active(u) \in ToSet(u.projects)
         /\ Active(u) = None \/ Active(u) \in Projects
         /\ u.projects # <<>> => Active(u) \in ToSet(u.projects)
<1>1. u.projects \in Seq(Projects)
  BY DEF ShownOK, ListsOK
<1>2. u.projects # <<>> => u.proj \in DOMAIN u.projects
  BY <1>1 DEF ShownOK
<1> QED
  BY <1>1, <1>2 DEF Active, ToSet

LEMMA SyncActiveShown ==
  ASSUME NEW u, ShownOK(u)
  PROVE  ShownOK(SyncActive(u))
<1> DEFINE at == {n \in DOMAIN u.projects : u.projects[n] = TreeItem(u).project}
           v == [u EXCEPT !.proj = First(at)]
<1>1. SyncActive(u) = IF at = {} THEN u ELSE v
  BY SyncActiveIs
<1>2. at \subseteq DOMAIN u.projects
  OBVIOUS
<1> HIDE DEF at
<1>3. u.projects \in Seq(Projects)
  BY DEF ShownOK, ListsOK
<1>4. at # {} => First(at) \in DOMAIN u.projects
  <2>1. at \subseteq Nat
    BY <1>2, <1>3
  <2> QED
    BY <1>2, <2>1, FirstIn
<1>5. at # {} => ShownOK(v)
  <2> DEFINE n == First(at)
  <2> SUFFICES ASSUME n \in DOMAIN u.projects PROVE ShownOK([u EXCEPT !.proj = n])
    BY <1>4
  <2> HIDE DEF n
  <2>1. n \in Nat \ {0} /\ n <= Len(u.projects)
    BY <1>3
  <2> DEFINE w == [u EXCEPT !.proj = n]
  <2>2. /\ DOMAIN w = Fields /\ w.projects = u.projects /\ w.kids = u.kids
        /\ w.expanded = u.expanded /\ w.archive = u.archive /\ w.proj = n
    BY DEF ShownOK, Fields, NewUi
  <2> HIDE DEF w
  <2>3. ShownOK(w)
    BY <2>1, <2>2 DEF ShownOK, ListsOK
  <2> QED
    BY <2>3 DEF w
<1> QED
  BY <1>1, <1>5

LEMMA ClampTreeShown == ASSUME NEW u, ShownOK(u) PROVE ShownOK(ClampTree(u))
BY ClampTreeFrame, ShownFrame DEF Shown

LEMMA SelectTreeShown ==
  ASSUME NEW u, ShownOK(u), NEW k, NEW i
  PROVE  ShownOK(SelectTree(u, k, i))
<1> DEFINE test(row) ==
             row.kind = k /\ (IF k = "project" THEN row.project ELSE row.id) = i
           at == RowIndexes(u, test)
           v == IF at = {} THEN u ELSE [u EXCEPT !.sel = First(at)]
<1>1. SelectTree(u, k, i) = SyncActive(v)
  BY SelectTreeIs
<1>2. Same(u, v, {"sel"})
  BY DEF Same, Fields, NewUi
<1> HIDE DEF v
<1>3. ShownOK(v)
  BY <1>2, ShownFrame DEF Shown
<1> QED
  BY <1>1, <1>3, SyncActiveShown

LEMMA FoldsShown ==
  ASSUME NEW u, ShownOK(u), NEW E, NEW A, E \cup A \subseteq ToSet(u.projects),
         NEW v, Same(u, v, {"expanded", "archive"}), v.expanded = E, v.archive = A
  PROVE  ShownOK(v)
<1>1. /\ DOMAIN v = Fields /\ v.projects = u.projects /\ v.kids = u.kids /\ v.proj = u.proj
  BY DEF Same, ShownOK, Fields, NewUi
<1> QED
  BY <1>1 DEF ShownOK, ListsOK

LEMMA UnfoldedShown ==
  ASSUME NEW u, ShownOK(u), NEW p \in ToSet(u.projects), NEW i
  PROVE  ShownOK(Unfolded(u, p, i))
<1> DEFINE v == Unfolded(u, p, i)
           A == IF i \in ToSet(u.kids[p].archived) THEN u.archive \cup {p} ELSE u.archive
<1>1. Same(u, v, {"expanded", "archive"})
  BY DEF Same, Fields, NewUi, Unfolded
<1>2. v.expanded = u.expanded \cup {p} /\ v.archive = A
  BY DEF ShownOK, Fields, NewUi, Unfolded
<1>3. (u.expanded \cup {p}) \cup A \subseteq ToSet(u.projects)
  BY DEF ShownOK
<1> HIDE DEF v, A
<1>4. ShownOK(v)
  BY <1>1, <1>2, <1>3, FoldsShown
<1> QED
  BY <1>4 DEF v

LEMMA PreserveIssueShown ==
  ASSUME NEW u, ShownOK(u), NEW p \in ToSet(u.projects), NEW i
  PROVE  ShownOK(PreserveIssue(u, p, i))
<1> DEFINE w == Unfolded(u, p, i)
           at == Places(w, ItemIn(u, p, i))
           v == [w EXCEPT !.sel = First(at)]
<1>1. PreserveIssue(u, p, i) \in {u, w, SyncActive(v)}
  BY PreserveIssueIs
<1>2. ShownOK(w)
  BY UnfoldedShown
<1> HIDE DEF w
<1>3. Same(w, v, {"sel"})
  BY DEF Same, Fields, NewUi
<1> HIDE DEF v
<1>4. ShownOK(SyncActive(v))
  BY <1>2, <1>3, ShownFrame, SyncActiveShown DEF Shown
<1> QED
  BY <1>1, <1>2, <1>4

LEMMA KidsShown ==
  ASSUME NEW u, ShownOK(u), NEW v, Same(u, v, {"kids"}), DOMAIN v.kids = Projects,
         \A p \in Projects : KidsOK(v.kids[p], p)
  PROVE  ShownOK(v)
<1>1. /\ DOMAIN v = Fields /\ v.projects = u.projects /\ v.proj = u.proj
      /\ v.expanded = u.expanded /\ v.archive = u.archive
  BY DEF Same, ShownOK, Fields, NewUi
<1> QED
  BY <1>1 DEF ShownOK, ListsOK

LEMMA RefreshChildrenShown ==
  ASSUME NEW u, ShownOK(u), NEW d, DbOK(d), NEW p, p \in Projects \/ p = None
  PROVE  ShownOK(RefreshChildren(u, d, p))
<1> DEFINE c == Children(d, p)
           v == [u EXCEPT !.kids[p] = c]
<1>1. RefreshChildren(u, d, p) = IF p = None THEN u ELSE v
  BY DEF RefreshChildren
<1>2. CASE p = None
  BY <1>1, <1>2
<1>3. CASE p \in Projects
  <2>1. KidsOK(c, p)
    BY ChildrenOK
  <2> HIDE DEF c
  <2>2. Same(u, v, {"kids"})
    BY DEF Same, Fields, NewUi
  <2>3. v.kids = [u.kids EXCEPT ![p] = c]
    BY DEF ShownOK, Fields, NewUi
  <2>4. DOMAIN v.kids = Projects /\ \A q \in Projects : v.kids[q] = IF q = p THEN c ELSE u.kids[q]
    BY <1>3, <2>3 DEF ShownOK, ListsOK
  <2> HIDE DEF v
  <2>5. \A q \in Projects : KidsOK(v.kids[q], q)
    BY <2>1, <2>4 DEF ShownOK, ListsOK
  <2>6. ShownOK(v)
    BY <2>2, <2>4, <2>5, KidsShown
  <2>7. p # None
    BY <1>3, ViewAssumption DEF None
  <2> QED
    BY <1>1, <2>6, <2>7
<1> QED
  BY <1>2, <1>3

LEMMA RefreshActiveShown ==
  ASSUME NEW u, ShownOK(u), NEW d, DbOK(d)
  PROVE  ShownOK(RefreshActive(u, d))
BY ActiveIn, RefreshChildrenShown DEF RefreshActive

LEMMA RefreshIssuesShown ==
  ASSUME NEW u, ShownOK(u), NEW d, DbOK(d)
  PROVE  ShownOK(RefreshIssues(u, d))
<1> DEFINE v == RefreshActive(u, d)
           r == TreeItem(u)
           w == PreserveIssue(v, r.project, r.id)
<1>1. ShownOK(v)
  BY RefreshActiveShown
<1>2. RefreshIssues(u, d) = IF IsIssue(r) THEN w ELSE v
  BY RefreshIssuesIs
<1>3. v.projects = u.projects
  BY RefreshActiveFrame DEF Same, ShownOK, Fields, NewUi
<1>4. IsIssue(r) => r.project \in ToSet(u.projects)
  <2>1. r \in RowSet(u) \/ r = Nothing
    BY TreeItemIn DEF ShownOK
  <2>2. ~IsIssue(Nothing)
    BY DEF IsIssue, Nothing, Item
  <2> HIDE DEF r
  <2> QED
    BY <2>1, <2>2 DEF RowSet, RowOK
<1> HIDE DEF v, r
<1>5. IsIssue(r) => ShownOK(w)
  BY <1>1, <1>3, <1>4, PreserveIssueShown
<1> QED
  BY <1>1, <1>2, <1>5

LEMMA RefreshProjectsShown ==
  ASSUME NEW u, ShownOK(u), NEW d, DbOK(d)
  PROVE  ShownOK(RefreshProjects(u, d)) /\ RefreshProjects(u, d).projects = d.projects
<1> DEFINE gone == {p \in Projects : p \notin ToSet(d.projects)}
           len == Len(d.projects)
           cursor == IF u.proj > len THEN Stepped(u.proj, 0, len) ELSE u.proj
           kids == [p \in Projects |-> IF p \in gone THEN NoChildren ELSE u.kids[p]]
           E == u.expanded \ gone
           A == u.archive \ gone
           all == ToSet(d.projects)
           v == [u EXCEPT !.projects = d.projects, !.proj = cursor, !.kids = kids,
                          !.expanded = E, !.archive = A]
           w == [v EXCEPT !.expanded = all]
<1>1. RefreshProjects(u, d) \in {v, w}
  BY DEF RefreshProjects
<1>2. d.projects \in Seq(Projects) /\ u.projects \in Seq(Projects)
  BY DEF DbOK, ShownOK, ListsOK
<1>3. cursor \in Nat \ {0} /\ (d.projects # <<>> => cursor <= Len(d.projects))
  <2>1. len \in Nat /\ (d.projects # <<>> => len # 0) /\ u.proj \in Nat \ {0}
    BY <1>2 DEF ShownOK
  <2> HIDE DEF len
  <2>2. /\ Stepped(u.proj, 0, len) \in Nat \ {0}
        /\ len # 0 => Stepped(u.proj, 0, len) <= len
    <3> DEFINE n == u.proj
    <3>1. n \in Int /\ len \in Nat
      BY <2>1
    <3> HIDE DEF n
    <3>2. Stepped(n, 0, len) \in Nat \ {0} /\ (len # 0 => Stepped(n, 0, len) <= len)
      BY <3>1, SteppedIn
    <3> QED
      BY <3>2 DEF n
  <2>3. cursor \in Nat \ {0} /\ (len # 0 => cursor <= len)
    BY <2>1, <2>2
  <2> QED
    BY <2>1, <2>3 DEF len
<1>4. DOMAIN kids = Projects /\ \A p \in Projects : KidsOK(kids[p], p)
  BY NoChildrenOK DEF ShownOK, ListsOK
<1>5. E \cup A \subseteq all /\ all \cup A \subseteq all
  <2>1. u.expanded \cup u.archive \subseteq Projects
    BY <1>2, ToSetIn DEF ShownOK
  <2> QED
    BY <2>1
<1> HIDE DEF gone, cursor, kids, E, A, all
<1>6. /\ DOMAIN v = Fields /\ v.projects = d.projects /\ v.proj = cursor /\ v.kids = kids
      /\ v.expanded = E /\ v.archive = A
      /\ DOMAIN w = Fields /\ w.projects = d.projects /\ w.proj = cursor /\ w.kids = kids
      /\ w.expanded = all /\ w.archive = A
  BY DEF ShownOK, Fields, NewUi
<1> HIDE DEF v, w
<1>7. ShownOK(v) /\ ShownOK(w)
  BY <1>2, <1>3, <1>4, <1>5, <1>6 DEF ShownOK, ListsOK, all
<1> QED
  BY <1>1, <1>6, <1>7

LEMMA RefreshDetailShown ==
  ASSUME NEW u, ShownOK(u), NEW d
  PROVE  ShownOK(RefreshDetail(u, d)) /\ ShownOK(RefreshActivity(u))
         /\ ShownOK(RefreshActivity(RefreshDetail(u, d)))
<1>1. ShownOK(RefreshDetail(u, d))
  BY RefreshDetailFrame, ShownFrame DEF Shown
<1>2. \A v : ShownOK(v) => ShownOK(RefreshActivity(v))
  BY RefreshActivityFrame, ShownFrame DEF Shown
<1> QED
  BY <1>1, <1>2

-----------------------------------------------------------------------------
(* The issue under the cursor                                              *)

\* The places of the rows about an issue, and that the cursor is on one of them.
RowsAbout(u, i) == {n \in DOMAIN TreeRows(u) : IsIssue(TreeRows(u)[n]) /\ TreeRows(u)[n].id = i}
OnIssue(u, i) == RowsAbout(u, i) = {} \/ u.sel \in RowsAbout(u, i)

\* Every row about an issue is the one row the issue has where it is loaded.
LEMMA RowsAboutIs ==
  ASSUME NEW u, ListsOK(u), NEW p \in Projects, NEW i \in Owned(p)
  PROVE  RowsAbout(u, i) = IF i \in ToSet(u.kids[p].live) \cup ToSet(u.kids[p].archived)
                           THEN Places(u, ItemIn(u, p, i)) ELSE {}
<1> DEFINE kids == u.kids[p]
           rows == TreeRows(u)
<1>1. rows \in Seq(RowSet(u))
  BY TreeRowsIn
<1>2. KidsOK(kids, p)
  BY DEF ListsOK
<1>3. ASSUME NEW n \in RowsAbout(u, i)
      PROVE  /\ rows[n] = ItemIn(u, p, i)
             /\ i \in ToSet(kids.live) \cup ToSet(kids.archived)
  <2> DEFINE r == rows[n]
  <2>1. r \in RowSet(u) /\ IsIssue(r) /\ r.id = i
    BY <1>1 DEF RowsAbout
  <2> HIDE DEF r
  <2>2. r.project = p
    <3>1. r.id \in Owned(r.project)
      BY <2>1, IssueRow
    <3> QED
      BY <2>1, <3>1 DEF Owned
  <2>3. i \in ToSet(kids.live) \cup ToSet(kids.archived)
    BY <2>1, <2>2, IssueRow
  <2>4. r.kind = IF i \in ToSet(kids.archived) THEN "archived" ELSE "issue"
    <3>1. r.kind \in {"issue", "archived"} /\ RowOK(u, r)
      BY <2>1 DEF IsIssue, RowSet
    <3>2. (r.kind = "issue" => i \in ToSet(kids.live))
          /\ (r.kind = "archived" => i \in ToSet(kids.archived))
      BY <2>1, <2>2, <3>1 DEF RowOK
    <3> QED
      BY <1>2, <3>1, <3>2 DEF KidsOK
  <2>5. r = Item(r.kind, r.project, r.id)
    BY <2>1 DEF RowSet, Item
  <2>6. r = ItemIn(u, p, i)
    BY <2>1, <2>2, <2>4, <2>5 DEF ItemIn
  <2> QED
    BY <2>3, <2>6 DEF r
<1>4. ItemIn(u, p, i).id = i /\ IsIssue(ItemIn(u, p, i))
  BY DEF ItemIn, IsIssue, Item
<1>5. Places(u, ItemIn(u, p, i)) \subseteq RowsAbout(u, i)
  BY <1>4 DEF Places, RowsAbout
<1>6. RowsAbout(u, i) \subseteq Places(u, ItemIn(u, p, i))
  BY <1>3 DEF Places, RowsAbout
<1> QED
  BY <1>3, <1>5, <1>6

LEMMA SameAbout ==
  ASSUME NEW u, NEW v, NEW S, DOMAIN u = Fields, Same(u, v, S),
         S \cap {"projects", "kids", "expanded", "archive", "sel"} = {}, NEW i, OnIssue(u, i)
  PROVE  OnIssue(v, i)
<1>1. {"projects", "kids", "expanded", "archive", "sel"} \subseteq Fields \ S
  BY DEF Fields, NewUi
<1>2. /\ u.projects = v.projects /\ u.kids = v.kids /\ u.expanded = v.expanded
      /\ u.archive = v.archive /\ u.sel = v.sel
  BY <1>1 DEF Same
<1>3. TreeRows(u) = TreeRows(v)
  BY <1>2, SameRows
<1> QED
  BY <1>2, <1>3 DEF OnIssue, RowsAbout

LEMMA PreserveIssueFollows ==
  ASSUME NEW u, ShownOK(u), NEW p \in ToSet(u.projects), NEW i \in Owned(p)
  PROVE  OnIssue(PreserveIssue(u, p, i), i)
<1> DEFINE loaded == i \in ToSet(u.kids[p].live) \cup ToSet(u.kids[p].archived)
           x == Unfolded(u, p, i)
           at == Places(x, ItemIn(u, p, i))
           y == [x EXCEPT !.sel = First(at)]
<1>0. p \in Projects
  BY ToSetIn DEF ShownOK, ListsOK
<1>1. PreserveIssue(u, p, i) = IF ~loaded THEN u
                               ELSE IF at = {} THEN x ELSE SyncActive(y)
  BY PreserveIssueIs
<1>2. CASE ~loaded
  <2>1. RowsAbout(u, i) = {}
    BY <1>0, <1>2, RowsAboutIs DEF ShownOK
  <2> QED
    BY <1>1, <1>2, <2>1 DEF OnIssue
<1>3. CASE loaded
  <2>1. ShownOK(x)
    BY UnfoldedShown
  <2>2. x.kids = u.kids
    BY DEF Unfolded, ShownOK, Fields, NewUi
  <2>3. ItemIn(x, p, i) = ItemIn(u, p, i)
    BY <2>2 DEF ItemIn
  <2>4. RowsAbout(x, i) = at
    <3> HIDE DEF x
    <3> QED
      BY <1>0, <1>3, <2>1, <2>2, <2>3, RowsAboutIs DEF ShownOK
  <2> HIDE DEF x
  <2>5. CASE at = {}
    BY <1>1, <1>3, <2>4, <2>5 DEF OnIssue
  <2>6. CASE at # {}
    <3>1. at \subseteq Nat
      BY <2>1, TreeRowsIn DEF Places, ShownOK
    <3> DEFINE n == First(at)
               z == [x EXCEPT !.sel = n]
    <3>2. n \in at
      <4> HIDE DEF at
      <4> QED
        BY <2>6, <3>1, FirstIn
    <3> HIDE DEF n, at
    <3>3. /\ DOMAIN z = Fields /\ z.projects = x.projects /\ z.kids = x.kids
          /\ z.expanded = x.expanded /\ z.archive = x.archive /\ z.sel = n
      BY <2>1 DEF ShownOK, Fields, NewUi
    <3> HIDE DEF z
    <3>4. TreeRows(z) = TreeRows(x)
      BY <3>3, SameRows
    <3>5. OnIssue(z, i)
      BY <2>4, <3>2, <3>3, <3>4 DEF OnIssue, RowsAbout
    <3>6. OnIssue(SyncActive(z), i)
      BY <3>3, <3>5, SyncActiveFrame, SameAbout
    <3> QED
      BY <1>1, <1>3, <2>6, <3>6 DEF z, n
  <2> QED
    BY <2>5, <2>6
<1> QED
  BY <1>2, <1>3

\* A project an issue under the cursor is looked up in again is its own.
LEMMA ReselectedIs ==
  ASSUME NEW u, ShownOK(u), NEW p \in ToSet(u.projects), NEW i, i \in Owned(p)
  PROVE  Reselected(u, i) \in {u, PreserveIssue(u, p, i)}
<1> DEFINE ps == {q \in Projects : i \in ToSet(u.kids[q].live) \cup ToSet(u.kids[q].archived)}
<1>1. Reselected(u, i) = IF ps = {} THEN u ELSE PreserveIssue(u, First(ps), i)
  BY DEF Reselected
<1>2. ps \subseteq {p}
  <2> SUFFICES ASSUME NEW q \in ps PROVE q = p
    OBVIOUS
  <2>1. i \in Owned(q)
    BY ToSetIn DEF ShownOK, ListsOK, KidsOK
  <2> QED
    BY <2>1 DEF Owned
<1>3. ps # {} => First(ps) = p
  <2>1. ps \subseteq Nat
    BY ViewAssumption
  <2> HIDE DEF ps
  <2> QED
    BY <1>2, <2>1, FirstIn
<1> QED
  BY <1>1, <1>3

LEMMA AgainIs ==
  ASSUME NEW u, ShownOK(u), NEW d, DbOK(d), NEW i
  PROVE  LET v == RefreshIssues(u, d)
         IN  /\ ShownOK(v) /\ ShownOK(Again(u, v, i))
             /\ IsIssue(TreeItem(u))
                => OnIssue(v, TreeItem(u).id) /\ OnIssue(Again(u, v, i), TreeItem(u).id)
<1> DEFINE r == TreeItem(u)
           x == RefreshActive(u, d)
           v == RefreshIssues(u, d)
           w == Again(u, v, i)
<1>1. ShownOK(x) /\ ShownOK(v)
  BY RefreshActiveShown, RefreshIssuesShown
<1>2. v = IF IsIssue(r) THEN PreserveIssue(x, r.project, r.id) ELSE x
  BY RefreshIssuesIs
<1>3. CASE ~IsIssue(r)
  BY <1>1, <1>3 DEF Again
<1>4. CASE IsIssue(r)
  <2>1. r.project \in ToSet(u.projects) /\ r.id \in Owned(r.project)
    BY <1>4, IssueUnderCursor DEF ShownOK
  <2>2. x.projects = u.projects
    BY RefreshActiveFrame DEF Same, ShownOK, Fields, NewUi
  <2>3. v.projects = x.projects
    <3> HIDE DEF x, r
    <3>1. Same(x, v, {"expanded", "archive", "sel", "proj"})
      BY <1>2, <1>4, PreserveIssueFrame
    <3> HIDE DEF v
    <3> QED
      BY <1>1, <3>1 DEF Same, ShownOK, Fields, NewUi
  <2> HIDE DEF r, x
  <2>4. OnIssue(v, r.id)
    BY <1>1, <1>2, <1>4, <2>1, <2>2, PreserveIssueFollows
  <2>5. w \in {v, PreserveIssue(v, r.project, r.id)}
    <3>1. Reselected(v, r.id) \in {v, PreserveIssue(v, r.project, r.id)}
      <4> HIDE DEF v
      <4> QED
        BY <1>1, <2>1, <2>2, <2>3, ReselectedIs
    <3>2. w \in {v, Reselected(v, r.id)}
      BY DEF Again, r
    <3> QED
      BY <3>1, <3>2
  <2> HIDE DEF v, w
  <2>6. ShownOK(w) /\ OnIssue(w, r.id)
    BY <1>1, <2>1, <2>2, <2>3, <2>4, <2>5, PreserveIssueShown, PreserveIssueFollows
  <2> QED
    BY <1>1, <2>4, <2>6 DEF r, v, w
<1> QED
  BY <1>3, <1>4

LEMMA HandledFollows ==
  ASSUME NEW u, ShownOK(u), NEW d, DbOK(d), NEW e, e.kind \in {"status", "rows"}
  PROVE  /\ ShownOK(Handled(u, d, e))
         /\ IsIssue(TreeItem(u)) => OnIssue(Handled(u, d, e), TreeItem(u).id)
<1> DEFINE v == RefreshIssues(u, d)
           w == IF e.kind = "status" THEN Again(u, v, e.id) ELSE v
           x == RefreshDetail(w, d)
           y == RefreshActivity(x)
<1>1. Handled(u, d, e) = y
  BY HandledIs
<1>2. ShownOK(w) /\ (IsIssue(TreeItem(u)) => OnIssue(w, TreeItem(u).id))
  BY AgainIs
<1> HIDE DEF w
<1>3. ShownOK(x) /\ ShownOK(y)
  BY <1>2, RefreshDetailShown
<1>4. Same(w, x, {"detail", "detailStatus", "runs"})
  BY RefreshDetailFrame
<1> HIDE DEF x
<1>5. Same(x, y, {"activity"})
  BY RefreshActivityFrame
<1> HIDE DEF y
<1>6. IsIssue(TreeItem(u)) => OnIssue(y, TreeItem(u).id)
  BY <1>2, <1>3, <1>4, <1>5, SameAbout DEF ShownOK
<1> QED
  BY <1>1, <1>3, <1>6

-----------------------------------------------------------------------------
(* What is shown, and the detail: one step                                 *)

\* A detail has a status exactly if there is one.
DetailOK(u) == u.detail = None <=> u.detailStatus = Absent
Fit(u) == ShownOK(u) /\ DetailOK(u)

LEMMA FitFrame ==
  ASSUME NEW u, NEW v, NEW S, Fit(u), Same(u, v, S), S \cap {"detail", "detailStatus"} = {},
         ShownOK(v) \/ S \cap Shown = {}
  PROVE  Fit(v)
<1>1. ShownOK(v)
  BY ShownFrame DEF Fit
<1>2. {"detail", "detailStatus"} \subseteq Fields \ S
  BY DEF Fields, NewUi
<1>3. v.detail = u.detail /\ v.detailStatus = u.detailStatus
  BY <1>2 DEF Same, Fit, ShownOK
<1> QED
  BY <1>1, <1>3 DEF Fit, DetailOK

\* A handler that leaves alone what is loaded and shown, and the detail.
LEMMA AsideFit ==
  ASSUME NEW u, Fit(u), NEW v, NEW S, Same(u, v, S),
         S \cap (Shown \cup {"detail", "detailStatus"}) = {}
  PROVE  Fit(v)
<1>1. S \cap Shown = {} /\ S \cap {"detail", "detailStatus"} = {}
  OBVIOUS
<1> QED
  BY <1>1, FitFrame

LEMMA FitDetail ==
  ASSUME NEW u, ShownOK(u), NEW d
  PROVE  Fit(RefreshDetail(u, d)) /\ Fit(RefreshActivity(RefreshDetail(u, d)))
<1> DEFINE i == SelectedIssue(u)
           v == Loaded(u, d, i)
           w == Unloaded(u)
           x == RefreshDetail(u, d)
<1>1. x = IF i # None THEN RefreshRuns(v) ELSE w
  BY RefreshDetailIs
<1> HIDE DEF i
<1>2. DetailOK(w)
  BY DEF DetailOK, Unloaded, ShownOK, Fields, NewUi
<1>3. i # None => DetailOK(v)
  BY DEF DetailOK, Loaded, ShownOK, Fields, NewUi
<1>4. DOMAIN v = Fields
  BY DEF Loaded, ShownOK, Fields, NewUi
<1> HIDE DEF v, w
<1>5. i # None => DetailOK(RefreshRuns(v))
  <2> DEFINE r == SelectedIssue(v)
  <2>1. RefreshRuns(v) = [v EXCEPT !.runs = r]
    BY DEF RefreshRuns
  <2> HIDE DEF r
  <2> QED
    BY <1>3, <1>4, <2>1 DEF DetailOK, Fields, NewUi
<1>6. Fit(x)
  BY <1>1, <1>2, <1>5, RefreshDetailShown DEF Fit
<1> HIDE DEF x
<1>7. Fit(RefreshActivity(x))
  BY <1>6, RefreshActivityFrame, FitFrame DEF Shown
<1> QED
  BY <1>6, <1>7 DEF x

LEMMA FitActivity == ASSUME NEW u, Fit(u) PROVE Fit(RefreshActivity(u))
BY RefreshActivityFrame, FitFrame DEF Shown

LEMMA AskingFit == ASSUME Fit(ui), NEW v, Fit(v), Asking(v)
                   PROVE  Fit(ui')
BY DEF Asking

LEMMA RefreshActiveFit ==
  ASSUME NEW u, Fit(u), NEW d, DbOK(d)
  PROVE  Fit(RefreshActive(u, d))
<1>1. ShownOK(RefreshActive(u, d)) /\ Same(u, RefreshActive(u, d), {"kids"})
  BY RefreshActiveShown, RefreshActiveFrame DEF Fit
<1> QED
  BY <1>1, FitFrame

LEMMA RefreshIssuesFit ==
  ASSUME NEW u, Fit(u), NEW d, DbOK(d)
  PROVE  Fit(RefreshIssues(u, d))
<1>1. /\ ShownOK(RefreshIssues(u, d))
      /\ Same(u, RefreshIssues(u, d), {"kids", "expanded", "archive", "sel", "proj"})
  BY RefreshIssuesShown, RefreshIssuesFrame DEF Fit
<1> QED
  BY <1>1, FitFrame

LEMMA RefreshAllFit ==
  ASSUME NEW u, ShownOK(u), NEW d, DbOK(d)
  PROVE  Fit(RefreshAll(u, d))
<1> DEFINE v == RefreshProjects(u, d)
           kids == [p \in Projects |->
                     IF p \in ToSet(d.projects) THEN Children(d, p) ELSE v.kids[p]]
           w == [v EXCEPT !.kids = kids]
           x == SyncActive(ClampTree(w))
<1>1. RefreshAll(u, d) = RefreshActivity(RefreshDetail(x, d))
  BY RefreshAllIs DEF RefreshedAll
<1>2. ShownOK(v)
  BY RefreshProjectsShown
<1> HIDE DEF v
<1>3. DOMAIN kids = Projects /\ \A p \in Projects : KidsOK(kids[p], p)
  BY <1>2, ChildrenOK DEF ShownOK, ListsOK
<1> HIDE DEF kids
<1>4. Same(v, w, {"kids"}) /\ w.kids = kids
  BY <1>2 DEF Same, ShownOK, Fields, NewUi
<1> HIDE DEF w
<1>5. ShownOK(w)
  BY <1>2, <1>3, <1>4, KidsShown
<1>6. ShownOK(x)
  BY <1>5, ClampTreeShown, SyncActiveShown
<1> HIDE DEF x
<1> QED
  BY <1>1, <1>6, FitDetail

LEMMA SelectTreeFit ==
  ASSUME NEW u, Fit(u), NEW k, NEW i
  PROVE  Fit(SelectTree(u, k, i))
<1>1. ShownOK(SelectTree(u, k, i)) /\ Same(u, SelectTree(u, k, i), {"sel", "proj"})
  BY SelectTreeShown, SelectTreeFrame DEF Fit
<1> QED
  BY <1>1, FitFrame

LEMMA KidsFit ==
  ASSUME NEW u, Fit(u), NEW p \in Projects, NEW k, KidsOK(k, p)
  PROVE  Fit([u EXCEPT !.kids = [u.kids EXCEPT ![p] = k]])
<1> DEFINE kids == [u.kids EXCEPT ![p] = k]
           v == [u EXCEPT !.kids = kids]
<1>1. DOMAIN kids = Projects /\ \A q \in Projects : KidsOK(kids[q], q)
  <2>1. DOMAIN u.kids = Projects /\ \A q \in Projects : KidsOK(u.kids[q], q)
    BY DEF Fit, ShownOK, ListsOK
  <2>2. \A q \in Projects : kids[q] = IF q = p THEN k ELSE u.kids[q]
    BY <2>1
  <2> QED
    BY <2>1, <2>2
<1> HIDE DEF kids
<1>2. Same(u, v, {"kids"}) /\ v.kids = kids
  BY DEF Same, Fit, ShownOK, Fields, NewUi
<1> HIDE DEF v
<1>3. ShownOK(v)
  BY <1>1, <1>2, KidsShown DEF Fit
<1>4. Fit(v)
  BY <1>2, <1>3, FitFrame
<1> QED
  BY <1>4 DEF v, kids

LEMMA HandledFit ==
  ASSUME Fit(ui), DbOK(db), NEW e, e.kind \in Kinds
  PROVE  Fit(Handled(ui, db, e))
<1>1. CASE e.kind \in {"status", "rows"}
  <2> DEFINE v == RefreshIssues(ui, db)
             w == IF e.kind = "status" THEN Again(ui, v, e.id) ELSE v
  <2>1. Handled(ui, db, e) = RefreshActivity(RefreshDetail(w, db))
    BY <1>1, HandledIs
  <2>2. ShownOK(w)
    BY AgainIs DEF Fit
  <2> HIDE DEF w
  <2> QED
    BY <2>1, <2>2, FitDetail
<1>2. CASE e.kind = "log"
  <2> DEFINE r == SelectedIssue(ui)
  <2>1. Handled(ui, db, e) \in {ui, [ui EXCEPT !.runs = r]}
    BY <1>2 DEF Handled, RefreshRuns
  <2> HIDE DEF r
  <2>2. Same(ui, [ui EXCEPT !.runs = r], {"runs"})
    BY DEF Same, Fields, NewUi
  <2>3. Fit([ui EXCEPT !.runs = r])
    BY <2>2, FitFrame DEF Shown
  <2> QED
    BY <2>1, <2>3
<1>3. CASE e.kind \in {"backlog", "jobs"}
  <2>1. Handled(ui, db, e) = RefreshActivity(RefreshActive(ui, db))
    BY <1>3 DEF Handled
  <2>2. ShownOK(RefreshActive(ui, db)) /\ Same(ui, RefreshActive(ui, db), {"kids"})
    BY RefreshActiveShown, RefreshActiveFrame DEF Fit
  <2>3. Fit(RefreshActive(ui, db))
    BY <2>2, FitFrame
  <2> QED
    BY <2>1, <2>3, FitActivity
<1>4. CASE e.kind = "tick"
  <2> DEFINE w == IF e.id \in ToSet(db.projects) THEN RefreshChildren(ui, db, e.id) ELSE ui
  <2>1. Handled(ui, db, e) \in {w, RefreshActivity(w)}
    BY <1>4 DEF Handled
  <2>2. e.id \in ToSet(db.projects) => Fit(RefreshChildren(ui, db, e.id))
    <3> SUFFICES ASSUME e.id \in ToSet(db.projects) PROVE Fit(RefreshChildren(ui, db, e.id))
      OBVIOUS
    <3>1. e.id \in Projects
      BY ToSetIn DEF DbOK
    <3> DEFINE p == e.id
    <3> HIDE DEF p
    <3>2. ShownOK(RefreshChildren(ui, db, p)) /\ Same(ui, RefreshChildren(ui, db, p), {"kids"})
      BY <3>1, RefreshChildrenShown, RefreshChildrenFrame DEF Fit, p
    <3>3. Fit(RefreshChildren(ui, db, p))
      BY <3>2, FitFrame
    <3> QED
      BY <3>3 DEF p
  <2>3. Fit(w)
    BY <2>2
  <2> HIDE DEF w
  <2> QED
    BY <2>1, <2>3, FitActivity
<1> QED
  BY <1>1, <1>2, <1>3, <1>4 DEF Kinds

LEMMA PolledFit ==
  ASSUME Fit(ui), DbOK(db)
  PROVE  Fit(Polled(ui, db))
<1> DEFINE x == RefreshActive(ui, db)
           rows == IF ui.move \/ Active(ui) = None THEN ui ELSE RefreshActivity(x)
<1>1. Polled(ui, db) \in {ui, rows, RefreshDetail(rows, db)}
  BY PolledIs
<1>2. ShownOK(x) /\ Same(ui, x, {"kids"})
  BY RefreshActiveShown, RefreshActiveFrame DEF Fit
<1> HIDE DEF x
<1>3. Fit(rows)
  BY <1>2, FitFrame, FitActivity
<1> HIDE DEF rows
<1> QED
  BY <1>1, <1>3, FitDetail DEF Fit

LEMMA KeyFit == ASSUME Fit(ui) PROVE Fit(Key(ui))
BY KeyFrame, FitFrame DEF Shown

LEMMA MoveSelFit ==
  ASSUME NEW u, Fit(u), NEW delta
  PROVE  Fit(MoveSel(u, delta))
<1> DEFINE n == Stepped(u.sel, delta, Len(TreeRows(u)))
           w == [u EXCEPT !.sel = n]
           v == SyncActive(w)
<1>1. MoveSel(u, delta) \in {u, RefreshDetail(v, db), RefreshActivity(v)}
  BY DEF MoveSel
<1> HIDE DEF n
<1>2. Same(u, w, {"sel"})
  BY DEF Same, Fields, NewUi
<1> HIDE DEF w
<1>3. Fit(w)
  BY <1>2, FitFrame DEF Shown
<1>4. ShownOK(v) /\ Same(w, v, {"proj"})
  BY <1>3, SyncActiveShown, SyncActiveFrame DEF Fit
<1> HIDE DEF v
<1>5. Fit(v)
  BY <1>3, <1>4, FitFrame
<1> QED
  BY <1>1, <1>5, FitDetail, FitActivity DEF Fit

LEMMA MoveRowFit ==
  ASSUME NEW u, Fit(u), NEW delta \in {-1, 1}
  PROVE  Fit(MoveRow(u, delta))
<1> DEFINE item == TreeItem(u)
           p == item.project
           k == u.kids[p]
<1>1. item \in RowSet(u) \/ item = Nothing
  BY TreeItemIn DEF Fit, ShownOK
<1> HIDE DEF item
<1>2. item.kind \in {"backlog", "issue"} => p \in Projects /\ RowOK(u, item) /\ KidsOK(k, p)
  BY <1>1 DEF Nothing, Item, RowSet, Fit, ShownOK, ListsOK
<1>3. CASE item.kind = "backlog"
  <2> DEFINE s == Swap(k.backlog, item.id, delta)
             v == [u EXCEPT !.kids[p].backlog = s]
             kk == [k EXCEPT !.backlog = s]
  <2>1. MoveRow(u, delta) = SelectTree(v, "backlog", item.id)
    BY <1>3 DEF MoveRow, item
  <2>2. s \in Seq(Backlog)
    BY <1>2, <1>3, SwapIn DEF RowOK, KidsOK
  <2> HIDE DEF s
  <2>3. KidsOK(kk, p)
    BY <1>2, <1>3, <2>2 DEF KidsOK, NoChildren
  <2>4. v = [u EXCEPT !.kids = [u.kids EXCEPT ![p] = kk]]
    OBVIOUS
  <2> HIDE DEF v, kk
  <2>5. Fit(v)
    BY <1>2, <1>3, <2>3, <2>4, KidsFit
  <2> QED
    BY <2>1, <2>5, SelectTreeFit
<1>4. CASE item.kind = "issue"
  <2> DEFINE s == Swap(k.live, item.id, delta)
             v == [u EXCEPT !.kids[p].live = s]
             kk == [k EXCEPT !.live = s]
  <2>1. MoveRow(u, delta) = SelectTree(v, "issue", item.id)
    BY <1>4 DEF MoveRow, item
  <2>2. s \in Seq(Owned(p)) /\ ToSet(s) \subseteq ToSet(k.live)
    BY <1>2, <1>4, SwapIn DEF RowOK, KidsOK
  <2> HIDE DEF s
  <2>3. KidsOK(kk, p)
    BY <1>2, <1>4, <2>2 DEF KidsOK, NoChildren
  <2>4. v = [u EXCEPT !.kids = [u.kids EXCEPT ![p] = kk]]
    OBVIOUS
  <2> HIDE DEF v, kk
  <2>5. Fit(v)
    BY <1>2, <1>4, <2>3, <2>4, KidsFit
  <2> QED
    BY <2>1, <2>5, SelectTreeFit
<1>5. CASE item.kind \notin {"backlog", "issue"}
  BY <1>5 DEF MoveRow, item
<1> QED
  BY <1>3, <1>4, <1>5

LEMMA FoldedFit ==
  ASSUME NEW u, Fit(u), NEW open
  PROVE  Fit(Folded(u, open))
<1> DEFINE item == TreeItem(u)
           p == item.project
           set(S) == IF open THEN S \cup {p} ELSE S \ {p}
           E1 == set(u.expanded)
           A2 == set(u.archive)
           E2 == IF open THEN u.expanded \cup {p} ELSE u.expanded
           v1 == [u EXCEPT !.expanded = E1]
           v2 == [u EXCEPT !.archive = A2, !.expanded = E2]
<1>1. item \in RowSet(u) \/ item = Nothing
  BY TreeItemIn DEF Fit, ShownOK
<1> HIDE DEF item
<1>2. \/ Folded(u, open) = u
      \/ /\ item.kind \in Roots \cup {"archive"}
         /\ \/ Folded(u, open) = SyncActive(ClampTree(v1))
            \/ Folded(u, open) = SyncActive(ClampTree(v2))
  <2>1. CASE item.kind \in Roots
    BY <2>1 DEF Folded, item
  <2>2. CASE item.kind = "archive"
    BY <2>2 DEF Folded, Roots, item
  <2>3. CASE item.kind \notin Roots \cup {"archive"}
    BY <2>3 DEF Folded, item
  <2> QED
    BY <2>1, <2>2, <2>3
<1>3. item.kind \in Roots \cup {"archive"} => p \in ToSet(u.projects)
  BY <1>1 DEF Nothing, Item, Roots, RowSet, RowOK
<1>4. p \in ToSet(u.projects) => E1 \cup u.archive \subseteq ToSet(u.projects)
                                /\ E2 \cup A2 \subseteq ToSet(u.projects)
  BY DEF Fit, ShownOK
<1> HIDE DEF E1, E2, A2
<1>5. /\ Same(u, v1, {"expanded", "archive"}) /\ Same(u, v2, {"expanded", "archive"})
      /\ v1.expanded = E1 /\ v1.archive = u.archive /\ v2.expanded = E2 /\ v2.archive = A2
  BY DEF Same, Fit, ShownOK, Fields, NewUi
<1> HIDE DEF v1, v2
<1>6. p \in ToSet(u.projects) => ShownOK(v1) /\ ShownOK(v2)
  BY <1>4, <1>5, FoldsShown DEF Fit
<1>7. p \in ToSet(u.projects) => Fit(v1) /\ Fit(v2)
  BY <1>5, <1>6, FitFrame
<1>8. ASSUME NEW v, Fit(v) PROVE Fit(SyncActive(ClampTree(v)))
  <2>1. ShownOK(SyncActive(ClampTree(v)))
    BY <1>8, ClampTreeShown, SyncActiveShown DEF Fit
  <2>2. Same(v, SyncActive(ClampTree(v)), {"sel", "proj"})
    BY ClampTreeFrame, SyncActiveFrame DEF Same
  <2> QED
    BY <1>8, <2>1, <2>2, FitFrame
<1> QED
  BY <1>2, <1>3, <1>7, <1>8

LEMMA ReorderedOK ==
  ASSUME NEW d, DbOK(d), NEW p, NEW delta \in {-1, 1}
  PROVE  DbOK(Reordered(d, p, delta))
<1> DEFINE s == IF p \in ToSet(d.projects) THEN Swap(d.projects, p, delta)
                ELSE d.projects
<1>1. s \in Seq(Projects)
  BY SwapIn DEF DbOK
<1>2. Reordered(d, p, delta) = [d EXCEPT !.projects = s]
  BY DEF Reordered
<1> HIDE DEF s
<1> QED
  BY <1>1, <1>2 DEF DbOK, DbFields

LEMMA KeyVerticalFit ==
  ASSUME PlaceOK(ui), Fit(ui), DbOK(db), NEW delta \in {-1, 1}, KeyVertical(delta)
  PROVE  Fit(ui') /\ DbOK(db')
<1> DEFINE u == Key(ui)
           k == Active(u)
           d == Reordered(db, k, delta)
           v == RefreshProjects(u, d)
           n == Stepped(u.card, delta, Len(Cards(u, u.lane)))
           c == [u EXCEPT !.card = n]
<1>1. /\ \/ ui' \in {ui, u, MoveRow(u, delta), MoveSection(u, delta), MoveSel(u, delta), c}
         \/ ui' = SelectTree(v, "project", k)
      /\ db' \in {db, d}
  BY KeyVerticalIs
<1>2. Fit(u)
  BY KeyFit
<1> HIDE DEF u, k, n
<1>3. DbOK(d)
  BY ReorderedOK
<1> HIDE DEF d
<1>4. ShownOK(v) /\ Same(u, v, {"projects", "proj", "kids", "expanded", "archive"})
  BY <1>2, <1>3, RefreshProjectsShown, RefreshProjectsFrame DEF Fit
<1> HIDE DEF v
<1>5. Fit(v)
  BY <1>2, <1>4, FitFrame
<1>6. Fit(SelectTree(v, "project", k))
  BY <1>5, SelectTreeFit
<1>7. Fit(c)
  <2>1. Same(u, c, {"card"})
    BY DEF Same, Fields, NewUi
  <2> QED
    BY <1>2, <2>1, AsideFit DEF Shown
<1>8. Fit(MoveSection(u, delta))
  BY <1>2, MoveSectionFrame, AsideFit DEF Shown
<1>9. Fit(MoveRow(u, delta)) /\ Fit(MoveSel(u, delta))
  BY <1>2, MoveRowFit, MoveSelFit
<1> HIDE DEF c
<1> QED
  BY <1>1, <1>2, <1>3, <1>6, <1>7, <1>8, <1>9

\* The board with another lane, or another focus, has its card clamped.
LEMMA ClampKanbanFit == ASSUME NEW u, Fit(u) PROVE Fit(ClampKanban(u))
BY ClampKanbanFrame, AsideFit DEF Shown

LEMMA KeyHorizontalFit ==
  ASSUME Fit(ui), NEW delta, KeyHorizontal(delta)
  PROVE  Fit(ui')
<1> DEFINE u == Key(ui)
           fold == Folded(u, delta = 1)
           n == Stepped(u.lane, delta, 4)
           lane == [u EXCEPT !.lane = n]
           section == MoveSection(u, delta)
           mode == [u EXCEPT !.mode = "Selected"]
<1>1. ui' \in {u, fold, section, ClampKanban(lane), mode}
  BY KeyHorizontalIs
<1>2. Fit(u)
  BY KeyFit
<1> HIDE DEF u, n
<1>3. Fit(fold)
  BY <1>2, FoldedFit
<1>4. Fit(section)
  BY <1>2, MoveSectionFrame, AsideFit DEF Shown
<1>5. Same(u, lane, {"lane"}) /\ Same(u, mode, {"mode"})
  BY DEF Same, Fields, NewUi
<1> HIDE DEF fold, section, lane, mode
<1>6. Fit(ClampKanban(lane)) /\ Fit(mode)
  BY <1>2, <1>5, AsideFit, ClampKanbanFit DEF Shown
<1> QED
  BY <1>1, <1>2, <1>3, <1>4, <1>6

\* Another focus, with rows being moved or not.
Focused(u, f) == [u EXCEPT !.focus = f]
Turned(u, f) == [u EXCEPT !.focus = f, !.move = FALSE]

LEMMA FocusFit ==
  ASSUME NEW u, Fit(u), NEW f
  PROVE  Fit(Focused(u, f)) /\ Fit(Turned(u, f)) /\ Fit(View(u, f))
<1> DEFINE S == {"view", "focus", "move"}
<1>1. Same(u, Focused(u, f), S) /\ Same(u, Turned(u, f), S) /\ Same(u, View(u, f), S)
  BY DEF Same, Fields, NewUi, Focused, Turned, View
<1>2. S \cap (Shown \cup {"detail", "detailStatus"}) = {}
  BY DEF Shown
<1> QED
  BY <1>1, <1>2, AsideFit

LEMMA OpenCardFit ==
  ASSUME NEW u, Fit(u)
  PROVE  Fit(OpenCard(u, db))
<1> DEFINE card == Card(u)
           left == SelectTree(u, "backlog", card.id)
           stat == ActiveKids(u).stat[card.id]
           v == [Enter(u, "ProjectKanban", u.sel) EXCEPT !.detail = card.id,
                                                         !.detailStatus = stat]
<1> HIDE DEF card
<1>1. OpenCard(u, db) \in {Focused(left, "Left"), RefreshDetail(v, db), u}
  <2>1. CASE card.kind = "backlog"
    BY <2>1 DEF OpenCard, card, Focused
  <2>2. CASE card.kind = "issue"
    BY <2>2 DEF OpenCard, card
  <2>3. CASE card.kind \notin {"backlog", "issue"}
    BY <2>3 DEF OpenCard, card
  <2> QED
    BY <2>1, <2>2, <2>3
<1>2. Fit(left)
  BY SelectTreeFit
<1> HIDE DEF left, stat
<1>3. Same(u, v, {"back", "backSel", "focus", "mode", "detail", "detailStatus"})
  BY DEF Same, Enter, Fields, NewUi
<1> HIDE DEF v
<1>4. ShownOK(v)
  BY <1>3, ShownFrame DEF Fit, Shown
<1> QED
  BY <1>1, <1>2, <1>4, FocusFit, FitDetail

LEMMA DrillFit ==
  ASSUME NEW u, Fit(u)
  PROVE  Fit(Drill(u, db))
<1> DEFINE item == TreeItem(u)
           active == SyncActive(u)
           v == Enter(u, "Left", None)
<1> HIDE DEF item
<1>1. Drill(u, db) \in {u, OpenCard(u, db), Focused(active, "ProjectDetail"),
                       RefreshDetail(v, db)}
  BY DEF Drill, item, Focused
<1>2. ShownOK(active) /\ Same(u, active, {"proj"})
  BY SyncActiveShown, SyncActiveFrame DEF Fit
<1> HIDE DEF active
<1>3. Fit(active)
  BY <1>2, FitFrame
<1>4. Same(u, v, {"back", "backSel", "focus", "mode"})
  BY DEF Same, Enter, Fields, NewUi
<1> HIDE DEF v
<1>5. ShownOK(v)
  BY <1>4, ShownFrame DEF Fit, Shown
<1> QED
  BY <1>1, <1>3, <1>5, OpenCardFit, FocusFit, FitDetail

LEMMA KeyEnterFit == ASSUME Fit(ui), KeyEnter PROVE Fit(ui')
<1> DEFINE u == Key(ui)
           mode == [u EXCEPT !.mode = "Active"]
           into == [u EXCEPT !.focus = "ProjectKanban"]
<1>1. ui' \in {ui, u, mode, ClampKanban(into), Drill(u, db)}
  BY KeyEnterIs
<1>2. Fit(u)
  BY KeyFit
<1> HIDE DEF u
<1>3. Same(u, mode, {"mode"})
  BY DEF Same, Fields, NewUi
<1>4. Fit(mode)
  BY <1>2, <1>3, AsideFit DEF Shown
<1>5. Fit(into)
  BY <1>2, FocusFit DEF Focused
<1> HIDE DEF mode, into
<1> QED
  BY <1>1, <1>2, <1>4, <1>5, ClampKanbanFit, DrillFit

LEMMA KeyViewFit ==
  ASSUME Fit(ui), NEW delta, KeyView(delta) \/ KeySettings
  PROVE  Fit(ui')
<1> DEFINE u == Key(ui)
<1>1. \E v : Asking(View(u, v)) \/ Local(View(u, v))
  BY DEF KeyView, KeySettings
<1>2. Fit(u)
  BY KeyFit
<1> HIDE DEF u
<1>3. \A v : Fit(View(u, v))
  BY <1>2, FocusFit
<1> QED
  BY <1>1, <1>3, AskingFit DEF Local

LEMMA KeyEscFit == ASSUME Fit(ui), KeyEsc PROVE Fit(ui')
<1> DEFINE u == Key(ui)
           back == [u EXCEPT !.sel = u.backSel, !.backSel = None]
           home == IF u.back = "ProjectKanban" /\ u.backSel # None THEN SyncActive(back) ELSE u
           mode == [u EXCEPT !.mode = "Selected"]
           r1 == Turned(home, u.back)
           r2 == Turned(u, "ProjectDetail")
           r3 == Turned(u, "Left")
           r4 == View(u, "Overview")
<1>1. ui' \in {u, mode, r1, r2, r3, r4}
  BY KeyEscIs DEF Turned
<1>2. Fit(u)
  BY KeyFit
<1> HIDE DEF u
<1>3. Same(u, back, {"sel", "backSel"}) /\ Same(u, mode, {"mode"})
  BY DEF Same, Fields, NewUi
<1> HIDE DEF back, mode
<1>4. Fit(back) /\ Fit(mode)
  BY <1>2, <1>3, AsideFit DEF Shown
<1>5. ShownOK(SyncActive(back)) /\ Same(back, SyncActive(back), {"proj"})
  BY <1>4, SyncActiveShown, SyncActiveFrame DEF Fit
<1>6. Fit(SyncActive(back))
  BY <1>4, <1>5, FitFrame
<1>7. Fit(home)
  BY <1>2, <1>6
<1> HIDE DEF home
<1>8. Fit(r1) /\ Fit(r2) /\ Fit(r3) /\ Fit(r4)
  BY <1>2, <1>7, FocusFit
<1> HIDE DEF r1, r2, r3, r4
<1> QED
  BY <1>1, <1>2, <1>4, <1>8

LEMMA KeyMoveFit == ASSUME Fit(ui), KeyMove PROVE Fit(ui')
<1> DEFINE u == Key(ui)
           off == [u EXCEPT !.move = FALSE]
           on == [u EXCEPT !.move = TRUE, !.focus = "Left"]
<1>1. ui' \in {u, off, on}
  BY KeyMoveIs
<1>2. Fit(u)
  BY KeyFit
<1> HIDE DEF u
<1>3. Same(u, off, {"move"}) /\ Same(u, on, {"move", "focus"})
  BY DEF Same, Fields, NewUi
<1> HIDE DEF off, on
<1> QED
  BY <1>1, <1>2, <1>3, AsideFit DEF Shown

\* [ and ].
LEMMA KeyProjectFit ==
  ASSUME Fit(ui), NEW delta \in {-1, 1}, KeyProject(delta)
  PROVE  Fit(ui')
<1> DEFINE u == Key(ui)
           n == Stepped(u.proj, delta, Len(u.projects))
           v == [u EXCEPT !.proj = n]
           w == SelectTree(v, "project", Active(v))
<1>1. ui' = u \/ ui' = Focused(w, "Left")
  BY DEF KeyProject, Local, Focused
<1>2. Fit(u)
  BY KeyFit
<1> HIDE DEF u
<1>3. n \in Nat \ {0} /\ (u.projects # <<>> => n <= Len(u.projects))
  <2> DEFINE len == Len(u.projects)
             at == u.proj
  <2>1. len \in Nat /\ (u.projects # <<>> => len # 0) /\ at \in Int /\ delta \in Int
    BY <1>2 DEF Fit, ShownOK, ListsOK
  <2> HIDE DEF len, at
  <2>2. Stepped(at, delta, len) \in Nat \ {0}
        /\ (len # 0 => Stepped(at, delta, len) <= len)
    BY <2>1, SteppedIn
  <2> QED
    BY <2>1, <2>2 DEF len, at
<1> HIDE DEF n
<1>4. Same(u, v, {"proj"}) /\ v.proj = n
  BY <1>2 DEF Same, Fit, ShownOK, Fields, NewUi
<1> HIDE DEF v
<1>5. /\ DOMAIN v = Fields /\ v.projects = u.projects /\ v.kids = u.kids
      /\ v.expanded = u.expanded /\ v.archive = u.archive
  BY <1>2, <1>4 DEF Same, Fit, ShownOK, Fields, NewUi
<1>6. ShownOK(v)
  BY <1>2, <1>3, <1>4, <1>5 DEF Fit, ShownOK, ListsOK
<1>7. Fit(v)
  BY <1>2, <1>4, <1>6, FitFrame
<1>8. Fit(w)
  BY <1>7, SelectTreeFit
<1> HIDE DEF w
<1> QED
  BY <1>1, <1>2, <1>8, FocusFit

LEMMA MovesFit ==
  ASSUME PlaceOK(ui), Fit(ui), DbOK(db), KeyMoves
  PROVE  Fit(ui') /\ DbOK(db')
<1>1. ASSUME NEW delta \in {-1, 1}, KeyVertical(delta)
      PROVE  Fit(ui') /\ DbOK(db')
  BY <1>1, KeyVerticalFit
<1>2. ASSUME NEW delta \in {-1, 1}, KeyHorizontal(delta) \/ KeyView(delta) \/ KeyProject(delta)
      PROVE  Fit(ui') /\ DbOK(db')
  <2>1. Fit(ui')
    BY <1>2, KeyHorizontalFit, KeyViewFit, KeyProjectFit
  <2>2. UNCHANGED db
    BY <1>2 DEF KeyHorizontal, KeyView, KeyProject
  <2> QED
    BY <2>1, <2>2
<1>3. ASSUME KeyEnter \/ KeySettings \/ KeyEsc \/ KeyMove
      PROVE  Fit(ui') /\ DbOK(db')
  <2>1. Fit(ui')
    BY <1>3, KeyEnterFit, KeyViewFit, KeyEscFit, KeyMoveFit
  <2>2. UNCHANGED db
    BY <1>3 DEF KeyEnter, KeySettings, KeyEsc, KeyMove
  <2> QED
    BY <2>1, <2>2
<1> QED
  BY <1>1, <1>2, <1>3 DEF KeyMoves

-----------------------------------------------------------------------------
(* What the daemon makes of a command                                      *)

LEMMA TouchOK ==
  ASSUME NEW d, DbOK(d), NEW i \in Issues, NEW s \in Status \cup {Absent}
  PROVE  DbOK(Touch(d, i, s))
<1> DEFINE rest == Only(d.updated, Issues \ {i})
           x == [d.issue EXCEPT ![i] = s]
           y == <<i>> \o rest
<1>1. Touch(d, i, s) = [d EXCEPT !.issue = x, !.updated = y]
  BY DEF Touch
<1>2. rest \in Seq(Issues)
  <2>1. rest \in Seq(Issues \cap (Issues \ {i}))
    BY OnlyType DEF DbOK
  <2> QED
    BY <2>1
<1>3. x \in [Issues -> Status \cup {Absent}]
  BY DEF DbOK
<1> HIDE DEF rest, x
<1>4. y \in Seq(Issues)
  BY <1>2
<1> HIDE DEF y
<1> QED
  BY <1>1, <1>3, <1>4 DEF DbOK, DbFields

LEMMA OutcomesOK ==
  ASSUME NEW d, DbOK(d), NEW c, NEW o \in Outcomes(c, d),
         c.cmd \in {"AbandonIssue", "CleanupIssueWorktree"} => c.id \in Issues
  PROVE  DbOK(o.db)
<1>1. Refused(d).db = d /\ \A x, e : Effect(x, e).db = x
  BY DEF Refused, Effect
<1>2. c.id \in Issues => DbOK(Touch(d, c.id, "ABANDONED")) /\ DbOK(Touch(d, c.id, Absent))
  <2>1. "ABANDONED" \in Status \cup {Absent} /\ Absent \in Status \cup {Absent}
    BY DEF Status, Terminal
  <2> QED
    BY <2>1, TouchOK
<1>3. ASSUME NEW x, Beside(d, x, c) PROVE DbOK(x)
  <2>1. Only(d.projects, Projects \ {c.id}) \in Seq(Projects \cap (Projects \ {c.id}))
    BY OnlyType DEF DbOK
  <2>2. Only(d.projects, Projects \ {c.id}) \in Seq(Projects)
    BY <2>1
  <2> QED
    BY <1>3, <2>2 DEF Beside, DbOK
<1> QED
  BY <1>1, <1>2, <1>3, OutcomesIs DEF DbOK

\* What a card of the board can be.
CardSet == {r \in [kind : {"backlog", "issue"}, project : Projects \cup {None}, id : Nat] :
              r.kind = "issue" => r.id \in Issues}

LEMMA CardsIn ==
  ASSUME NEW u, ShownOK(u), NEW lane
  PROVE  Cards(u, lane) \in Seq(CardSet)
<1> DEFINE kids == ActiveKids(u)
           p == Active(u)
           shown == {b \in ToSet(kids.backlog) : kids.appr[b] # "dismissed"}
           here == {i \in ToSet(kids.live) : Lane(kids.stat[i]) = lane}
           s1 == Sorted(shown, ById)
           s2 == Sorted(here, ByStatus(kids.stat))
           c1 == ItemsOf("backlog", p, s1)
           c2 == ItemsOf("issue", p, s2)
<1>1. Cards(u, lane) = (IF lane = 1 THEN c1 ELSE <<>>) \o c2
  BY DEF Cards
<1>2. p \in Projects \cup {None} /\ \E q : KidsOK(kids, q)
  BY ActiveIn, NoChildrenOK DEF ActiveKids, ShownOK, ListsOK
<1> HIDE DEF p
<1>3. shown \subseteq Backlog
  BY <1>2, ToSetIn DEF KidsOK
<1>4. here \subseteq Issues /\ \A i \in here : kids.stat[i] \in Status
  BY <1>2, ToSetIn DEF KidsOK, Owned
<1> HIDE DEF shown, here
<1>5. s1 \in Seq(shown)
  <2>1. shown \subseteq Nat /\ IsFiniteSet(shown)
    BY <1>3, ViewAssumption, FS_Subset
  <2> QED
    BY <2>1, NumbersType
<1>6. s2 \in Seq(here)
  <2>1. IsFiniteSet(here)
    BY <1>4, ViewAssumption, FS_Subset
  <2> DEFINE stat == kids.stat
  <2> HIDE DEF stat
  <2>2. Sorted(here, ByStatus(stat)) \in Seq(here)
    BY <1>4, <2>1, StatusViewType DEF stat
  <2> QED
    BY <2>2 DEF stat
<1> HIDE DEF s1, s2
<1>7. c1 \in Seq(CardSet)
  <2>1. ToSet(s1) \subseteq Nat
    BY <1>3, <1>5, ToSetIn, ViewAssumption
  <2>2. \A i \in ToSet(s1) : Item("backlog", p, i) \in CardSet
    BY <1>2, <2>1 DEF CardSet, Item
  <2> QED
    BY <1>5, <2>2, ItemsIn
<1>8. c2 \in Seq(CardSet)
  <2>1. ToSet(s2) \subseteq Issues /\ Issues \subseteq Nat
    BY <1>4, <1>6, ToSetIn, ViewAssumption
  <2>2. \A i \in ToSet(s2) : Item("issue", p, i) \in CardSet
    BY <1>2, <2>1 DEF CardSet, Item
  <2> QED
    BY <1>6, <2>2, ItemsIn
<1> HIDE DEF c1, c2
<1> QED
  BY <1>1, <1>7, <1>8

\* What a key acts on, if it is an issue, is one.
LEMMA ContextIssue ==
  ASSUME NEW u, ShownOK(u), IsIssue(ContextItem(u))
  PROVE  ContextItem(u).id \in Issues
<1>1. CASE u.focus = "ProjectKanban"
  <2> DEFINE cards == Cards(u, u.lane)
  <2>1. cards \in Seq(CardSet)
    BY CardsIn
  <2>2. ContextItem(u) = IF u.card \in DOMAIN cards THEN cards[u.card] ELSE Nothing
    BY <1>1 DEF ContextItem, Card
  <2> HIDE DEF cards
  <2>3. ~IsIssue(Nothing)
    BY DEF IsIssue, Nothing, Item
  <2>4. ContextItem(u) \in CardSet
    BY <2>1, <2>2, <2>3
  <2> QED
    BY <2>4 DEF CardSet, IsIssue
<1>2. CASE u.focus # "ProjectKanban"
  <2>1. ContextItem(u) = TreeItem(u)
    BY <1>2 DEF ContextItem
  <2> QED
    BY <2>1, IssueUnderCursor DEF ShownOK
<1> QED
  BY <1>1, <1>2

LEMMA KeyApproveFit ==
  ASSUME Fit(ui), DbOK(db), KeyApprove
  PROVE  Fit(ui') /\ DbOK(db')
<1> DEFINE u == Key(ui)
           c == ApproveCommand(u)
<1>1. \/ ui' \in {ui, u} /\ UNCHANGED db
      \/ \E o \in Outcomes(c, db) : db' = o.db /\ ui' = RefreshActive(u, o.db)
  BY DEF KeyApprove, Send, Local, Nowhere
<1>2. Fit(u)
  BY KeyFit
<1>3. c.cmd \in {"ToggleRoutine", "ApproveBacklog"}
  BY DEF ApproveCommand, Command
<1> HIDE DEF u, c
<1>4. \A o \in Outcomes(c, db) : DbOK(o.db)
  BY <1>3, OutcomesOK
<1> QED
  BY <1>1, <1>2, <1>4, RefreshActiveFit

LEMMA KeyDeleteFit ==
  ASSUME Fit(ui), DbOK(db), KeyDelete
  PROVE  Fit(ui') /\ DbOK(db')
<1> DEFINE item == ContextItem(ui)
           p == Active(ui)
           asked == [ui EXCEPT !.pending = p]
           c1 == Command("RemoveProject", p)
           c2 == DeleteCommand(ui)
<1>1. \/ ui' \in {ui, asked} /\ UNCHANGED db
      \/ \E o \in Outcomes(c1, db) : db' = o.db /\ ui' = RefreshAll(Key(ui), o.db)
      \/ /\ item.kind \in {"backlog", "routine", "issue", "archived"}
         /\ \E o \in Outcomes(c2, db) : db' = o.db /\ ui' = DeletedRefresh(ui, o.db)
  BY KeyDeleteIs
<1>2. Fit(asked)
  <2> HIDE DEF p
  <2>1. Same(ui, asked, {"pending"})
    BY DEF Same, Fields, NewUi
  <2> QED
    BY <2>1, AsideFit DEF Shown
<1> HIDE DEF asked
<1>3. ASSUME NEW o \in Outcomes(c1, db)
      PROVE  DbOK(o.db) /\ Fit(RefreshAll(Key(ui), o.db))
  <2>1. c1.cmd = "RemoveProject"
    BY DEF Command
  <2> HIDE DEF c1
  <2>2. DbOK(o.db)
    BY <2>1, OutcomesOK
  <2>3. ShownOK(Key(ui))
    BY KeyFit DEF Fit
  <2> QED
    BY <2>2, <2>3, RefreshAllFit
<1> HIDE DEF c1
<1>4. ASSUME item.kind \in {"backlog", "routine", "issue", "archived"},
             NEW o \in Outcomes(c2, db)
      PROVE  DbOK(o.db) /\ Fit(DeletedRefresh(ui, o.db))
  <2>1. IsIssue(item) => item.id \in Issues
    BY ContextIssue DEF Fit
  <2>2. c2.cmd \in {"AbandonIssue", "CleanupIssueWorktree"} => c2.id \in Issues
    <3> HIDE DEF item
    <3>1. CASE item.kind = "backlog"
      <4>1. ~IsIssue(item)
        BY <3>1 DEF IsIssue
      <4>2. c2 = Command("DismissBacklog", item.id)
        BY <3>1, <4>1 DEF DeleteCommand, item
      <4> QED
        BY <4>2 DEF Command
    <3>2. CASE item.kind = "routine"
      <4>1. ~IsIssue(item)
        BY <3>2 DEF IsIssue
      <4>2. c2 = Command("RemoveRoutine", item.id)
        BY <3>2, <4>1 DEF DeleteCommand, item
      <4> QED
        BY <4>2 DEF Command
    <3>3. CASE IsIssue(item)
      <4> DEFINE done == ui.kids[item.project].stat[item.id] \in Terminal
      <4>1. item.kind \notin {"backlog", "routine"}
        BY <3>3 DEF IsIssue
      <4>2. c2 = IF done THEN Command("CleanupIssueWorktree", item.id)
                 ELSE Command("AbandonIssue", item.id)
        <5>1. CASE done
          BY <3>3, <4>1, <5>1 DEF DeleteCommand, item
        <5>2. CASE ~done
          BY <3>3, <4>1, <5>2 DEF DeleteCommand, item
        <5> QED
          BY <5>1, <5>2
      <4> QED
        BY <2>1, <3>3, <4>2 DEF Command
    <3> QED
      BY <1>4, <3>1, <3>2, <3>3 DEF IsIssue
  <2> HIDE DEF c2
  <2>3. DbOK(o.db)
    BY <2>2, OutcomesOK
  <2>4. DeletedRefresh(ui, o.db) \in {RefreshActive(ui, o.db),
                                      RefreshActive(RefreshIssues(ui, o.db), o.db)}
    BY DEF DeletedRefresh
  <2> DEFINE d == o.db
  <2> HIDE DEF d
  <2>5. Fit(RefreshActive(ui, d)) /\ Fit(RefreshActive(RefreshIssues(ui, d), d))
    BY <2>3, RefreshIssuesFit, RefreshActiveFit DEF d
  <2> QED
    BY <2>3, <2>4, <2>5 DEF d
<1> HIDE DEF item, c2
<1> QED
  BY <1>1, <1>2, <1>3, <1>4

LEMMA KeyExecuteFit ==
  ASSUME Fit(ui), DbOK(db), KeyExecute
  PROVE  Fit(ui') /\ DbOK(db')
<1> DEFINE u == Key(ui)
           c == ExecuteCommand(u)
<1>1. \/ ui' \in {ui, u} /\ UNCHANGED db
      \/ \E o \in Outcomes(c, db) : db' = o.db /\ ui' = RefreshAll(u, o.db)
  BY DEF KeyExecute, Send, Local, Nowhere
<1>2. Fit(u)
  BY KeyFit
<1>3. c.cmd \notin {"AbandonIssue", "CleanupIssueWorktree"}
  BY DEF ExecuteCommand, Command, NoCommand
<1> HIDE DEF u, c
<1>4. \A o \in Outcomes(c, db) : DbOK(o.db)
  BY <1>3, OutcomesOK
<1>5. \A o \in Outcomes(c, db) : Fit(RefreshAll(u, o.db))
  BY <1>2, <1>4, RefreshAllFit DEF Fit
<1> QED
  BY <1>1, <1>2, <1>4, <1>5

-----------------------------------------------------------------------------
(* Every step                                                              *)

\* Some events, of the kinds the console knows.
EventsOK == \E S : events \in Seq(S) /\ \A e \in S : e.kind \in Kinds

LEMMA PublishedOK ==
  ASSUME EventsOK, NEW e, e.kind \in Kinds, events' \in {events, Published(e)}
  PROVE  EventsOK'
<1>1. PICK S : events \in Seq(S) /\ \A x \in S : x.kind \in Kinds
  BY DEF EventsOK
<1> DEFINE T == S \cup {e}
<1>2. events \in Seq(T) /\ e \in T /\ \A x \in T : x.kind \in Kinds
  BY <1>1
<1> HIDE DEF T
<1>3. Len(events) < Capacity => Published(e) \in Seq(T)
  BY <1>2 DEF Published
<1>4. ~(Len(events) < Capacity) => Published(e) \in Seq(T)
  <2>1. Capacity \in Nat \ {0}
    BY ConsoleAssumption
  <2>2. ~(Len(events) < Capacity) => events # <<>>
    BY <1>2, <2>1
  <2>3. ~(Len(events) < Capacity) => Tail(events) \in Seq(T)
    BY <1>2, <2>2
  <2> QED
    BY <1>2, <2>3 DEF Published
<1>5. events' \in Seq(T)
  BY <1>2, <1>3, <1>4
<1> QED
  BY <1>2, <1>5 DEF EventsOK

LEMMA EvKind == \A k, i : Ev(k, i).kind = k
BY DEF Ev

LEMMA OutcomesEvents ==
  ASSUME EventsOK, DOMAIN db = DbFields, NEW c, NEW o \in Outcomes(c, db), events' = o.ev
  PROVE  EventsOK'
<1>1. \/ o = Refused(db)
      \/ \E x : \E k \in {"status", "rows", "backlog"} : o = Effect(x, Ev(k, c.id))
      \/ \E x : o = Effect(x, Ev("none", None))
  BY OutcomesIs
<1>2. CASE o = Refused(db) \/ \E x : o = Effect(x, Ev("none", None))
  <2>1. o.ev = events
    BY <1>2, EvKind DEF Refused, Effect
  <2> QED
    BY <2>1 DEF EventsOK
<1>3. CASE \E x : \E k \in {"status", "rows", "backlog"} : o = Effect(x, Ev(k, c.id))
  <2>1. PICK x : \E k \in {"status", "rows", "backlog"} : o = Effect(x, Ev(k, c.id))
    BY <1>3
  <2>2. PICK k \in {"status", "rows", "backlog"} : o = Effect(x, Ev(k, c.id))
    BY <2>1
  <2>3. Ev(k, c.id).kind = k /\ k # "none"
    BY <2>2, EvKind
  <2>4. o.ev = Published(Ev(k, c.id))
    BY <2>2, <2>3 DEF Effect
  <2> QED
    BY <2>3, <2>4, PublishedOK DEF Kinds
<1> QED
  BY <1>1, <1>2, <1>3

LEMMA EmptyEventsOK == ASSUME events' = <<>> PROVE EventsOK'
<1>1. events' \in Seq({})
  OBVIOUS
<1> QED
  BY <1>1 DEF EventsOK

LEMMA SameEventsOK == ASSUME EventsOK, events' = events PROVE EventsOK'
BY DEF EventsOK

SessionOK == session \in {"live", "poll", "down", "exited"}

\* A turn leaves the session as it is, or ends it.
Ends == session' \in {session, "exited"}

LEMMA EndsOK == ASSUME SessionOK, Ends PROVE SessionOK'
BY DEF SessionOK, Ends

LEMMA MovesRest ==
  ASSUME PlaceOK(ui), KeyMoves
  PROVE  Ends /\ UNCHANGED events
<1>1. ASSUME NEW v, Asking(v) \/ Local(v) PROVE Ends
  BY <1>1 DEF Asking, Local, Ends
<1>2. ASSUME NEW delta, KeyVertical(delta)
      PROVE  Ends /\ UNCHANGED events
  <2>1. Ends
    BY <1>2, KeyVerticalIs DEF Ends
  <2>2. UNCHANGED events
    BY <1>2 DEF KeyVertical
  <2> QED
    BY <2>1, <2>2
<1>3. ASSUME NEW delta, KeyHorizontal(delta) \/ KeyView(delta) \/ KeyProject(delta)
      PROVE  Ends /\ UNCHANGED events
  BY <1>1, <1>3 DEF KeyHorizontal, KeyView, KeyProject
<1>4. KeyEnter => Ends /\ UNCHANGED events
  <2>1. KeyEnter => Ends
    BY KeyEnterIs DEF Ends
  <2> QED
    BY <2>1 DEF KeyEnter
<1>5. KeySettings \/ KeyEsc \/ KeyMove => Ends /\ UNCHANGED events
  BY <1>1 DEF KeySettings, KeyEsc, KeyMove
<1> QED
  BY <1>2, <1>3, <1>4, <1>5 DEF KeyMoves

LEMMA CommandsRest ==
  ASSUME EventsOK, DOMAIN db = DbFields, KeyCommands
  PROVE  Ends /\ EventsOK'
<1> DEFINE Rest(c) == \/ UNCHANGED events
                      \/ \E o \in Outcomes(c, db) : events' = o.ev
<1>1. KeyApprove => Ends /\ \E c : Rest(c)
  BY DEF KeyApprove, Send, Local, Nowhere, Ends
<1>2. KeyExecute => Ends /\ \E c : Rest(c)
  BY DEF KeyExecute, Send, Local, Nowhere, Ends
<1>3. KeyDelete => Ends /\ \E c : Rest(c)
  BY KeyDeleteIs DEF Ends
<1>4. ASSUME NEW c, Rest(c) PROVE EventsOK'
  BY <1>4, OutcomesEvents, SameEventsOK
<1> QED
  BY <1>1, <1>2, <1>3, <1>4 DEF KeyCommands

\* The inductive invariant.
ConsoleInv == OpenOK(ui) /\ Fit(ui) /\ DbOK(db) /\ EventsOK /\ SessionOK

LEMMA ConsoleInit == Init => ConsoleInv
<1> SUFFICES ASSUME Init PROVE ConsoleInv
  OBVIOUS
<1>1. DbOK(InitDb)
  <2> DEFINE s1 == Sorted(Projects, ById)
             s2 == Sorted(Issues, NewestFirst)
             items == [b \in Backlog |-> IF b \in StartItems THEN "pending" ELSE Absent]
             routines == [r \in Routines |-> "on"]
  <2>1. s1 \in Seq(Projects) /\ s2 \in Seq(Issues)
    BY ViewAssumption, NumbersType
  <2>2. InitDb = [projects |-> s1, issue |-> Start, updated |-> s2,
                  backlog |-> items, routine |-> routines]
    BY DEF InitDb
  <2> HIDE DEF s1, s2, items, routines
  <2> QED
    BY <2>1, <2>2, ConsoleAssumption DEF DbOK, DbFields
<1>2. ShownOK(NewUi)
  <2>1. /\ NewUi.projects = <<>> /\ NewUi.kids = [p \in Projects |-> NoChildren]
        /\ NewUi.expanded = {} /\ NewUi.archive = {} /\ NewUi.proj = 1
    BY DEF NewUi
  <2>2. ListsOK(NewUi)
    BY <2>1, NoChildrenOK DEF ListsOK
  <2> QED
    BY <2>1, <2>2 DEF ShownOK, Fields
<1>3. db = InitDb /\ ui = RefreshAll(NewUi, InitDb) /\ session = "live"
  BY DEF Init
<1>4. Fit(ui)
  BY <1>1, <1>2, <1>3, RefreshAllFit
<1>5. OpenOK(NewUi)
  BY DEF OpenOK, PlaceOK, Fields, NewUi
<1>6. OpenOK(ui)
  BY <1>3, <1>5, RefreshAllOpen
<1>7. EventsOK
  <2>1. events \in Seq({})
    BY DEF Init
  <2> QED
    BY <2>1 DEF EventsOK
<1> QED
  BY <1>1, <1>3, <1>4, <1>6, <1>7 DEF ConsoleInv, SessionOK

LEMMA ChangesOK ==
  ASSUME DbOK(db), RowsChange
  PROVE  DbOK(db')
<1>1. ASSUME NEW i \in Issues, NEW s \in Seen, db' = Touch(db, i, s)
      PROVE  DbOK(db')
  <2>1. s \in Status \cup {Absent}
    BY ConsoleAssumption
  <2> QED
    BY <1>1, <2>1, TouchOK
<1>2. ASSUME NEW i \in Issues, db' = Touch(db, i, Absent)
      PROVE  DbOK(db')
  BY <1>2, TouchOK
<1>3. ASSUME NEW b, db' = [db EXCEPT !.backlog[b] = "pending"]
      PROVE  DbOK(db')
  BY <1>3 DEF DbOK, DbFields
<1> QED
  BY <1>1, <1>2, <1>3 DEF RowsChange

LEMMA ConsoleNext ==
  ASSUME ConsoleInv, [Next]_vars
  PROVE  ConsoleInv' /\ Good(ui')
<1> USE DEF ConsoleInv
<1>1. DOMAIN db = DbFields /\ PlaceOK(ui)
  BY DEF DbOK, OpenOK
<1>2. CASE DaemonChanges
  <2>1. UNCHANGED <<ui, session>> /\ RowsChange
    BY <1>2 DEF DaemonChanges
  <2>2. \E k \in Kinds : \E i : events' = Published(Ev(k, i))
    BY <2>1 DEF RowsChange, Kinds
  <2>3. EventsOK'
    BY <2>2, EvKind, PublishedOK
  <2>4. DbOK(db')
    BY <2>1, ChangesOK
  <2> QED
    BY <2>1, <2>3, <2>4, UiGood DEF Good, SessionOK
<1>3. CASE DaemonReports
  <2>1. UNCHANGED <<ui, db, session>> /\ \E k \in Kinds : \E i : events' = Published(Ev(k, i))
    BY <1>3 DEF DaemonReports, Kinds
  <2>2. EventsOK'
    BY <2>1, EvKind, PublishedOK
  <2> QED
    BY <2>1, <2>2, UiGood DEF Good, SessionOK
<1>4. CASE StreamEnds
  <2>1. UNCHANGED <<ui, db>> /\ events' = <<>> /\ SessionOK'
    BY <1>4 DEF StreamEnds, SessionOK
  <2> QED
    BY <2>1, EmptyEventsOK, UiGood DEF Good
<1>5. CASE OnEvent
  <2>1. PICK S : events \in Seq(S) /\ \A e \in S : e.kind \in Kinds
    BY DEF EventsOK
  <2>2. /\ events # <<>> /\ events' = Tail(events) /\ UNCHANGED <<db, session>>
        /\ ui' = Handled(ui, db, Head(events))
    BY <1>5 DEF OnEvent
  <2>3. Head(events) \in S /\ events' \in Seq(S)
    BY <2>1, <2>2
  <2>4. EventsOK'
    BY <2>1, <2>3 DEF EventsOK
  <2>5. Good(ui') /\ Fit(ui')
    BY <2>1, <2>2, <2>3, HandledGood, HandledFit
  <2> QED
    BY <2>2, <2>4, <2>5 DEF Good, SessionOK
<1>6. CASE Poll
  <2>1. UNCHANGED <<db, events>> /\ (Local(ui) \/ Asking(Polled(ui, db)))
    BY <1>6 DEF Poll
  <2>2. Ends
    BY <2>1 DEF Local, Asking, Ends
  <2>3. Good(ui')
    BY <2>1, PolledGood, AskingGood, UiGood DEF Local
  <2>4. Fit(ui')
    BY <2>1, PolledFit, AskingFit DEF Local
  <2> QED
    BY <2>1, <2>2, <2>3, <2>4, SameEventsOK, EndsOK DEF Good
<1>7. CASE KeyPressed
  <2>1. ASSUME KeyMoves PROVE ConsoleInv' /\ Good(ui')
    <3>1. Good(ui') /\ Fit(ui') /\ DbOK(db')
      BY <1>1, <2>1, MovesGood, MovesFit
    <3>2. EventsOK' /\ SessionOK'
      BY <1>1, <2>1, MovesRest, SameEventsOK, EndsOK
    <3> QED
      BY <3>1, <3>2 DEF Good
  <2>2. ASSUME KeyCommands PROVE ConsoleInv' /\ Good(ui')
    <3>1. Good(ui')
      BY <1>1, <2>2, KeyApproveGood, KeyDeleteGood, KeyExecuteGood DEF KeyCommands
    <3>2. Fit(ui') /\ DbOK(db')
      BY <2>2, KeyApproveFit, KeyDeleteFit, KeyExecuteFit DEF KeyCommands
    <3>3. EventsOK' /\ SessionOK'
      BY <1>1, <2>2, CommandsRest, EndsOK
    <3> QED
      BY <3>1, <3>2, <3>3 DEF Good
  <2> QED
    BY <1>7, <2>1, <2>2 DEF KeyPressed
<1>8. CASE Quit \/ UNCHANGED vars
  <2>1. UNCHANGED <<ui, db, events>> /\ Ends
    BY <1>8 DEF Quit, vars, Ends
  <2> QED
    BY <2>1, SameEventsOK, EndsOK, UiGood DEF Good
<1> QED
  BY <1>2, <1>3, <1>4, <1>5, <1>6, <1>7, <1>8 DEF Next

LEMMA ConsoleTypes == ConsoleInv => TypeOK
<1> SUFFICES ASSUME ConsoleInv PROVE TypeOK
  OBVIOUS
<1> USE DEF ConsoleInv
<1>1. PlaceOK(ui) /\ ShownOK(ui) /\ DetailOK(ui)
  BY DEF OpenOK, Fit
<1>2. ToSet(Views) = {"Overview", "Logs", "Ask"}
  <2>1. DOMAIN Views = 1..3 /\ Views[1] = "Overview" /\ Views[2] = "Logs" /\ Views[3] = "Ask"
    BY DEF Views
  <2> QED
    BY <2>1 DEF ToSet
<1>3. ui.projects # <<>> => Active(ui) # None
  <2>1. ui.projects # <<>> => Active(ui) \in Projects
    BY <1>1, ActiveIn, ToSetIn DEF ShownOK, ListsOK
  <2> QED
    BY <2>1, ViewAssumption DEF None
<1> QED
  BY <1>1, <1>2, <1>3 DEF TypeOK, PlaceOK, ShownOK, DetailOK, SessionOK

-----------------------------------------------------------------------------
(* Theorems                                                                *)

\* Wherever the keys lead and whatever is lost on the way: a detail, a board or
\* a project is only open in the overview, what is unfolded is a project that is
\* loaded, and while one is loaded one is the active one (app.rs App, and the
\* clamps behind every refresh).
THEOREM ConsoleTypeCorrect == Spec => []TypeOK
BY ConsoleInit, ConsoleNext, ConsoleTypes, PTL DEF Spec

\* Whichever way an issue was opened, and whatever was loaded since: the runs
\* beside the detail of an issue are that issue's (app.rs refresh_detail,
\* refresh_issue_runs_and_tail, open_selected_kanban_item).
THEOREM RunsShown == Spec => []RunsOfOpenIssue
<1>1. ConsoleInv => RunsOfOpenIssue
  BY DEF ConsoleInv, OpenOK, RunsOfOpenIssue
<1>2. ConsoleInv /\ [Next]_vars => ConsoleInv'
  BY ConsoleNext
<1> QED
  BY <1>1, <1>2, ConsoleInit, PTL DEF Spec

\* The issue one reads is replaced by no event, poll, key or command while its
\* row is there, though the cursor of the tree may be on another by then
\* (app.rs selected_issue_id).
THEOREM DetailKept == Spec => DetailKeepsIssue
<1>1. ConsoleInv /\ [Next]_vars
      => [ui.focus = "IssueDetail" /\ ui'.focus = "IssueDetail" /\ ui.detail # None
          => ui'.detail = ui.detail \/ db.issue[ui.detail] = Absent]_vars
  BY ConsoleNext DEF Good, Keeps
<1>2. ConsoleInv /\ [Next]_vars => ConsoleInv'
  BY ConsoleNext
<1> QED
  BY <1>1, <1>2, ConsoleInit, PTL DEF Spec, DetailKeepsIssue

\* An event about an issue moves rows under a cursor that is an index; the cursor
\* is moved after its issue, into the archive if need be, and is never on another
\* issue while there is a row about its own (app.rs on_event,
\* preserve_tree_issue_selection, select_issue_in_tree).
THEOREM CursorFollows == Spec => CursorFollowsIssue
<1> DEFINE i == TreeItem(ui).id
<1>1. ASSUME ConsoleInv, OnEvent, Head(events).kind \in {"status", "rows"}, IsIssue(TreeItem(ui))
      PROVE  LET rows == {n \in DOMAIN TreeRows(ui') : /\ IsIssue(TreeRows(ui')[n])
                                                       /\ TreeRows(ui')[n].id = i}
             IN  rows = {} \/ ui'.sel \in rows
  <2>1. ui' = Handled(ui, db, Head(events))
    BY <1>1 DEF OnEvent
  <2>2. OnIssue(Handled(ui, db, Head(events)), i)
    BY <1>1, HandledFollows DEF ConsoleInv, Fit
  <2>3. OnIssue(ui', i)
    BY <2>1, <2>2
  <2> QED
    BY <2>3 DEF OnIssue, RowsAbout
<1>2. ConsoleInv
      => [OnEvent /\ Head(events).kind \in {"status", "rows"} /\ IsIssue(TreeItem(ui))
          => LET j == TreeItem(ui).id
                 rows == {n \in DOMAIN TreeRows(ui') : /\ IsIssue(TreeRows(ui')[n])
                                                       /\ TreeRows(ui')[n].id = j}
             IN rows = {} \/ ui'.sel \in rows]_vars
  BY <1>1
<1> QED
  BY <1>2, ConsoleInit, ConsoleNext, PTL DEF Spec, CursorFollowsIssue
=============================================================================
