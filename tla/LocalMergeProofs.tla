-------------------------- MODULE LocalMergeProofs --------------------------
(***************************************************************************)
(* Theorems about LocalMerge for any number of issues, files, handlers,    *)
(* crashes and acts of the user, whatever agents leave in their outboxes   *)
(* and whatever proposals say: what the user has not committed is kept, an *)
(* issue the daemon takes to DONE has its work in HEAD, no branch is       *)
(* deleted before its work is without a decision that it need not be, and  *)
(* an outbox sets only statuses of the phase it was filled in.             *)
(***************************************************************************)
EXTENDS LocalMerge, SequenceTheorems, TLAPS

-----------------------------------------------------------------------------
(* The primary worktree                                                    *)

\* What the user has not committed is in the files or in the stash.
Kept(r) ==
  \A p \in r.mine : \/ p \in r.edits
                    \/ \E n \in DOMAIN r.stash : p \in r.stash[n].paths

\* A pop that failed has left its files in the worktree and its entry on top of
\* the stash, so that the entry may be dropped once the files are resolved.
PopOpen(r) ==
  r.broken = "pop" => r.stash # <<>> /\ Head(r.stash).paths \subseteq r.edits

RepoGood(r) == r \in RepoType /\ Kept(r) /\ PopOpen(r)

\* HEAD only gains work.
Gains(r, s) == r.main \subseteq s.main /\ r.squashed \subseteq s.squashed

LEMMA AgedKeeps ==
  ASSUME NEW stash \in Seq(Entry), NEW P \in SUBSET Paths
  PROVE  /\ Aged(stash, P) \in Seq(Entry)
         /\ DOMAIN Aged(stash, P) = DOMAIN stash
         /\ \A n \in DOMAIN stash : Aged(stash, P)[n].paths = stash[n].paths
<1> DEFINE aged == Aged(stash, P)
<1>1. \A n \in DOMAIN stash : aged[n] \in Entry /\ aged[n].paths = stash[n].paths
  <2> SUFFICES ASSUME NEW n \in DOMAIN stash
               PROVE  aged[n] \in Entry /\ aged[n].paths = stash[n].paths
    OBVIOUS
  <2>1. stash[n] \in Entry /\ aged[n] = [stash[n] EXCEPT !.moved = @ \cup P]
    BY DEF Aged
  <2> QED
    BY <2>1 DEF Entry
<1>2. aged = [n \in DOMAIN stash |-> aged[n]] /\ DOMAIN aged = DOMAIN stash
  BY DEF Aged
<1>3. DOMAIN stash = 1..Len(stash) /\ Len(stash) \in Nat
  OBVIOUS
<1> HIDE DEF aged
<1>4. aged \in [1..Len(stash) -> Entry]
  BY <1>1, <1>2, <1>3
<1>5. aged \in Seq(Entry)
  <2>1. Seq(Entry) = UNION {[1..n -> Entry] : n \in Nat}
    BY SeqDef
  <2>2. Len(stash) \in Nat /\ aged \in [1..Len(stash) -> Entry]
    BY <1>3, <1>4
  <2> QED
    BY <2>1, <2>2, Zenon
<1> QED
  BY <1>1, <1>2, <1>5 DEF aged

\* A commit changes of the repository only what its stash entries miss.
LEMMA CommitsKeeps ==
  ASSUME NEW r, RepoGood(r), NEW P \in SUBSET Paths
  PROVE  /\ RepoGood(Commits(r, P))
         /\ Commits(r, P) = [r EXCEPT !.stash = Commits(r, P).stash]
<1> DEFINE aged == Aged(r.stash, P)
<1>1. r \in RepoType /\ r.stash \in Seq(Entry)
  BY DEF RepoGood, RepoType
<1>2. Commits(r, P) = [r EXCEPT !.stash = aged]
  BY <1>1 DEF Commits, RepoType
<1>3. /\ aged \in Seq(Entry) /\ DOMAIN aged = DOMAIN r.stash
      /\ \A n \in DOMAIN r.stash : aged[n].paths = r.stash[n].paths
  BY <1>1, AgedKeeps
<1>4. aged \in Seq(Entry) /\ DOMAIN aged = DOMAIN r.stash
  BY <1>3
<1> HIDE DEF aged
<1> DEFINE c == [r EXCEPT !.stash = aged]
<1>5. /\ c \in RepoType /\ c.stash = aged /\ c.mine = r.mine /\ c.edits = r.edits
      /\ c.broken = r.broken
  BY <1>1, <1>4 DEF RepoType
<1> HIDE DEF c
<1>6. Kept(c)
  BY <1>3, <1>4, <1>5 DEF Kept, RepoGood
<1>7. PopOpen(c)
  <2>1. ASSUME c.broken = "pop"
        PROVE  aged # <<>> /\ Head(aged).paths \subseteq r.edits
    <3>1. r.stash # <<>> /\ Head(r.stash).paths \subseteq r.edits
      BY <1>5, <2>1 DEF RepoGood, PopOpen
    <3>2. 1 \in DOMAIN r.stash /\ Head(r.stash) = r.stash[1]
      BY <1>1, <3>1
    <3>3. aged # <<>> /\ Head(aged) = aged[1]
      BY <1>4, <3>2
    <3> QED
      BY <1>3, <3>1, <3>2, <3>3
  <2> QED
    BY <1>5, <2>1 DEF PopOpen
<1> QED
  BY <1>2, <1>5, <1>6, <1>7 DEF RepoGood, c

LEMMA StashedKeeps ==
  ASSUME NEW r, RepoGood(r), NEW by \in Issues \cup {User}, r.broken = "no"
  PROVE  RepoGood(Stashed(r, by)) /\ Gains(r, Stashed(r, by))
<1> DEFINE entry == [by |-> by, paths |-> r.edits, moved |-> {}]
           pushed == <<entry>> \o r.stash
           s == [r EXCEPT !.stash = pushed, !.edits = {}]
<1>1. r \in RepoType /\ r.stash \in Seq(Entry) /\ entry \in Entry
  BY DEF RepoGood, RepoType, Entry
<1>2. Stashed(r, by) = s
  BY <1>1 DEF Stashed, RepoType
<1>3. /\ pushed \in Seq(Entry) /\ Len(pushed) = Len(r.stash) + 1
      /\ pushed[1] = entry
      /\ \A n \in DOMAIN r.stash : /\ n + 1 \in DOMAIN pushed
                                   /\ pushed[n + 1] = r.stash[n]
  <2>1. <<entry>> \in Seq(Entry) /\ Len(<<entry>>) = 1 /\ <<entry>>[1] = entry
    BY <1>1
  <2> QED
    BY <1>1, <2>1, ConcatProperties
<1> HIDE DEF pushed
<1>4. /\ s \in RepoType /\ s.stash = pushed /\ s.mine = r.mine /\ s.edits = {}
      /\ s.broken = "no" /\ s.main = r.main /\ s.squashed = r.squashed
  BY <1>1, <1>3 DEF RepoType
<1> HIDE DEF s
<1>5. Kept(s)
  <2> SUFFICES ASSUME NEW p \in r.mine
               PROVE  \E n \in DOMAIN pushed : p \in pushed[n].paths
    BY <1>4 DEF Kept
  <2>1. CASE p \in r.edits
    BY <1>1, <1>3, <2>1
  <2>2. CASE p \notin r.edits
    BY <1>3, <2>2 DEF RepoGood, Kept
  <2> QED
    BY <2>1, <2>2
<1> QED
  BY <1>2, <1>4, <1>5 DEF RepoGood, PopOpen, Gains, s

LEMMA TailHas ==
  ASSUME NEW S, NEW s \in Seq(S), s # <<>>
  PROVE  /\ Tail(s) \in Seq(S)
         /\ \A n \in DOMAIN s :
              \/ s[n] = Head(s)
              \/ n - 1 \in DOMAIN Tail(s) /\ Tail(s)[n - 1] = s[n]
  OBVIOUS

LEMMA PoppedKeeps ==
  ASSUME NEW r, RepoGood(r)
  PROVE  RepoGood(Popped(r)) /\ Gains(r, Popped(r))
<1> DEFINE top == Head(r.stash)
<1>1. r \in RepoType /\ r.stash \in Seq(Entry)
  BY DEF RepoGood, RepoType
<1>2. CASE Popped(r) = r
  BY <1>2 DEF Gains
<1>3. CASE r.stash # <<>> /\ r.broken = "no"
  <2>1. top \in Entry /\ top.paths \in SUBSET Paths /\ Tail(r.stash) \in Seq(Entry)
    <3>1. top \in Entry /\ Tail(r.stash) \in Seq(Entry)
      BY <1>1, <1>3
    <3> QED
      BY <3>1 DEF Entry
  <2>2. ASSUME Popped(r) = [r EXCEPT !.edits = @ \cup top.paths, !.broken = "pop"]
        PROVE  RepoGood(Popped(r)) /\ Gains(r, Popped(r))
    <3> DEFINE s == [r EXCEPT !.edits = @ \cup top.paths, !.broken = "pop"]
    <3>1. /\ s \in RepoType /\ s.stash = r.stash /\ s.mine = r.mine
          /\ s.edits = r.edits \cup top.paths /\ s.main = r.main
          /\ s.squashed = r.squashed
      BY <1>1, <2>1 DEF RepoType
    <3> HIDE DEF s
    <3>2. Kept(s) /\ PopOpen(s)
      BY <1>3, <3>1 DEF RepoGood, Kept, PopOpen
    <3> QED
      BY <2>2, <3>1, <3>2 DEF RepoGood, Gains, s
  <2>3. ASSUME Popped(r) = [r EXCEPT !.edits = @ \cup top.paths, !.stash = Tail(@)]
        PROVE  RepoGood(Popped(r)) /\ Gains(r, Popped(r))
    <3> DEFINE s == [r EXCEPT !.edits = @ \cup top.paths, !.stash = Tail(@)]
    <3>1. /\ s \in RepoType /\ s.stash = Tail(r.stash) /\ s.mine = r.mine
          /\ s.edits = r.edits \cup top.paths /\ s.main = r.main
          /\ s.squashed = r.squashed /\ s.broken = "no"
      BY <1>1, <1>3, <2>1 DEF RepoType
    <3> HIDE DEF s
    <3>2. ASSUME NEW n \in DOMAIN r.stash
          PROVE  \/ r.stash[n] = top
                 \/ n - 1 \in DOMAIN s.stash /\ s.stash[n - 1] = r.stash[n]
      BY <1>1, <1>3, <3>1, TailHas
    <3>3. Kept(s)
      BY <3>1, <3>2 DEF RepoGood, Kept
    <3> QED
      BY <2>3, <3>1, <3>3 DEF RepoGood, PopOpen, Gains, s
  <2> QED
    BY <1>2, <1>3, <2>2, <2>3 DEF Popped
<1> QED
  BY <1>2, <1>3 DEF Popped

\* HEAD takes in the branch of an issue.
TakesIn(r, s, i) ==
  \/ s = [Commits(r, Changes[i]) EXCEPT !.main = @ \cup {i}]
  \/ s = [Commits(r, Changes[i]) EXCEPT !.squashed = @ \cup {i}]
  \/ s = [Commits(r, Changes[i]) EXCEPT !.broken = "no", !.main = @ \cup {i}]

LEMMA TakesInKeeps ==
  ASSUME NEW r, NEW s, NEW i \in Issues, RepoGood(r), r.broken # "pop",
         TakesIn(r, s, i)
  PROVE  RepoGood(s) /\ Gains(r, s)
<1> DEFINE c == Commits(r, Changes[i])
<1>1. RepoGood(c) /\ c = [r EXCEPT !.stash = c.stash]
  <2>1. Changes[i] \in SUBSET Paths
    BY MergeAssumption
  <2> QED
    BY <2>1, CommitsKeeps
<1>2. r \in RepoType
  BY DEF RepoGood
<1>3. c.main = r.main /\ c.squashed = r.squashed /\ c.broken = r.broken
  BY <1>1, <1>2 DEF RepoType
<1> HIDE DEF c
<1>4. c \in RepoType
  BY <1>1 DEF RepoGood
<1>5. /\ s \in RepoType /\ s.stash = c.stash /\ s.mine = c.mine
      /\ s.edits = c.edits /\ s.broken # "pop"
      /\ c.main \subseteq s.main /\ c.squashed \subseteq s.squashed
  <2>1. CASE s = [c EXCEPT !.main = @ \cup {i}]
    BY <1>3, <1>4, <2>1 DEF RepoType
  <2>2. CASE s = [c EXCEPT !.squashed = @ \cup {i}]
    BY <1>3, <1>4, <2>2 DEF RepoType
  <2>3. CASE s = [c EXCEPT !.broken = "no", !.main = @ \cup {i}]
    BY <1>3, <1>4, <2>3 DEF RepoType
  <2> QED
    BY <2>1, <2>2, <2>3 DEF TakesIn, c
<1>6. Kept(s)
  BY <1>1, <1>5 DEF RepoGood, Kept
<1> QED
  BY <1>3, <1>5, <1>6 DEF RepoGood, PopOpen, Gains

LEMMA UserRepo ==
  ASSUME TypeOK, RepoGood(repo), UserWorks
  PROVE  RepoGood(repo') /\ Gains(repo, repo')
<1>1. /\ repo \in RepoType /\ ref \subseteq Issues
      /\ \A i \in Issues : Changes[i] \in SUBSET Paths
  BY MergeAssumption DEF TypeOK
<1>2. ASSUME NEW p \in Paths,
             repo' = [repo EXCEPT !.edits = @ \cup {p}, !.mine = @ \cup {p}]
      PROVE  RepoGood(repo') /\ Gains(repo, repo')
  <2>1. /\ repo' \in RepoType /\ repo'.stash = repo.stash
        /\ repo'.mine = repo.mine \cup {p} /\ repo'.edits = repo.edits \cup {p}
        /\ repo'.broken = repo.broken
    BY <1>1, <1>2 DEF RepoType
  <2>2. Gains(repo, repo')
    BY <1>1, <1>2 DEF RepoType, Gains
  <2> QED
    BY <2>1, <2>2 DEF RepoGood, Kept, PopOpen
<1>3. ASSUME repo.broken = "no",
             repo' = [Commits(repo, repo.edits) EXCEPT !.edits = {},
                                                       !.mine = @ \ repo.edits]
      PROVE  RepoGood(repo') /\ Gains(repo, repo')
  <2> DEFINE c == Commits(repo, repo.edits)
  <2>1. RepoGood(c) /\ c = [repo EXCEPT !.stash = c.stash]
    BY <1>1, CommitsKeeps DEF RepoType
  <2>2. /\ c.edits = repo.edits /\ c.broken = "no" /\ c.main = repo.main
        /\ c.squashed = repo.squashed
    BY <1>1, <1>3, <2>1 DEF RepoType
  <2> HIDE DEF c
  <2>3. c \in RepoType /\ repo' = [c EXCEPT !.edits = {}, !.mine = @ \ c.edits]
    BY <1>3, <2>1, <2>2 DEF RepoGood, c
  <2>4. /\ repo' \in RepoType /\ repo'.stash = c.stash /\ repo'.broken = "no"
        /\ repo'.mine = c.mine \ c.edits /\ Gains(repo, repo')
    BY <2>2, <2>3 DEF RepoType, Gains
  <2> QED
    BY <2>1, <2>4 DEF RepoGood, Kept, PopOpen
<1>4. ASSUME NEW keeps \in BOOLEAN, repo.broken = "pop",
             repo' = [repo EXCEPT !.broken = "no",
                                  !.stash = IF keeps THEN @ ELSE Tail(@)]
      PROVE  RepoGood(repo') /\ Gains(repo, repo')
  <2>1. /\ repo.stash \in Seq(Entry) /\ repo.stash # <<>>
        /\ Head(repo.stash).paths \subseteq repo.edits
    BY <1>1, <1>4 DEF RepoGood, PopOpen, RepoType
  <2> DEFINE stash == IF keeps THEN repo.stash ELSE Tail(repo.stash)
  <2>a. /\ stash \in Seq(Entry)
        /\ keeps => stash = repo.stash
        /\ ~keeps => stash = Tail(repo.stash)
    BY <2>1, TailHas
  <2>b. repo' = [repo EXCEPT !.broken = "no", !.stash = stash]
    BY <1>4
  <2> HIDE DEF stash
  <2>2. /\ repo' \in RepoType /\ repo'.mine = repo.mine
        /\ repo'.edits = repo.edits /\ repo'.broken = "no" /\ Gains(repo, repo')
        /\ repo'.stash = stash
    BY <1>1, <2>a, <2>b DEF RepoType, Gains
  <2>3. ASSUME NEW n \in DOMAIN repo.stash
        PROVE  \/ repo.stash[n] = Head(repo.stash)
               \/ \E m \in DOMAIN repo'.stash : repo'.stash[m] = repo.stash[n]
    <3>1. CASE keeps
      BY <2>a, <2>2, <3>1
    <3>2. CASE ~keeps
      <4>1. repo.stash \in Seq(Entry) /\ repo.stash # <<>>
        BY <2>1
      <4>2. repo'.stash = Tail(repo.stash)
        BY <2>a, <2>2, <3>2
      <4>3. \/ repo.stash[n] = Head(repo.stash)
            \/ /\ n - 1 \in DOMAIN Tail(repo.stash)
               /\ Tail(repo.stash)[n - 1] = repo.stash[n]
        BY <4>1, TailHas
      <4> QED
        BY <4>2, <4>3
    <3> QED
      BY <3>1, <3>2
  <2> QED
    BY <2>1, <2>2, <2>3 DEF RepoGood, Kept, PopOpen
<1>5. CASE repo' = [repo EXCEPT !.broken = "no"]
  <2>1. /\ repo' \in RepoType /\ repo'.stash = repo.stash /\ Gains(repo, repo')
        /\ repo'.mine = repo.mine /\ repo'.edits = repo.edits
        /\ repo'.broken = "no"
    BY <1>1, <1>5 DEF RepoType, Gains
  <2> QED
    BY <2>1 DEF RepoGood, Kept, PopOpen
<1>6. CASE "resolve" \in UserActs /\ UserResolves
  <2>1. ASSUME NEW i \in ref, repo.broken = "merge",
               repo' = [Commits(repo, Changes[i]) EXCEPT !.broken = "no",
                                                         !.main = @ \cup {i}]
        PROVE  RepoGood(repo') /\ Gains(repo, repo')
    <3>1. TakesIn(repo, repo', i)
      BY <2>1 DEF TakesIn
    <3> QED
      BY <1>1, <2>1, <3>1, TakesInKeeps
  <2> QED
    BY <1>4, <1>5, <1>6, <2>1, Zenon DEF UserResolves
<1>7. ASSUME NEW i \in ref, repo.broken = "no",
             repo' = [Commits(repo, Changes[i]) EXCEPT !.squashed = @ \cup {i}]
      PROVE  RepoGood(repo') /\ Gains(repo, repo')
  <2>1. TakesIn(repo, repo', i)
    BY <1>7 DEF TakesIn
  <2> QED
    BY <1>1, <1>7, <2>1, TakesInKeeps
<1> QED
  BY <1>2, <1>3, <1>6, <1>7, Zenon DEF UserWorks

LEMMA ApplyRepo ==
  ASSUME TypeOK, RepoGood(repo), NEW a \in Appliers,
         ApplyClean(a) \/ ApplyMerges(a) \/ ApplyPops(a)
  PROVE  RepoGood(repo') /\ Gains(repo, repo')
<1>1. /\ repo \in RepoType /\ ref \subseteq Issues
      /\ \A i \in Issues : Changes[i] \in SUBSET Paths
      /\ apply[a].issue \in Issues \cup {User}
  BY MergeAssumption DEF TypeOK, ApplyType
<1>2. CASE UNCHANGED repo
  BY <1>2 DEF Gains
<1>3. CASE ApplyClean(a)
  <2>1. CASE repo.broken = "no" /\ repo' = Stashed(repo, apply[a].issue)
    BY <1>1, <2>1, StashedKeeps
  <2>2. \/ repo' = repo
        \/ repo.broken = "no" /\ repo' = Stashed(repo, apply[a].issue)
    BY <1>3, Zenon DEF ApplyClean
  <2> QED
    BY <1>2, <2>1, <2>2
<1>4. CASE ApplyMerges(a)
  <2> DEFINE i == apply[a].issue
  <2>1. CASE repo' = [repo EXCEPT !.broken = "merge"]
    <3>1. /\ repo' \in RepoType /\ repo'.stash = repo.stash /\ Gains(repo, repo')
          /\ repo'.mine = repo.mine /\ repo'.edits = repo.edits
          /\ repo'.broken = "merge"
      BY <1>1, <2>1 DEF RepoType, Gains
    <3> QED
      BY <3>1 DEF RepoGood, Kept, PopOpen
  <2>2. CASE /\ ~MergeRefused(i)
             /\ repo' = [Commits(repo, Changes[i]) EXCEPT !.main = @ \cup {i}]
    <3>1. i \in Issues /\ repo.broken # "pop"
      BY <1>1, <2>2 DEF MergeRefused
    <3>2. TakesIn(repo, repo', i)
      BY <2>2 DEF TakesIn
    <3> QED
      BY <3>1, <3>2, TakesInKeeps
  <2>3. \/ UNCHANGED repo
        \/ repo' = [repo EXCEPT !.broken = "merge"]
        \/ /\ ~MergeRefused(i)
           /\ repo' = [Commits(repo, Changes[i]) EXCEPT !.main = @ \cup {i}]
    BY <1>4 DEF ApplyMerges, git
  <2> QED
    BY <1>2, <2>1, <2>2, <2>3
<1>5. CASE ApplyPops(a)
  BY <1>5, PoppedKeeps DEF ApplyPops
<1> QED
  BY <1>3, <1>4, <1>5

\* Every step keeps the primary worktree in order, and HEAD only gains.
LEMMA RepoNext ==
  ASSUME TypeOK, RepoGood(repo), [Next]_vars
  PROVE  RepoGood(repo') /\ Gains(repo, repo')
<1>1. CASE UNCHANGED repo
  BY <1>1 DEF Gains
<1>2. ASSUME NEW i \in Issues, TickSpawns(i) \/ TickTearsDown(i) \/ PhaseStep(i)
      PROVE  UNCHANGED repo
  BY <1>2 DEF TickSpawns, TickTearsDown, PhaseStep, AgentExits, ReplayNext,
              ReplaySets, ReplayApplied, ReplayEnds, PhaseFails, PhaseFailWrites,
              PhaseEnds, git
<1>3. ASSUME NEW a \in Appliers, Applies(a)
      PROVE  \/ UNCHANGED repo
             \/ ApplyClean(a) \/ ApplyMerges(a) \/ ApplyPops(a)
  BY <1>3 DEF Applies, ApplyRecheck, ApplyWrite, git
<1>4. ASSUME NEW h \in Handlers, Operator(h) \/ HandlerStep(h)
      PROVE  UNCHANGED repo
  BY <1>4, Zenon DEF Operator, HandlerStep, HandlerDiscards, HandlerGivesUp,
              HandlerDeletes, HandlerSets, HandlerEnds, git
<1>5. CASE ReconcileStarts \/ ProposalStarts \/ ReconcileStep \/ Crash
  <2>1. CASE ReconcileStarts \/ ProposalStarts \/ Crash
    <3>1. UNCHANGED repo
      BY <2>1, Zenon DEF ReconcileStarts, ProposalStarts, Crash, git
    <3> QED
      BY <1>1, <3>1
  <2>2. CASE ReconcileValidates \/ ReconcileEnds
    BY <1>1, <2>2 DEF ReconcileValidates, ReconcileEnds, git
  <2>3. CASE ReconcileWrites \/ ReconcileTidies
    <3>1. UNCHANGED repo
      BY <2>3, Zenon DEF ReconcileWrites, ReconcileTidies
    <3> QED
      BY <1>1, <3>1
  <2> QED
    BY <1>5, <2>1, <2>2, <2>3 DEF ReconcileStep
<1>6. CASE UNCHANGED vars
  BY <1>1, <1>6 DEF vars, git
<1> QED
  BY <1>1, <1>2, <1>3, <1>4, <1>5, <1>6, ApplyRepo, UserRepo DEF Next

-----------------------------------------------------------------------------
(* The inductive invariant                                                 *)

\* Whatever was on the branches of these issues is in HEAD or was deleted.
Held == repo.main \cup repo.squashed \cup dropped

\* A merge under way names an issue; the stash is popped after the merge only,
\* and what is to be written as DONE is in HEAD, unless its branch was deleted.
ApplyGood(p, H) ==
  /\ p \in ApplyType
  /\ p.pc \notin {"idle", "ok", "err"} => p.issue \in Issues
  /\ p.pc = "pop" => p.issue \in H
  /\ p.pc = "write" /\ p.to = "DONE" => p.issue \in H

\* What is left of an outbox was accepted for the status of the spawn.
PhaseGood(p) ==
  /\ p \in PhaseType
  /\ p.pc \in {"replay", "set", "apply"} =>
       \A n \in DOMAIN p.rest : LineValid(p.before, p.rest[n])
  /\ p.pc = "set" => p.rest # <<>> /\ Head(p.rest).cmd = "status"

\* What a reconciliation is about to do was true when it was validated, and
\* stays true.
RecGood(q, H, D) ==
  LET x == Head(q.items) IN
  /\ q.pc \in {"write", "tidy"} => x.issue \in Issues
  /\ q.pc = "write" /\ x.action = "MarkDone" => x.issue \in H
  /\ q.pc = "tidy" => x.issue \in H
  /\ q.pc = "write" /\ x.action = "CleanupWorktree" =>
       /\ q.was \in Terminal
       /\ q.was = "DONE" => x.issue \in H \/ x.issue \in D

\* A retry may bring back the status of the last phase, so that one too must
\* not be a DONE nobody declared.
DoneGood ==
  \A i \in Issues : /\ status[i] = "DONE" => i \in Held \/ i \in declared
                    /\ last[i] = "DONE" => i \in declared

\* A branch no row names is left of a removed issue, and that one reads as
\* ABANDONED for good.
GoneGood == /\ ref \subseteq row \cup gone
            /\ \A i \in gone : status[i] = "ABANDONED"

MergeInv ==
  /\ TypeOK
  /\ RepoGood(repo)
  /\ same \subseteq Held
  /\ \A a \in Appliers : ApplyGood(apply[a], Held)
  /\ \A i \in Issues : PhaseGood(phase[i])
  /\ RecGood(rec, Held, declared)
  /\ DoneGood /\ GoneGood

LEMMA StatusSet ==
  /\ {"NEW", "MERGING", "DONE", "CONFLICT_BLOCKED", "RESOLVING_CONFLICT",
      "FAILED", "ABANDONED"} \subseteq Status
  /\ Terminal = {"DONE", "FAILED", "ABANDONED"}
BY DEF Status, Actionable, HumanGated, Terminal

LEMMA IdleGood ==
  ASSUME NEW H
  PROVE  ApplyGood(IdleApply, H) /\ PhaseGood(IdlePhase)
<1>1. IdleApply \in ApplyType /\ IdlePhase \in PhaseType
  BY StatusSet DEF IdleApply, IdlePhase, ApplyType, PhaseType, User
<1> QED
  BY <1>1 DEF ApplyGood, PhaseGood, IdleApply, IdlePhase

LEMMA InvInit == Init => MergeInv
<1> SUFFICES ASSUME Init PROVE MergeInv
  OBVIOUS
<1> USE MergeAssumption
<1>1. PICK P \in SUBSET Paths :
        repo = [main |-> {}, squashed |-> {}, edits |-> P, mine |-> P,
                broken |-> "no", stash |-> <<>>]
  BY DEF Init
<1>2. RepoGood(repo)
  BY <1>1 DEF RepoGood, RepoType, Kept, PopOpen
<1>3. /\ phase \in [Issues -> PhaseType] /\ apply \in [Appliers -> ApplyType]
      /\ \A a \in Appliers : ApplyGood(apply[a], Held)
      /\ \A i \in Issues : PhaseGood(phase[i])
  BY IdleGood DEF Init, ApplyGood, PhaseGood
<1>4. TypeOK
  BY <1>2, <1>3, StatusSet DEF Init, TypeOK, RepoGood, IdleRec
<1>5. RecGood(rec, Held, declared)
  BY DEF Init, IdleRec, RecGood
<1>6. DoneGood /\ GoneGood
  BY DEF Init, DoneGood, GoneGood
<1> QED
  BY <1>2, <1>3, <1>4, <1>5, <1>6 DEF Init, MergeInv

LEMMA HeldKeeps ==
  ASSUME NEW H, NEW K, H \subseteq K
  PROVE  /\ \A p : ApplyGood(p, H) => ApplyGood(p, K)
         /\ \A q, D, E : RecGood(q, H, D) /\ D \subseteq E => RecGood(q, K, E)
BY DEF ApplyGood, RecGood

\* What is held stays held: HEAD only gains, and a deleted branch is not brought
\* back.
LEMMA HeldNext ==
  ASSUME MergeInv, [Next]_vars
  PROVE  Held \subseteq Held'
<1>1. Gains(repo, repo')
  <2>1. TypeOK /\ RepoGood(repo)
    BY DEF MergeInv
  <2> QED
    BY <2>1, RepoNext
<1>2. dropped \subseteq dropped'
  <2>1. CASE UNCHANGED dropped
    BY <2>1
  <2>2. ASSUME NEW i, NEW recorded, Cleaned(i, recorded)
        PROVE  dropped \subseteq dropped'
    BY <2>2 DEF Cleaned
  <2>3. ASSUME NEW i \in Issues, TickSpawns(i) \/ PhaseStep(i)
        PROVE  UNCHANGED dropped
    BY <2>3, Zenon DEF TickSpawns, PhaseStep, AgentExits, ReplayNext, ReplaySets,
                ReplayApplied, ReplayEnds, PhaseFails, PhaseFailWrites,
                PhaseEnds, git
  <2>4. ASSUME NEW i \in Issues, TickTearsDown(i)
        PROVE  Cleaned(i, TRUE)
    BY <2>4, Zenon DEF TickTearsDown
  <2>5. ASSUME NEW a \in Appliers, Applies(a)
        PROVE  UNCHANGED dropped
    BY <2>5, Zenon DEF Applies, ApplyClean, ApplyRecheck, ApplyMerges, ApplyPops,
                ApplyWrite, git
  <2>6. ASSUME NEW h \in Handlers, Operator(h) \/ HandlerStep(h)
        PROVE  UNCHANGED dropped \/ \E i, recorded : Cleaned(i, recorded)
    BY <2>6, Zenon DEF Operator, HandlerStep, HandlerDiscards, HandlerGivesUp,
                HandlerDeletes, HandlerSets, HandlerEnds, git
  <2>7. CASE ReconcileStarts
    <3>1. dropped' = dropped \cup (ref \ ref')
      BY <2>7, Zenon DEF ReconcileStarts
    <3> QED
      BY <3>1
  <2>8. ASSUME ReconcileStep
        PROVE  UNCHANGED dropped \/ \E i, recorded : Cleaned(i, recorded)
    BY <2>8, Zenon DEF ReconcileStep, ReconcileValidates, ReconcileWrites,
                ReconcileTidies, ReconcileEnds, git
  <2>9. ASSUME ProposalStarts \/ UserWorks \/ Crash \/ UNCHANGED vars
        PROVE  UNCHANGED dropped
    BY <2>9, Zenon DEF ProposalStarts, UserWorks, Crash, vars, git
  <2> QED
    BY <2>1, <2>2, <2>3, <2>4, <2>5, <2>6, <2>7, <2>8, <2>9 DEF Next
<1> QED
  BY <1>1, <1>2 DEF Gains, Held

-----------------------------------------------------------------------------
(* What a step does to the merges under way                                *)

AppliesGood == /\ apply \in [Appliers -> ApplyType]
               /\ \A a \in Appliers : ApplyGood(apply[a], Held)

\* All but one merge stay as they are.
LEMMA OneApply ==
  ASSUME MergeInv, Held \subseteq Held', NEW a \in Appliers, NEW v,
         apply' = [apply EXCEPT ![a] = v], ApplyGood(v, Held')
  PROVE  AppliesGood'
<1>1. /\ apply \in [Appliers -> ApplyType] /\ v \in ApplyType
      /\ \A b \in Appliers : ApplyGood(apply[b], Held')
  BY HeldKeeps DEF MergeInv, TypeOK, ApplyGood
<1>2. apply' \in [Appliers -> ApplyType]
  BY <1>1
<1>3. \A b \in Appliers : apply'[b] = IF b = a THEN v ELSE apply[b]
  BY <1>1
<1> QED
  BY <1>1, <1>2, <1>3 DEF AppliesGood

LEMMA StepGood ==
  ASSUME MergeInv, Held \subseteq Held', NEW a \in Appliers,
         NEW pc \in {"merge", "pop", "giveUp", "delete", "ok", "err"}, Step(a, pc),
         pc \notin {"ok", "err"} => apply[a].issue \in Issues,
         pc = "pop" => apply[a].issue \in Held'
  PROVE  AppliesGood'
<1> DEFINE v == [apply[a] EXCEPT !.pc = pc]
<1>1. apply[a] \in ApplyType /\ apply \in [Appliers -> ApplyType]
  BY DEF MergeInv, TypeOK
<1>2. apply' = [apply EXCEPT ![a] = v]
  BY DEF Step
<1>3. v \in ApplyType /\ v.pc = pc /\ v.issue = apply[a].issue
  BY <1>1 DEF ApplyType
<1> HIDE DEF v
<1>4. ApplyGood(v, Held')
  BY <1>3 DEF ApplyGood
<1> QED
  BY <1>2, <1>4, OneApply

LEMMA ResultGood ==
  ASSUME MergeInv, Held \subseteq Held', NEW a \in Appliers,
         apply[a].issue \in Issues, NEW s \in Status, Result(a, s),
         s = "DONE" => apply[a].issue \in Held'
  PROVE  AppliesGood'
<1> DEFINE pc == IF LegalTransition(status[apply[a].issue], s) THEN "write"
                 ELSE "err"
           v == [apply[a] EXCEPT !.to = s, !.pc = pc]
<1>1. apply[a] \in ApplyType /\ apply \in [Appliers -> ApplyType]
  BY DEF MergeInv, TypeOK
<1>2. pc \in {"write", "err"}
  OBVIOUS
<1>3. apply' = [apply EXCEPT ![a].to = s, ![a].pc = pc]
  BY DEF Result
<1> HIDE DEF pc
<1>4. apply' = [apply EXCEPT ![a] = v]
  BY <1>1, <1>3
<1>5. v \in ApplyType /\ v.pc = pc /\ v.issue = apply[a].issue /\ v.to = s
  BY <1>1, <1>2 DEF ApplyType
<1> HIDE DEF v
<1>6. ApplyGood(v, Held')
  BY <1>2, <1>5 DEF ApplyGood
<1> QED
  BY <1>4, <1>6, OneApply

\* A merge that is taken up, and one that is over.
LEMMA TakenUpGood ==
  ASSUME MergeInv, Held \subseteq Held', NEW a \in Appliers,
         \/ \E i \in Issues : Apply(a, i)
         \/ \E i \in Issues, to \in Status : Asks(a, i, to)
         \/ \E i \in Issues, kind \in Discarding : AsksDiscard(a, i, kind)
         \/ apply' = [apply EXCEPT ![a] = IdleApply]
  PROVE  AppliesGood'
<1>1. ASSUME NEW i \in Issues, Apply(a, i)
      PROVE  AppliesGood'
  <2> DEFINE pc == IF status[i] = "MERGING" /\ i \in row THEN "clean" ELSE "err"
             v == [IdleApply EXCEPT !.issue = i, !.pc = pc]
  <2>0. apply' = [apply EXCEPT ![a] = v]
    BY <1>1, Zenon DEF Apply
  <2>1. pc \in {"clean", "err"} /\ apply' = [apply EXCEPT ![a] = v]
    BY <2>0, Zenon
  <2> HIDE DEF pc
  <2>2. v \in ApplyType /\ v.pc = pc /\ v.issue = i
    BY <2>1, StatusSet DEF IdleApply, ApplyType
  <2> HIDE DEF v
  <2>3. ApplyGood(v, Held')
    BY <2>1, <2>2 DEF ApplyGood
  <2> QED
    BY <2>1, <2>3, OneApply
<1>2. ASSUME NEW i \in Issues, NEW to \in Status, Asks(a, i, to)
      PROVE  AppliesGood'
  <2> DEFINE pc == IF LegalTransition(status[i], to) THEN "set" ELSE "err"
             v == [IdleApply EXCEPT !.issue = i, !.to = to, !.pc = pc]
  <2>0. apply' = [apply EXCEPT ![a] = v]
    BY <1>2, Zenon DEF Asks
  <2>1. pc \in {"set", "err"} /\ apply' = [apply EXCEPT ![a] = v]
    BY <2>0, Zenon
  <2> HIDE DEF pc
  <2>2. v \in ApplyType /\ v.pc = pc /\ v.issue = i
    BY <2>1, StatusSet DEF IdleApply, ApplyType
  <2> HIDE DEF v
  <2>3. ApplyGood(v, Held')
    BY <2>1, <2>2 DEF ApplyGood
  <2> QED
    BY <2>1, <2>3, OneApply
<1>3. ASSUME NEW i \in Issues, NEW kind \in Discarding, AsksDiscard(a, i, kind)
      PROVE  AppliesGood'
  <2> DEFINE saved == i \in row
             v == [IdleApply EXCEPT !.pc = kind, !.issue = i, !.saved = saved]
  <2>1. apply' = [apply EXCEPT ![a] = v]
    BY <1>3, Zenon DEF AsksDiscard
  <2>2. saved \in BOOLEAN
    OBVIOUS
  <2> HIDE DEF saved
  <2>3. v \in ApplyType /\ v.pc = kind /\ v.issue = i
    BY <2>2, StatusSet DEF IdleApply, ApplyType
  <2> HIDE DEF v
  <2>4. ApplyGood(v, Held')
    BY <2>3 DEF ApplyGood, Discarding
  <2> QED
    BY <2>1, <2>4, OneApply
<1>4. CASE apply' = [apply EXCEPT ![a] = IdleApply]
  BY <1>4, IdleGood, OneApply
<1> QED
  BY <1>1, <1>2, <1>3, <1>4

LEMMA ApplyStepGood ==
  ASSUME MergeInv, Held \subseteq Held', NEW a \in Appliers, Applies(a)
  PROVE  AppliesGood'
<1>1. /\ apply \in [Appliers -> ApplyType] /\ repo \in RepoType
      /\ ApplyGood(apply[a], Held)
  BY DEF MergeInv, TypeOK
<1>2. CASE ApplyClean(a)
  <2>1. AtApply(a, "clean") /\ apply[a].issue \in Issues
    BY <1>1, <1>2 DEF ApplyClean, AtApply, ApplyGood
  <2>2. CASE Result(a, "CONFLICT_BLOCKED")
    BY <2>1, <2>2, ResultGood, StatusSet
  <2>3. CASE Step(a, "merge")
    BY <2>1, <2>3, StepGood
  <2>4. CASE apply' = [apply EXCEPT ![a].pc = "recheck", ![a].saved = TRUE]
    <3> DEFINE v == [apply[a] EXCEPT !.pc = "recheck", !.saved = TRUE]
    <3>1. apply' = [apply EXCEPT ![a] = v]
      BY <1>1, <2>4
    <3>2. v \in ApplyType /\ v.pc = "recheck" /\ v.issue = apply[a].issue
      BY <1>1 DEF ApplyType
    <3> HIDE DEF v
    <3>3. ApplyGood(v, Held')
      BY <2>1, <3>2 DEF ApplyGood
    <3> QED
      BY <3>1, <3>3, OneApply
  <2> QED
    BY <1>2, <2>2, <2>3, <2>4, Zenon DEF ApplyClean
<1>3. CASE ApplyRecheck(a)
  <2>1. apply[a].issue \in Issues
    BY <1>1, <1>3 DEF ApplyRecheck, AtApply, ApplyGood
  <2>2. Step(a, "merge") \/ Result(a, "CONFLICT_BLOCKED")
    BY <1>3, Zenon DEF ApplyRecheck
  <2> QED
    BY <2>1, <2>2, StepGood, ResultGood, StatusSet
<1>4. CASE ApplyMerges(a)
  <2> DEFINE i == apply[a].issue
  <2>1. i \in Issues
    BY <1>1, <1>4 DEF ApplyMerges, AtApply, ApplyGood
  <2>2. CASE Result(a, "CONFLICT_BLOCKED")
    BY <2>1, <2>2, ResultGood, StatusSet
  <2>3. CASE /\ repo' = IF UpToDate(i) THEN repo
                        ELSE [Commits(repo, Changes[i]) EXCEPT !.main = @ \cup {i}]
             /\ IF apply[a].saved THEN Step(a, "pop") ELSE Result(a, "DONE")
    <3>1. i \in Held'
      <4>1. CASE UpToDate(i)
        <5>1. i \in Held
          BY <4>1 DEF UpToDate, Merged, Held
        <5> QED
          BY <5>1
      <4>2. CASE ~UpToDate(i)
        <5> DEFINE c == Commits(repo, Changes[i])
        <5>1. c \in RepoType
          <6>1. Changes[i] \in SUBSET Paths
            BY <2>1, MergeAssumption
          <6> QED
            BY <6>1, CommitsKeeps DEF MergeInv, RepoGood
        <5> HIDE DEF c
        <5>2. repo' = [c EXCEPT !.main = @ \cup {i}]
          BY <2>3, <4>2, Zenon DEF c
        <5>3. i \in repo'.main
          BY <5>1, <5>2 DEF RepoType
        <5> QED
          BY <5>3 DEF Held
      <4> QED
        BY <4>1, <4>2
    <3>2. Step(a, "pop") \/ Result(a, "DONE")
      BY <2>3, Zenon
    <3> HIDE DEF i
    <3> QED
      BY <2>1, <3>1, <3>2, StepGood, ResultGood, StatusSet DEF i
  <2> QED
    BY <1>4, <2>2, <2>3, Zenon DEF ApplyMerges
<1>5. CASE ApplyPops(a)
  <2>1. apply[a].issue \in Issues /\ apply[a].issue \in Held
    BY <1>1, <1>5 DEF ApplyPops, AtApply, ApplyGood
  <2>2. Result(a, "DONE") \/ Result(a, "CONFLICT_BLOCKED")
    BY <1>5, Zenon DEF ApplyPops
  <2> QED
    BY <2>1, <2>2, ResultGood, StatusSet
<1>6. CASE ApplyWrite(a)
  <2>1. Step(a, "ok")
    BY <1>6 DEF ApplyWrite
  <2> QED
    BY <2>1, StepGood
<1> QED
  BY <1>2, <1>3, <1>4, <1>5, <1>6 DEF Applies

LEMMA ApplyNext ==
  ASSUME MergeInv, Held \subseteq Held', [Next]_vars
  PROVE  AppliesGood'
<1>1. CASE UNCHANGED apply
  BY <1>1, HeldKeeps DEF MergeInv, TypeOK, AppliesGood
<1>2. ASSUME NEW i \in Issues, ReplayNext(i) \/ ReplayApplied(i)
      PROVE  AppliesGood'
  <2>1. \/ UNCHANGED apply \/ Apply(i, i)
        \/ apply' = [apply EXCEPT ![i] = IdleApply]
    BY <1>2, Zenon DEF ReplayNext, ReplayApplied
  <2> QED
    BY <1>1, <2>1, TakenUpGood DEF Appliers
<1>3. ASSUME NEW h \in Handlers, Operator(h) \/ HandlerStep(h)
      PROVE  AppliesGood'
  <2>1. h \in Appliers
    BY DEF Appliers
  <2>2. CASE Operator(h)
    <3>1. \/ UNCHANGED apply
          \/ \E i \in Issues : Apply(h, i)
          \/ \E i \in Issues, kind \in Discarding : AsksDiscard(h, i, kind)
          \/ \E i \in Issues, to \in {"RESOLVING_CONFLICT", "MERGING"} : Asks(h, i, to)
      BY <2>2, Zenon DEF Operator, Handled
    <3>2. \/ UNCHANGED apply
          \/ \E i \in Issues : Apply(h, i)
          \/ \E i \in Issues, kind \in Discarding : AsksDiscard(h, i, kind)
          \/ \E i \in Issues, to \in Status : Asks(h, i, to)
      BY <3>1, StatusSet
    <3> QED
      BY <1>1, <2>1, <3>2, TakenUpGood
  <2>3. CASE HandlerSets(h)
    BY <2>1, <2>3, StepGood DEF HandlerSets
  <2>4. CASE HandlerEnds(h)
    BY <2>1, <2>4, TakenUpGood DEF HandlerEnds
  <2>5. CASE HandlerDiscards(h)
    <3>1. apply[h].pc \in Discarding /\ apply[h].issue \in Issues
      BY <2>1, <2>5 DEF HandlerDiscards, Discarding, MergeInv, ApplyGood
    <3>2. Step(h, "ok") \/ Step(h, "giveUp") \/ Step(h, "delete")
      <4> DEFINE pc == CASE AtApply(h, "cleanup") -> "ok"
                         [] AtApply(h, "abandon") -> "giveUp"
                         [] AtApply(h, "remove") -> "delete"
      <4>1. pc \in {"ok", "giveUp", "delete"}
        BY <3>1 DEF Discarding, AtApply
      <4>2. Step(h, pc)
        BY <2>5, Zenon DEF HandlerDiscards
      <4> HIDE DEF pc
      <4> QED
        BY <4>1, <4>2
    <3> QED
      BY <2>1, <3>1, <3>2, StepGood
  <2>6. CASE HandlerGivesUp(h)
    <3>1. apply[h].issue \in Issues /\ Asks(h, apply[h].issue, "ABANDONED")
      BY <2>1, <2>6 DEF HandlerGivesUp, AtApply, MergeInv, ApplyGood
    <3> QED
      BY <2>1, <3>1, StatusSet, TakenUpGood
  <2>7. CASE HandlerDeletes(h)
    BY <2>1, <2>7, StepGood DEF HandlerDeletes
  <2> QED
    BY <1>3, <2>2, <2>3, <2>4, <2>5, <2>6, <2>7 DEF HandlerStep
<1>4. CASE Crash
  <2>1. apply' = [a \in Appliers |-> IdleApply]
    BY <1>4 DEF Crash
  <2>2. ApplyGood(IdleApply, Held') /\ IdleApply \in ApplyType
    BY IdleGood DEF ApplyGood
  <2> QED
    BY <2>1, <2>2 DEF AppliesGood
<1>5. ASSUME NEW i \in Issues,
             \/ TickSpawns(i) \/ TickTearsDown(i) \/ AgentExits(i)
             \/ ReplaySets(i) \/ ReplayEnds(i) \/ PhaseFails(i)
             \/ PhaseFailWrites(i) \/ PhaseEnds(i)
      PROVE  UNCHANGED apply
  BY <1>5 DEF TickSpawns, TickTearsDown, AgentExits, ReplaySets, ReplayEnds,
              PhaseFails, PhaseFailWrites, PhaseEnds
<1>6. ASSUME ReconcileStarts \/ ProposalStarts \/ ReconcileStep \/ UserWorks
             \/ UNCHANGED vars
      PROVE  UNCHANGED apply
  BY <1>6, Zenon DEF ReconcileStarts, ProposalStarts, ReconcileStep, UserWorks,
              ReconcileValidates, ReconcileWrites, ReconcileTidies,
              ReconcileEnds, vars
<1> QED
  BY <1>1, <1>2, <1>3, <1>4, <1>5, <1>6, ApplyStepGood DEF Next, PhaseStep

-----------------------------------------------------------------------------
(* What a step does to the phases                                          *)

PhasesGood == /\ phase \in [Issues -> PhaseType]
              /\ \A i \in Issues : PhaseGood(phase[i])

LEMMA OnePhase ==
  ASSUME MergeInv, NEW i \in Issues, NEW v,
         phase' = [phase EXCEPT ![i] = v], PhaseGood(v)
  PROVE  PhasesGood'
<1>1. /\ phase \in [Issues -> PhaseType] /\ v \in PhaseType
      /\ \A j \in Issues : PhaseGood(phase[j])
  BY DEF MergeInv, TypeOK, PhaseGood
<1>2. phase' \in [Issues -> PhaseType]
  BY <1>1
<1>3. \A j \in Issues : phase'[j] = IF j = i THEN v ELSE phase[j]
  BY <1>1
<1> QED
  BY <1>1, <1>2, <1>3 DEF PhasesGood

\* The phase moves on to a step that needs nothing of what is left to replay.
LEMMA GotoGood ==
  ASSUME MergeInv, NEW i \in Issues, NEW pc \in {"fail", "failWrite", "end"},
         Goto(i, pc)
  PROVE  PhasesGood'
<1> DEFINE v == [phase[i] EXCEPT !.pc = pc]
<1>1. phase[i] \in PhaseType
  BY DEF MergeInv, TypeOK
<1>2. phase' = [phase EXCEPT ![i] = v]
  BY DEF Goto
<1>3. v \in PhaseType /\ v.pc = pc
  BY <1>1 DEF PhaseType
<1> HIDE DEF v
<1>4. PhaseGood(v)
  BY <1>3 DEF PhaseGood
<1> QED
  BY <1>2, <1>4, OnePhase

LEMMA SpawnsGood ==
  ASSUME MergeInv, NEW i \in Issues, NEW s \in Status, Spawns(i, s)
  PROVE  PhasesGood'
<1> DEFINE v == [IdlePhase EXCEPT !.pc = "agent", !.before = s]
<1>1. phase' = [phase EXCEPT ![i] = v]
  BY Zenon DEF Spawns
<1>2. v \in PhaseType /\ v.pc = "agent"
  <2>1. IdlePhase \in PhaseType
    BY IdleGood DEF PhaseGood
  <2> QED
    BY <2>1 DEF PhaseType
<1> HIDE DEF v
<1>3. PhaseGood(v)
  BY <1>2 DEF PhaseGood
<1> QED
  BY <1>1, <1>3, OnePhase

LEMMA AgentExitsGood ==
  ASSUME MergeInv, NEW i \in Issues, AgentExits(i)
  PROVE  PhasesGood'
<1>1. phase \in [Issues -> PhaseType] /\ phase[i] \in PhaseType
  BY DEF MergeInv, TypeOK
<1>2. PICK box \in Boxes :
        phase' = [phase EXCEPT
          ![i].pc = IF Accepted(phase[i].before, box) THEN "replay" ELSE "fail",
          ![i].rest = IF Accepted(phase[i].before, box) THEN box ELSE <<>>]
  BY Zenon DEF AgentExits
<1> DEFINE pc == IF Accepted(phase[i].before, box) THEN "replay" ELSE "fail"
           rest == IF Accepted(phase[i].before, box) THEN box ELSE <<>>
           v == [phase[i] EXCEPT !.pc = pc, !.rest = rest]
<1>3. /\ pc \in {"replay", "fail"} /\ rest \in Seq(Command)
      /\ pc = "replay" => \A n \in DOMAIN rest : LineValid(phase[i].before, rest[n])
  <2>1. CASE Accepted(phase[i].before, box)
    <3>1. rest = box /\ box \in Seq(Command) /\ pc = "replay"
      BY <2>1, MergeAssumption
    <3>2. \A n \in DOMAIN box : LineValid(phase[i].before, box[n])
      BY <2>1 DEF Accepted
    <3> QED
      BY <3>1, <3>2
  <2>2. CASE ~Accepted(phase[i].before, box)
    <3>1. rest = <<>> /\ pc = "fail"
      BY <2>2
    <3> QED
      BY <3>1
  <2> QED
    BY <2>1, <2>2
<1> HIDE DEF pc, rest
<1>4. phase' = [phase EXCEPT ![i].pc = pc, ![i].rest = rest]
  BY <1>2 DEF pc, rest
<1>5. phase' = [phase EXCEPT ![i] = v]
  BY <1>1, <1>4
<1>6. v \in PhaseType /\ v.pc = pc /\ v.rest = rest /\ v.before = phase[i].before
  BY <1>1, <1>3 DEF PhaseType
<1> HIDE DEF v
<1>7. PhaseGood(v)
  BY <1>3, <1>6 DEF PhaseGood
<1> QED
  BY <1>5, <1>7, OnePhase

\* The next command is taken off what is left.
LEMMA TailGood ==
  ASSUME NEW p \in PhaseType, p.rest # <<>>, NEW v \in PhaseType,
         \A n \in DOMAIN p.rest : LineValid(p.before, p.rest[n]),
         v.before = p.before, v.rest = Tail(p.rest), v.pc # "set"
  PROVE  PhaseGood(v)
<1>1. p.rest \in Seq(Command)
  BY DEF PhaseType
<1>2. \A n \in DOMAIN Tail(p.rest) :
        n + 1 \in DOMAIN p.rest /\ Tail(p.rest)[n] = p.rest[n + 1]
  BY <1>1
<1> QED
  BY <1>2 DEF PhaseGood

LEMMA ReplayNextGood ==
  ASSUME MergeInv, NEW i \in Issues, ReplayNext(i)
  PROVE  PhasesGood'
<1> DEFINE c == Head(phase[i].rest)
           next == [phase[i] EXCEPT !.rest = Tail(@)]
<1>1. /\ phase \in [Issues -> PhaseType] /\ phase[i] \in PhaseType
      /\ phase[i].pc = "replay" /\ phase[i].rest # <<>>
      /\ \A n \in DOMAIN phase[i].rest :
           LineValid(phase[i].before, phase[i].rest[n])
  BY DEF MergeInv, TypeOK, PhaseGood, ReplayNext
<1>2. Tail(phase[i].rest) \in Seq(Command)
  BY <1>1 DEF PhaseType
<1>3. /\ next \in PhaseType /\ next.before = phase[i].before
      /\ next.rest = Tail(phase[i].rest) /\ next.pc = "replay"
  BY <1>1, <1>2 DEF PhaseType
<1>4. \/ phase' = [phase EXCEPT ![i] = [next EXCEPT !.pc = "apply"]]
      \/ /\ c.cmd = "status"
         /\ phase' = [phase EXCEPT ![i] = [phase[i] EXCEPT !.pc = "set"]]
      \/ phase' = [phase EXCEPT ![i] = [next EXCEPT !.erred = TRUE]]
      \/ phase' = [phase EXCEPT ![i] = next]
  BY Zenon DEF ReplayNext
<1> HIDE DEF next
<1>5. CASE phase' = [phase EXCEPT ![i] = [next EXCEPT !.pc = "apply"]]
  <2> DEFINE v == [next EXCEPT !.pc = "apply"]
  <2>1. /\ v \in PhaseType /\ v.before = phase[i].before
        /\ v.rest = Tail(phase[i].rest) /\ v.pc = "apply"
    BY <1>3 DEF PhaseType
  <2> HIDE DEF v
  <2> QED
    BY <1>1, <1>5, <2>1, TailGood, OnePhase DEF v
<1>6. CASE /\ c.cmd = "status"
           /\ phase' = [phase EXCEPT ![i] = [phase[i] EXCEPT !.pc = "set"]]
  <2> DEFINE v == [phase[i] EXCEPT !.pc = "set"]
  <2>1. /\ v \in PhaseType /\ v.before = phase[i].before
        /\ v.rest = phase[i].rest /\ v.pc = "set"
    BY <1>1 DEF PhaseType
  <2> HIDE DEF v
  <2>2. PhaseGood(v)
    BY <1>1, <1>6, <2>1 DEF PhaseGood
  <2> QED
    BY <1>6, <2>2, OnePhase DEF v
<1>7. CASE phase' = [phase EXCEPT ![i] = [next EXCEPT !.erred = TRUE]]
  <2> DEFINE v == [next EXCEPT !.erred = TRUE]
  <2>1. /\ v \in PhaseType /\ v.before = phase[i].before
        /\ v.rest = Tail(phase[i].rest) /\ v.pc = "replay"
    BY <1>3 DEF PhaseType
  <2> HIDE DEF v
  <2> QED
    BY <1>1, <1>7, <2>1, TailGood, OnePhase DEF v
<1>8. CASE phase' = [phase EXCEPT ![i] = next]
  <2>1. PhaseGood(next)
    BY <1>1, <1>3, TailGood
  <2> QED
    BY <1>8, <2>1, OnePhase
<1> QED
  BY <1>4, <1>5, <1>6, <1>7, <1>8

LEMMA PhaseNext ==
  ASSUME MergeInv, [Next]_vars
  PROVE  PhasesGood'
<1>1. CASE UNCHANGED phase
  BY <1>1 DEF MergeInv, TypeOK, PhasesGood
<1>2. ASSUME NEW i \in Issues, TickSpawns(i)
      PROVE  PhasesGood'
  <2>1. status[i] \in Status /\ Spawns(i, status[i])
    BY <1>2 DEF TickSpawns, MergeInv, TypeOK
  <2> QED
    BY <2>1, SpawnsGood
<1>3. ASSUME NEW i \in Issues, ReplaySets(i) \/ ReplayApplied(i)
      PROVE  PhasesGood'
  <2>1. /\ phase \in [Issues -> PhaseType] /\ phase[i] \in PhaseType
        /\ PhaseGood(phase[i])
    BY DEF MergeInv, TypeOK
  <2>2. CASE ReplaySets(i)
    <3> DEFINE v == [phase[i] EXCEPT !.pc = "replay", !.rest = Tail(@)]
    <3>1. phase[i].pc = "set" /\ phase[i].rest # <<>>
      BY <2>1, <2>2 DEF ReplaySets, PhaseGood
    <3>2. phase' = [phase EXCEPT ![i].pc = "replay", ![i].rest = Tail(@)]
      BY <2>2, Zenon DEF ReplaySets
    <3>3. phase' = [phase EXCEPT ![i] = v]
      BY <2>1, <3>2
    <3>4. Tail(phase[i].rest) \in Seq(Command)
      BY <2>1, <3>1 DEF PhaseType
    <3>5. /\ v \in PhaseType /\ v.before = phase[i].before
          /\ v.rest = Tail(phase[i].rest) /\ v.pc = "replay"
      BY <2>1, <3>4 DEF PhaseType
    <3> HIDE DEF v
    <3>6. PhaseGood(v)
      BY <2>1, <3>1, <3>5, TailGood DEF PhaseGood
    <3> QED
      BY <3>3, <3>6, OnePhase
  <2>3. CASE ReplayApplied(i)
    <3> DEFINE erred == phase[i].erred \/ apply[i].pc = "err"
               v == [phase[i] EXCEPT !.pc = "replay", !.erred = erred]
    <3>1. erred \in BOOLEAN /\ phase[i].pc = "apply"
      BY <2>3 DEF ReplayApplied
    <3>2. phase' = [phase EXCEPT ![i].pc = "replay",
                                 ![i].erred = @ \/ apply[i].pc = "err"]
      BY <2>3, Zenon DEF ReplayApplied
    <3>3. phase' = [phase EXCEPT ![i] = v]
      BY <2>1, <3>2
    <3> HIDE DEF erred
    <3>4. /\ v \in PhaseType /\ v.before = phase[i].before
          /\ v.rest = phase[i].rest /\ v.pc = "replay"
      BY <2>1, <3>1 DEF PhaseType
    <3> HIDE DEF v
    <3>5. PhaseGood(v)
      BY <2>1, <3>1, <3>4 DEF PhaseGood
    <3> QED
      BY <3>3, <3>5, OnePhase
  <2> QED
    BY <1>3, <2>2, <2>3
<1>4. ASSUME NEW i \in Issues,
             ReplayEnds(i) \/ PhaseFails(i) \/ PhaseFailWrites(i) \/ PhaseEnds(i)
      PROVE  PhasesGood'
  <2>1. \/ Goto(i, "fail") \/ Goto(i, "failWrite") \/ Goto(i, "end")
        \/ phase' = [phase EXCEPT ![i] = IdlePhase]
    BY <1>4 DEF ReplayEnds, PhaseFails, PhaseFailWrites, PhaseEnds
  <2> QED
    BY <2>1, GotoGood, IdleGood, OnePhase
<1>5. ASSUME NEW h \in Handlers, Operator(h)
      PROVE  PhasesGood'
  <2>1. \/ UNCHANGED phase
        \/ \E i \in Issues : Spawns(i, status[i])
        \/ \E i \in Issues : Spawns(i, last[i])
    BY <1>5, Zenon DEF Operator, AtOnce, Retries
  <2>2. ASSUME NEW i \in Issues
        PROVE  status[i] \in Status /\ last[i] \in Status
    BY DEF MergeInv, TypeOK
  <2> QED
    BY <1>1, <2>1, <2>2, SpawnsGood
<1>6. CASE ReconcileWrites
  <2>1. /\ Head(rec.items).issue \in Issues
        /\ last[Head(rec.items).issue] \in Status
    BY <1>6 DEF ReconcileWrites, MergeInv, RecGood, TypeOK
  <2>2. \/ UNCHANGED phase
        \/ Spawns(Head(rec.items).issue, last[Head(rec.items).issue])
    BY <1>6, Zenon DEF ReconcileWrites, Retries
  <2> QED
    BY <1>1, <2>1, <2>2, SpawnsGood
<1>7. CASE Crash
  <2>1. phase' = [i \in Issues |-> IdlePhase]
    BY <1>7 DEF Crash
  <2>2. PhaseGood(IdlePhase) /\ IdlePhase \in PhaseType
    BY IdleGood DEF PhaseGood
  <2> QED
    BY <2>1, <2>2 DEF PhasesGood
<1>8. ASSUME NEW i \in Issues, TickTearsDown(i)
      PROVE  UNCHANGED phase
  BY <1>8 DEF TickTearsDown
<1>9. ASSUME NEW a \in Appliers, Applies(a)
      PROVE  UNCHANGED phase
  BY <1>9 DEF Applies
<1>10. ASSUME NEW h \in Handlers, HandlerStep(h)
       PROVE  UNCHANGED phase
  BY <1>10, Zenon DEF HandlerStep, HandlerDiscards, HandlerGivesUp, HandlerDeletes,
              HandlerSets, HandlerEnds
<1>11. ASSUME \/ ReconcileStarts \/ ProposalStarts \/ ReconcileValidates
              \/ ReconcileTidies \/ ReconcileEnds \/ UserWorks \/ UNCHANGED vars
       PROVE  UNCHANGED phase
  BY <1>11, Zenon DEF ReconcileStarts, ProposalStarts, ReconcileValidates,
              ReconcileTidies, ReconcileEnds, UserWorks, vars
<1> QED
  BY <1>1, <1>2, <1>3, <1>4, <1>5, <1>6, <1>7, <1>8, <1>9, <1>10, <1>11,
     AgentExitsGood, ReplayNextGood DEF Next, PhaseStep, ReconcileStep

-----------------------------------------------------------------------------
(* What a step does to the rows and to the reconciliation                  *)

RowsGood ==
  /\ status \in [Issues -> Status] /\ last \in [Issues -> Status]
  /\ row \subseteq Issues /\ ref \subseteq Issues
  /\ declared \subseteq Issues /\ gone \subseteq Issues /\ dropped \subseteq Issues
  /\ DoneGood /\ GoneGood

LEMMA NowGood ==
  ASSUME MergeInv
  PROVE  RowsGood
BY DEF MergeInv, TypeOK, RowsGood

\* A row that is still there is written; others stay as they are.
LEMMA SetRowWrites ==
  ASSUME MergeInv, NEW i, NEW s \in Status, SetRow(i, s)
  PROVE  /\ status' \in [Issues -> Status]
         /\ \A j \in Issues : \/ status'[j] = status[j]
                              \/ j = i /\ status'[j] = s
         /\ \A j \in gone : status'[j] = "ABANDONED"
<1>1. RowsGood
  BY NowGood
<1>2. CASE i \in gone
  BY <1>1, <1>2 DEF SetRow, RowsGood, GoneGood
<1>3. CASE i \notin gone
  <2>1. status' = [status EXCEPT ![i] = s]
    BY <1>3 DEF SetRow
  <2> QED
    BY <1>1, <1>3, <2>1 DEF RowsGood, GoneGood
<1> QED
  BY <1>2, <1>3

\* One status is written; a DONE is in HEAD, deleted or declared.
LEMMA OneStatus ==
  ASSUME MergeInv, Held \subseteq Held', NEW i, NEW s \in Status, SetRow(i, s),
         UNCHANGED <<last, row, ref, gone, dropped>>,
         declared \subseteq declared', declared' \subseteq Issues,
         s = "DONE" => i \in Held' \/ i \in declared'
  PROVE  RowsGood'
<1>1. RowsGood
  BY NowGood
<1>2. /\ status' \in [Issues -> Status]
      /\ \A j \in Issues : status'[j] = status[j] \/ (j = i /\ status'[j] = s)
      /\ \A j \in gone : status'[j] = "ABANDONED"
  BY SetRowWrites
<1>3. DoneGood'
  <2> SUFFICES ASSUME NEW j \in Issues
               PROVE  /\ status'[j] = "DONE" => j \in Held' \/ j \in declared'
                      /\ last'[j] = "DONE" => j \in declared'
    BY DEF DoneGood
  <2> QED
    BY <1>1, <1>2 DEF RowsGood, DoneGood
<1>4. GoneGood'
  BY <1>1, <1>2 DEF RowsGood, GoneGood
<1> QED
  BY <1>1, <1>2, <1>3, <1>4 DEF RowsGood

\* A phase is spawned for a status the issue has, or had when it last ran.
LEMMA SpawnRows ==
  ASSUME MergeInv, Held \subseteq Held', UNCHANGED <<declared, gone, dropped>>,
         NEW i \in Issues,
         \/ UNCHANGED status /\ Spawns(i, status[i]) /\ status[i] # "DONE"
         \/ Retries(i)
  PROVE  RowsGood'
<1>1. RowsGood
  BY NowGood
<1>2. ASSUME NEW t \in Status, Spawns(i, t), t = "DONE" => i \in declared,
             status' \in [Issues -> Status],
             \A j \in Issues : status'[j] = status[j] \/ (j = i /\ status'[j] = t),
             \A j \in gone : status'[j] = "ABANDONED"
      PROVE  RowsGood'
  <2>1. last' = [last EXCEPT ![i] = t] /\ row' = row \cup {i} /\ ref' = ref \cup {i}
    BY <1>2, Zenon DEF Spawns
  <2>2. /\ last' \in [Issues -> Status]
        /\ \A j \in Issues : last'[j] = IF j = i THEN t ELSE last[j]
    BY <1>1, <2>1 DEF RowsGood
  <2>3. GoneGood'
    BY <1>1, <1>2, <2>1 DEF RowsGood, GoneGood
  <2>4. DoneGood'
    <3> SUFFICES ASSUME NEW j \in Issues
                 PROVE  /\ status'[j] = "DONE" => j \in Held' \/ j \in declared'
                        /\ last'[j] = "DONE" => j \in declared'
      BY DEF DoneGood
    <3> QED
      BY <1>1, <1>2, <2>2 DEF RowsGood, DoneGood
  <2> QED
    BY <1>1, <1>2, <2>1, <2>2, <2>3, <2>4 DEF RowsGood
<1>3. CASE UNCHANGED status /\ Spawns(i, status[i]) /\ status[i] # "DONE"
  BY <1>1, <1>2, <1>3 DEF RowsGood, GoneGood
<1>4. CASE Retries(i)
  <2>1. last[i] \in Status /\ SetRow(i, last[i]) /\ Spawns(i, last[i])
    BY <1>1, <1>4 DEF Retries, RowsGood
  <2>2. last[i] = "DONE" => i \in declared
    BY <1>1 DEF RowsGood, DoneGood
  <2> QED
    BY <1>2, <2>1, <2>2, SetRowWrites
<1> QED
  BY <1>3, <1>4

LEMMA CleanedRows ==
  ASSUME MergeInv, Held \subseteq Held', UNCHANGED <<status, last, declared, gone>>,
         NEW i, NEW recorded, Cleaned(i, recorded)
  PROVE  RowsGood'
<1>1. RowsGood
  BY NowGood
<1>2. /\ dropped' = dropped \cup (ref \ ref')
      /\ \/ ref' = ref \ {i} /\ row' = row \ {i}
         \/ ref' = ref /\ row' = row
  BY DEF Cleaned
<1>3. DoneGood' /\ GoneGood'
  BY <1>1, <1>2 DEF RowsGood, DoneGood, GoneGood
<1> QED
  BY <1>1, <1>2, <1>3 DEF RowsGood

LEMMA SameRows ==
  ASSUME MergeInv, UNCHANGED <<rows, ref, dropped>>, Held \subseteq Held'
  PROVE  RowsGood'
BY DEF rows, MergeInv, TypeOK, RowsGood, DoneGood, GoneGood

\* The outbox sets a status that it was accepted for.
LEMMA ReplaySetsTo ==
  ASSUME MergeInv, NEW i \in Issues, ReplaySets(i)
  PROVE  LET to == Head(phase[i].rest).to IN
         /\ to \in Status /\ LegalTransition(phase[i].before, to)
         /\ SetRow(i, to) /\ Declare(i, to)
<1> DEFINE c == Head(phase[i].rest)
<1>1. phase[i] \in PhaseType /\ PhaseGood(phase[i]) /\ phase[i].pc = "set"
  BY DEF MergeInv, TypeOK, ReplaySets
<1>2. /\ phase[i].rest \in Seq(Command) /\ phase[i].rest # <<>>
      /\ c.cmd = "status"
      /\ \A n \in DOMAIN phase[i].rest : LineValid(phase[i].before, phase[i].rest[n])
  BY <1>1 DEF PhaseGood, PhaseType
<1>3. c = phase[i].rest[1] /\ 1 \in DOMAIN phase[i].rest /\ c \in Command
  BY <1>2
<1>4. LineValid(phase[i].before, c)
  BY <1>2, <1>3
<1>5. c.to \in Status /\ LegalTransition(phase[i].before, c.to)
  BY <1>2, <1>3, <1>4 DEF LineValid, Command
<1> QED
  BY <1>5, Zenon DEF ReplaySets

LEMMA PhaseRows ==
  ASSUME MergeInv, Held \subseteq Held', NEW i \in Issues, PhaseStep(i)
  PROVE  RowsGood' /\ declared \subseteq declared'
<1>1. CASE UNCHANGED <<rows, ref, dropped>>
  BY <1>1, SameRows DEF rows
<1>2. CASE ReplaySets(i)
  <2> DEFINE to == Head(phase[i].rest).to
  <2>1. to \in Status /\ SetRow(i, to) /\ Declare(i, to)
    BY <1>2, ReplaySetsTo
  <2>2. UNCHANGED <<row, last, ref, gone, dropped>>
    BY <1>2 DEF ReplaySets, git
  <2> HIDE DEF to
  <2>3. /\ declared \subseteq declared' /\ declared' \subseteq Issues
        /\ to = "DONE" => i \in declared'
    BY <2>1 DEF Declare, MergeInv, TypeOK
  <2> QED
    BY <2>1, <2>2, <2>3, OneStatus
<1>3. CASE PhaseFailWrites(i)
  <2>1. SetRow(i, "FAILED") /\ UNCHANGED <<row, last, declared, ref, gone, dropped>>
    BY <1>3 DEF PhaseFailWrites, git
  <2> QED
    BY <2>1, OneStatus, StatusSet, NowGood DEF RowsGood
<1>4. CASE \/ AgentExits(i) \/ ReplayNext(i) \/ ReplayApplied(i)
           \/ ReplayEnds(i) \/ PhaseFails(i) \/ PhaseEnds(i)
  <2>1. UNCHANGED <<rows, ref, dropped>>
    BY <1>4, Zenon DEF AgentExits, ReplayNext, ReplayApplied, ReplayEnds,
                       PhaseFails, PhaseEnds, git
  <2> QED
    BY <1>1, <2>1
<1> QED
  BY <1>2, <1>3, <1>4 DEF PhaseStep

LEMMA ReconcileRows ==
  ASSUME MergeInv, Held \subseteq Held', ReconcileStep
  PROVE  RowsGood' /\ UNCHANGED declared
<1> DEFINE i == Head(rec.items).issue
<1>1. CASE ReconcileValidates \/ ReconcileEnds
  <2>1. UNCHANGED <<rows, ref, dropped>>
    BY <1>1, Zenon DEF ReconcileValidates, ReconcileEnds, git
  <2> QED
    BY <2>1, SameRows DEF rows
<1>2. CASE ReconcileTidies
  <2>1. Cleaned(i, i \in row) /\ UNCHANGED <<status, last, declared, gone>>
    BY <1>2, Zenon DEF ReconcileTidies
  <2> QED
    BY <2>1, CleanedRows
<1>3. CASE ReconcileWrites
  <2>1. UNCHANGED <<declared, gone, repo>> /\ i \in Issues /\ declared \subseteq Issues
    BY <1>3 DEF ReconcileWrites, MergeInv, RecGood, TypeOK
  <2>2. ASSUME NEW from, NEW to \in Status, WriteIf(i, from, to),
               UNCHANGED <<row, ref, dropped, last>>,
               to = "DONE" => i \in Held
        PROVE  RowsGood'
    <3>1. CASE SetRow(i, to)
      BY <2>1, <2>2, <3>1, OneStatus
    <3>2. CASE UNCHANGED status
      BY <2>1, <2>2, <3>2, SameRows DEF rows
    <3> QED
      BY <2>2, <3>1, <3>2 DEF WriteIf
  <2>3. CASE /\ Head(rec.items).action = "MarkDone" /\ WriteIf(i, rec.was, "DONE")
             /\ UNCHANGED <<row, ref, dropped, last>>
    <3>1. i \in Held
      BY <1>3, <2>3 DEF ReconcileWrites, MergeInv, RecGood
    <3> QED
      BY <2>1, <2>2, <2>3, <3>1, StatusSet
  <2>4. CASE Cleaned(i, i \in row) /\ UNCHANGED <<status, last>>
    BY <2>1, <2>4, CleanedRows
  <2>5. CASE Retries(i) /\ UNCHANGED dropped
    BY <2>1, <2>5, SpawnRows
  <2>6. CASE UNCHANGED <<status, row, ref, dropped, last>>
    BY <2>1, <2>6, SameRows DEF rows
  <2>7. CASE /\ WriteIf(i, "READY_TO_MERGE", "MERGING")
             /\ UNCHANGED <<row, ref, dropped, last>>
    BY <2>1, <2>2, <2>7, StatusSet
  <2> QED
    BY <1>3, <2>1, <2>3, <2>4, <2>5, <2>6, <2>7, Zenon DEF ReconcileWrites
<1> QED
  BY <1>1, <1>2, <1>3 DEF ReconcileStep

LEMMA OperatorRows ==
  ASSUME MergeInv, Held \subseteq Held', NEW h \in Handlers, Operator(h)
  PROVE  RowsGood' /\ declared \subseteq declared'
<1>1. UNCHANGED <<declared, gone, dropped>>
  BY Zenon DEF Operator
<1>2. CASE UNCHANGED <<status, row, ref, last>>
  BY <1>1, <1>2, SameRows DEF rows
<1>3. CASE /\ status' = [i \in Issues |->
                IF status[i] = "READY_TO_MERGE" /\ ~Running(i)
                THEN "MERGING" ELSE status[i]]
           /\ UNCHANGED <<row, ref, last>>
  <2>1. RowsGood
    BY NowGood
  <2>2. DoneGood' /\ GoneGood'
    BY <1>1, <1>3, <2>1 DEF RowsGood, DoneGood, GoneGood
  <2> QED
    BY <1>1, <1>3, <2>1, <2>2, StatusSet DEF RowsGood
<1>4. ASSUME NEW i \in Issues, HasPhase(status[i]), Spawns(i, status[i]),
             UNCHANGED status
      PROVE  RowsGood'
  BY <1>1, <1>4, SpawnRows DEF HasPhase
<1>5. ASSUME NEW i \in Issues, Retries(i)
      PROVE  RowsGood'
  BY <1>1, <1>5, SpawnRows
<1> QED
  BY <1>1, <1>2, <1>3, <1>4, <1>5, Zenon DEF Operator, AtOnce

LEMMA HandlerRows ==
  ASSUME MergeInv, Held \subseteq Held', NEW h \in Handlers, HandlerStep(h)
  PROVE  RowsGood' /\ declared \subseteq declared'
<1> DEFINE i == apply[h].issue
<1>0. RowsGood /\ h \in Appliers
  BY NowGood DEF Appliers
<1>1. CASE HandlerSets(h)
  <2> DEFINE to == apply[h].to
  <2>1. i \in Issues /\ to \in Status
    BY <1>0, <1>1 DEF HandlerSets, AtApply, MergeInv, ApplyGood, ApplyType
  <2>2. SetRow(i, to) /\ Declare(i, to) /\ UNCHANGED <<row, last, ref, gone, dropped>>
    BY <1>1 DEF HandlerSets, git
  <2> HIDE DEF i, to
  <2>3. /\ declared \subseteq declared' /\ declared' \subseteq Issues
        /\ to = "DONE" => i \in declared'
    BY <2>1, <2>2 DEF Declare, MergeInv, TypeOK
  <2> QED
    BY <2>1, <2>2, <2>3, OneStatus
<1>2. CASE HandlerEnds(h) \/ HandlerGivesUp(h)
  <2>1. UNCHANGED <<rows, ref, dropped>>
    BY <1>2, Zenon DEF HandlerEnds, HandlerGivesUp, git
  <2> QED
    BY <2>1, SameRows DEF rows
<1>3. CASE HandlerDiscards(h)
  <2>1. Cleaned(i, apply[h].saved) /\ UNCHANGED <<status, last, declared, gone>>
    BY <1>3, Zenon DEF HandlerDiscards
  <2> QED
    BY <2>1, CleanedRows
<1>4. CASE HandlerDeletes(h)
  <2>1. i \in Issues
    BY <1>0, <1>4 DEF HandlerDeletes, AtApply, MergeInv, ApplyGood
  <2>2. /\ status' = [status EXCEPT ![i] = "ABANDONED"]
        /\ gone' = gone \cup {i} /\ row' = row \ {i}
        /\ UNCHANGED <<last, declared, ref, dropped>>
    BY <1>4 DEF HandlerDeletes, git
  <2> HIDE DEF i
  <2>3. /\ status' \in [Issues -> Status]
        /\ \A j \in Issues : status'[j] = IF j = i THEN "ABANDONED" ELSE status[j]
    BY <1>0, <2>1, <2>2, StatusSet DEF RowsGood
  <2>4. GoneGood'
    BY <1>0, <2>1, <2>2, <2>3 DEF RowsGood, GoneGood
  <2>5. DoneGood'
    <3> SUFFICES ASSUME NEW j \in Issues
                 PROVE  /\ status'[j] = "DONE" => j \in Held' \/ j \in declared'
                        /\ last'[j] = "DONE" => j \in declared'
      BY DEF DoneGood
    <3> QED
      BY <1>0, <2>2, <2>3 DEF RowsGood, DoneGood
  <2> QED
    BY <1>0, <2>1, <2>2, <2>3, <2>4, <2>5 DEF RowsGood
<1> QED
  BY <1>1, <1>2, <1>3, <1>4 DEF HandlerStep

LEMMA RowsNext ==
  ASSUME MergeInv, Held \subseteq Held', [Next]_vars
  PROVE  RowsGood' /\ declared \subseteq declared'
<1>1. CASE UNCHANGED <<rows, ref, dropped>>
  BY <1>1, SameRows DEF rows
<1>2. ASSUME NEW i \in Issues, TickSpawns(i)
      PROVE  RowsGood' /\ declared \subseteq declared'
  <2>1. /\ UNCHANGED <<status, declared, gone, dropped>> /\ Spawns(i, status[i])
        /\ status[i] # "DONE"
    BY <1>2 DEF TickSpawns
  <2> QED
    BY <2>1, SpawnRows
<1>3. ASSUME NEW i \in Issues, TickTearsDown(i)
      PROVE  RowsGood' /\ declared \subseteq declared'
  <2>1. Cleaned(i, TRUE) /\ UNCHANGED <<status, last, declared, gone>>
    BY <1>3, Zenon DEF TickTearsDown
  <2> QED
    BY <2>1, CleanedRows
<1>4. ASSUME NEW a \in Appliers, Applies(a)
      PROVE  RowsGood' /\ declared \subseteq declared'
  <2>1. CASE ApplyWrite(a)
    <3>1. /\ apply[a].issue \in Issues /\ apply[a].to \in Status
          /\ apply[a].to = "DONE" => apply[a].issue \in Held'
      BY <2>1 DEF ApplyWrite, AtApply, MergeInv, ApplyGood, ApplyType
    <3>2. /\ SetRow(apply[a].issue, apply[a].to)
          /\ UNCHANGED <<row, last, declared, ref, gone, dropped>>
      BY <2>1 DEF ApplyWrite, git
    <3> QED
      BY <3>1, <3>2, OneStatus, NowGood DEF RowsGood
  <2>2. CASE ~ApplyWrite(a)
    <3>1. UNCHANGED <<rows, ref, dropped>>
      BY <1>4, <2>2, Zenon DEF Applies, ApplyClean, ApplyRecheck, ApplyMerges,
                        ApplyPops, git
    <3> QED
      BY <1>1, <3>1
  <2> QED
    BY <2>1, <2>2
<1>5. CASE Crash
  <2>1. UNCHANGED <<row, last, declared, ref, gone, dropped>> /\ RowsGood
    BY <1>5, NowGood DEF Crash, git
  <2>2. status' = [i \in Issues |->
          IF Running(i) /\ i \notin gone /\ status[i] = phase[i].before
          THEN "FAILED" ELSE status[i]]
    BY <1>5 DEF Crash
  <2>3. /\ status' \in [Issues -> Status]
        /\ \A i \in Issues : \/ status'[i] = status[i]
                             \/ i \notin gone /\ status'[i] = "FAILED"
    BY <2>1, <2>2, StatusSet DEF RowsGood
  <2>4. GoneGood'
    BY <2>1, <2>3 DEF RowsGood, GoneGood
  <2>5. DoneGood'
    <3> SUFFICES ASSUME NEW j \in Issues
                 PROVE  /\ status'[j] = "DONE" => j \in Held' \/ j \in declared'
                        /\ last'[j] = "DONE" => j \in declared'
      BY DEF DoneGood
    <3> QED
      BY <2>1, <2>3 DEF RowsGood, DoneGood
  <2> QED
    BY <2>1, <2>3, <2>4, <2>5 DEF RowsGood
<1>6. CASE ReconcileStarts
  <2>1. /\ UNCHANGED rows /\ ref' = ref \cap row
        /\ dropped' = dropped \cup (ref \ ref') /\ RowsGood
    BY <1>6, NowGood, Zenon DEF ReconcileStarts
  <2>2. UNCHANGED <<status, last, row, declared, gone>>
    BY <2>1 DEF rows
  <2>3. DoneGood' /\ GoneGood'
    BY <2>1, <2>2 DEF RowsGood, DoneGood, GoneGood
  <2> QED
    BY <2>1, <2>2, <2>3 DEF RowsGood
<1>7. CASE ProposalStarts \/ UserWorks \/ UNCHANGED vars
  <2>1. UNCHANGED <<rows, ref, dropped>>
    BY <1>7, Zenon DEF ProposalStarts, UserWorks, vars, git
  <2> QED
    BY <1>1, <2>1
<1> QED
  BY <1>2, <1>3, <1>4, <1>5, <1>6, <1>7, PhaseRows, ReconcileRows, OperatorRows,
     HandlerRows DEF Next

\* What reconciliation takes for done is in HEAD, or has nothing left to merge.
LEMMA DiagnosedDone ==
  ASSUME MergeInv, NEW i \in Issues,
         Diagnosed(i).diagnosis \in {"RepresentedInMain", "StaleNoDiffBranch"}
  PROVE  i \in Held
<1>1. UpToDate(i) \/ i \in same
  <2> SUFFICES ASSUME ~UpToDate(i), i \notin same PROVE FALSE
    OBVIOUS
  <2>1. GitSays(i).ancestor = FALSE /\ GitSays(i).sameTree = FALSE
    <3>1. UpToDate(i) = FALSE /\ (i \in same) = FALSE
      BY DEF UpToDate, Merged
    <3> QED
      BY <3>1, Zenon DEF GitSays
  <2>2. \A q, g : g.ancestor = FALSE /\ g.sameTree = FALSE =>
          Diagnosis(q, g).diagnosis \notin {"RepresentedInMain", "StaleNoDiffBranch"}
    BY DEF Diagnosis, BranchlessDiagnosis, ReleaseDiagnosis, Found
  <2> QED
    BY <2>1, <2>2 DEF Diagnosed
<1> QED
  BY <1>1 DEF UpToDate, Merged, Held, MergeInv

RecTyped == rec \in [pc : {"idle", "act", "write", "tidy", "refused"},
                     job : BOOLEAN, items : {rec.items}, was : Status]

LEMMA ValidatesGood ==
  ASSUME MergeInv, ReconcileValidates
  PROVE  RecTyped' /\ RecGood(rec', Held, declared)
<1> DEFINE x == Head(rec.items)
           fits == \/ x.action = "ManualRequired"
                   \/ /\ x.issue \in Issues
                      /\ Applyable(Diagnosed(x.issue), RowSays(x.issue), x.action)
           pc == CASE ~fits -> "refused"
                   [] fits /\ x.action = "ManualRequired" -> "act"
                   [] OTHER -> "write"
           was == IF pc = "write" THEN status[x.issue] ELSE rec.was
           items == IF pc = "act" THEN Tail(rec.items) ELSE rec.items
<1>1. RecTyped
  BY DEF MergeInv, TypeOK, RecTyped
<1>2. /\ pc \in {"refused", "act", "write"}
      /\ pc = "write" =>
           /\ x.issue \in Issues /\ x.action # "ManualRequired"
           /\ Applyable(Diagnosed(x.issue), RowSays(x.issue), x.action)
  <2> HIDE DEF x
  <2>1. CASE ~fits
    BY <2>1
  <2>2. CASE fits /\ x.action = "ManualRequired"
    BY <2>2
  <2>3. CASE fits /\ x.action # "ManualRequired"
    BY <2>3
  <2> QED
    BY <2>1, <2>2, <2>3
<1>3. rec' = [rec EXCEPT !.pc = pc, !.was = IF pc = "write" THEN status[x.issue] ELSE @,
                         !.items = IF pc = "act" THEN Tail(@) ELSE @]
  BY Zenon DEF ReconcileValidates
<1> HIDE DEF pc, fits
<1>4. was \in Status /\ items = IF pc = "act" THEN Tail(rec.items) ELSE rec.items
  BY <1>1, <1>2 DEF RecTyped, MergeInv, TypeOK
<1>5. rec' = [rec EXCEPT !.pc = pc, !.was = was, !.items = items]
  BY <1>1, <1>3 DEF RecTyped
<1> HIDE DEF was, items
<1>6. /\ RecTyped' /\ rec'.pc = pc /\ rec'.was = was /\ rec'.items = items
  BY <1>1, <1>2, <1>4, <1>5 DEF RecTyped
<1>7. CASE pc = "write"
  <2>1. Head(rec'.items) = x /\ rec'.was = status[x.issue] /\ x.issue \in Issues
    BY <1>2, <1>4, <1>6, <1>7 DEF was
  <2>2. x.action = "MarkDone" => x.issue \in Held
    BY <1>2, <1>7, DiagnosedDone DEF Applyable
  <2>3. x.action = "CleanupWorktree" => status[x.issue] \in Terminal
    <3>1. RowSays(x.issue).status = status[x.issue]
      BY DEF RowSays
    <3> QED
      BY <1>2, <1>7, <3>1 DEF Applyable
  <2>4. status[x.issue] = "DONE" => x.issue \in Held \/ x.issue \in declared
    BY <2>1 DEF MergeInv, DoneGood
  <2> QED
    BY <1>6, <1>7, <2>1, <2>2, <2>3, <2>4 DEF RecGood
<1>8. CASE pc # "write"
  BY <1>2, <1>6, <1>8 DEF RecGood
<1> QED
  BY <1>6, <1>7, <1>8

LEMMA RecNextGood ==
  ASSUME MergeInv, Held \subseteq Held', declared \subseteq declared', [Next]_vars
  PROVE  RecTyped' /\ RecGood(rec', Held', declared')
<1>0. /\ RecTyped /\ RecGood(rec, Held, declared)
      /\ \A q : RecGood(q, Held, declared) => RecGood(q, Held', declared')
  BY HeldKeeps DEF MergeInv, TypeOK, RecTyped
<1>1. CASE UNCHANGED rec
  BY <1>0, <1>1 DEF RecTyped
<1>2. CASE ReconcileValidates
  BY <1>0, <1>2, ValidatesGood
<1>3. ASSUME NEW pc \in {"act", "tidy", "refused"}, NEW items, NEW job \in BOOLEAN,
             NEW was \in Status,
             rec' = [pc |-> pc, job |-> job, items |-> items, was |-> was],
             pc = "tidy" => /\ Head(items).issue \in Issues
                            /\ Head(items).issue \in Held'
      PROVE  RecTyped' /\ RecGood(rec', Held', declared')
  BY <1>3 DEF RecTyped, RecGood
<1>4. CASE rec' = IdleRec
  BY <1>4, StatusSet DEF IdleRec, RecTyped, RecGood
<1>5. CASE ReconcileStarts \/ ProposalStarts
  <2>1. \/ rec' = [IdleRec EXCEPT !.pc = "act", !.items = Plan]
        \/ \E p \in Proposals :
             rec' = [IdleRec EXCEPT !.pc = "act", !.items = p, !.job = TRUE]
    BY <1>5, Zenon DEF ReconcileStarts, ProposalStarts
  <2>2. IdleRec \in [pc : {"idle", "act", "write", "tidy", "refused"},
                     job : BOOLEAN, items : {IdleRec.items}, was : Status]
    BY StatusSet DEF IdleRec
  <2>3. RecTyped' /\ rec'.pc = "act"
    <3>1. ASSUME NEW items, rec' = [IdleRec EXCEPT !.pc = "act", !.items = items]
          PROVE  RecTyped' /\ rec'.pc = "act"
      <4>1. rec'.items = items /\ rec'.pc = "act"
        BY <2>2, <3>1
      <4> QED
        BY <2>2, <3>1, <4>1 DEF RecTyped
    <3>2. ASSUME NEW items,
                 rec' = [IdleRec EXCEPT !.pc = "act", !.items = items, !.job = TRUE]
          PROVE  RecTyped' /\ rec'.pc = "act"
      <4>1. rec'.items = items /\ rec'.pc = "act"
        BY <2>2, <3>2
      <4> QED
        BY <2>2, <3>2, <4>1 DEF RecTyped
    <3> QED
      BY <2>1, <3>1, <3>2, Zenon
  <2> QED
    BY <2>3 DEF RecGood
<1>6. CASE ReconcileWrites \/ ReconcileTidies
  <2>1. ASSUME RecNext
        PROVE  RecTyped' /\ RecGood(rec', Held', declared')
    <3>1. rec' = [rec EXCEPT !.pc = "act", !.items = Tail(rec.items)]
      BY <2>1 DEF RecNext
    <3>2. rec' = [pc |-> "act", job |-> rec.job, items |-> Tail(rec.items),
                  was |-> rec.was]
      BY <1>0, <3>1 DEF RecTyped
    <3> QED
      BY <1>0, <1>3, <3>2 DEF RecTyped
  <2>2. ASSUME NEW pc \in {"tidy", "refused"}, RecGoto(pc),
               pc = "tidy" => rec.pc = "write" /\ Head(rec.items).action = "MarkDone"
        PROVE  RecTyped' /\ RecGood(rec', Held', declared')
    <3>1. rec' = [rec EXCEPT !.pc = pc]
      BY <2>2 DEF RecGoto
    <3>2. rec' = [pc |-> pc, job |-> rec.job, items |-> rec.items, was |-> rec.was]
      BY <1>0, <3>1 DEF RecTyped
    <3>3. pc = "tidy" => /\ Head(rec.items).issue \in Issues
                         /\ Head(rec.items).issue \in Held'
      BY <1>0, <2>2, HeldKeeps DEF RecGood
    <3> QED
      BY <1>0, <1>3, <3>2, <3>3 DEF RecTyped
  <2>3. CASE ReconcileTidies
    BY <2>1, <2>3 DEF ReconcileTidies
  <2>4. CASE ReconcileWrites
    <3>1. rec.pc = "write"
      BY <2>4 DEF ReconcileWrites
    <3>2. \/ RecNext \/ RecGoto("refused")
          \/ Head(rec.items).action = "MarkDone" /\ RecGoto("tidy")
      BY <2>4, Zenon DEF ReconcileWrites
    <3> QED
      BY <2>1, <2>2, <3>1, <3>2
  <2> QED
    BY <1>6, <2>3, <2>4
<1>7. CASE ReconcileEnds \/ Crash
  BY <1>4, <1>7 DEF ReconcileEnds, Crash
<1>8. ASSUME NEW i \in Issues, TickSpawns(i) \/ TickTearsDown(i) \/ PhaseStep(i)
      PROVE  UNCHANGED rec
  BY <1>8, Zenon DEF TickSpawns, TickTearsDown, PhaseStep, AgentExits, ReplayNext,
              ReplaySets, ReplayApplied, ReplayEnds, PhaseFails, PhaseFailWrites,
              PhaseEnds
<1>9. ASSUME NEW a \in Appliers, Applies(a)
      PROVE  UNCHANGED rec
  BY <1>9 DEF Applies
<1>10. ASSUME NEW h \in Handlers, Operator(h) \/ HandlerStep(h)
       PROVE  UNCHANGED rec
  BY <1>10, Zenon DEF Operator, HandlerStep, HandlerDiscards, HandlerGivesUp,
              HandlerDeletes, HandlerSets, HandlerEnds
<1>11. ASSUME UserWorks \/ UNCHANGED vars
       PROVE  UNCHANGED rec
  BY <1>11, Zenon DEF UserWorks, vars
<1> QED
  BY <1>1, <1>2, <1>4, <1>5, <1>6, <1>7, <1>8, <1>9, <1>10, <1>11
     DEF Next, ReconcileStep

\* A branch has the tree of HEAD without being merged right after it was
\* squashed, and until HEAD moves on.
SameGood == /\ same \subseteq Held
            /\ same \subseteq Issues /\ ahead \in [Issues -> SUBSET Paths]

LEMMA FallBehindGood ==
  ASSUME MergeInv, Held \subseteq Held', NEW except, NEW P \in SUBSET Paths,
         FallBehind(except, P)
  PROVE  SameGood'
<1>1. /\ \A i \in same : i \in Held' /\ i \in Issues
      /\ ahead \in [Issues -> SUBSET Paths]
  BY HeldKeeps DEF MergeInv, TypeOK
<1>2. ahead' = [j \in Issues |-> IF j \in except THEN ahead[j] ELSE ahead[j] \cup P]
  BY Zenon DEF FallBehind
<1>3. same' = same \/ same' = {}
  BY Zenon DEF FallBehind
<1> QED
  BY <1>1, <1>2, <1>3 DEF SameGood

LEMMA SameNext ==
  ASSUME MergeInv, Held \subseteq Held', [Next]_vars
  PROVE  SameGood'
<1>0. /\ \A i \in same : i \in Held' /\ i \in Issues
      /\ ahead \in [Issues -> SUBSET Paths] /\ repo \in RepoType
      /\ ref \subseteq Issues /\ \A i \in Issues : Changes[i] \in SUBSET Paths
  BY HeldKeeps, MergeAssumption DEF MergeInv, TypeOK
<1>1. CASE UNCHANGED <<ahead, same>>
  BY <1>0, <1>1 DEF SameGood
<1>2. ASSUME NEW i \in Issues, AgentExits(i)
      PROVE  SameGood'
  <2>1. UNCHANGED same /\ (UNCHANGED ahead \/ ahead' = [ahead EXCEPT ![i] = {}])
    BY <1>2, Zenon DEF AgentExits
  <2> QED
    BY <1>0, <2>1 DEF SameGood
<1>3. ASSUME NEW a \in Appliers, ApplyMerges(a)
      PROVE  SameGood'
  <2> DEFINE i == apply[a].issue
  <2>1. i \in Issues
    BY <1>3 DEF ApplyMerges, AtApply, MergeInv, ApplyGood
  <2>2. UNCHANGED <<ahead, same>> \/ FallBehind({i}, Changes[i])
    BY <1>3, Zenon DEF ApplyMerges, git
  <2> QED
    BY <1>0, <1>1, <2>1, <2>2, FallBehindGood
<1>4. CASE UserWorks
  <2>1. ASSUME NEW i \in ref,
               repo' = [Commits(repo, Changes[i]) EXCEPT !.squashed = @ \cup {i}],
               ahead' = [j \in Issues |-> ahead[j] \cup Changes[i]],
               same' = IF ahead[i] = {} THEN {i} ELSE {}
        PROVE  SameGood'
    <3> DEFINE c == Commits(repo, Changes[i])
    <3>1. c \in RepoType
      BY <1>0, CommitsKeeps DEF MergeInv, RepoGood
    <3>2. repo' = [c EXCEPT !.squashed = @ \cup {i}]
      BY <2>1
    <3> HIDE DEF c
    <3>3. i \in repo'.squashed
      BY <3>1, <3>2 DEF RepoType
    <3>4. ahead' \in [Issues -> SUBSET Paths]
      BY <1>0, <2>1
    <3> QED
      BY <1>0, <2>1, <3>3, <3>4 DEF SameGood, Held
  <2>2. ASSUME NEW i \in ref, FallBehind({i}, Changes[i])
        PROVE  SameGood'
    BY <1>0, <2>2, FallBehindGood
  <2>3. CASE FallBehind({}, repo.edits)
    BY <1>0, <2>3, FallBehindGood DEF RepoType
  <2> QED
    BY <1>1, <1>4, <2>1, <2>2, <2>3, Zenon DEF UserWorks, UserResolves
<1>5. ASSUME NEW a \in Appliers, Applies(a), ~ApplyMerges(a)
      PROVE  UNCHANGED <<ahead, same>>
  BY <1>5, Zenon DEF Applies, ApplyClean, ApplyRecheck, ApplyPops, ApplyWrite, git
<1>6. ASSUME NEW i \in Issues,
             \/ TickSpawns(i) \/ TickTearsDown(i) \/ ReplayNext(i)
             \/ ReplaySets(i) \/ ReplayApplied(i) \/ ReplayEnds(i) \/ PhaseFails(i)
             \/ PhaseFailWrites(i) \/ PhaseEnds(i)
      PROVE  UNCHANGED <<ahead, same>>
  BY <1>6, Zenon DEF TickSpawns, TickTearsDown, ReplayNext, ReplaySets,
              ReplayApplied, ReplayEnds, PhaseFails, PhaseFailWrites, PhaseEnds, git
<1>7. ASSUME NEW h \in Handlers, Operator(h) \/ HandlerStep(h)
      PROVE  UNCHANGED <<ahead, same>>
  BY <1>7, Zenon DEF Operator, HandlerStep, HandlerDiscards, HandlerGivesUp,
              HandlerDeletes, HandlerSets, HandlerEnds, git
<1>8. ASSUME ReconcileStarts \/ ProposalStarts \/ ReconcileStep \/ Crash
             \/ UNCHANGED vars
      PROVE  UNCHANGED <<ahead, same>>
  BY <1>8, Zenon DEF ReconcileStarts, ProposalStarts, ReconcileStep,
              ReconcileValidates, ReconcileWrites, ReconcileTidies,
              ReconcileEnds, Crash, vars, git
<1> QED
  BY <1>1, <1>2, <1>3, <1>4, <1>5, <1>6, <1>7, <1>8 DEF Next, PhaseStep

-----------------------------------------------------------------------------
(* The theorems                                                            *)

LEMMA CountsNext ==
  ASSUME MergeInv, [Next]_vars
  PROVE  acts' \in Nat /\ crashes' \in Nat
<1>1. /\ acts' = acts \/ acts' = acts + 1
      /\ crashes' = crashes \/ crashes' = crashes + 1
  <2>1. ASSUME NEW i \in Issues, TickSpawns(i) \/ TickTearsDown(i) \/ PhaseStep(i)
        PROVE  UNCHANGED <<acts, crashes>>
    BY <2>1, Zenon DEF TickSpawns, TickTearsDown, PhaseStep, AgentExits,
                ReplayNext, ReplaySets, ReplayApplied, ReplayEnds, PhaseFails,
                PhaseFailWrites, PhaseEnds
  <2>2. ASSUME NEW a \in Appliers, Applies(a)
        PROVE  UNCHANGED <<acts, crashes>>
    BY <2>2 DEF Applies
  <2>3. ASSUME NEW h \in Handlers, Operator(h) \/ HandlerStep(h)
        PROVE  (acts' = acts \/ acts' = acts + 1) /\ crashes' = crashes
    BY <2>3, Zenon DEF Operator, HandlerStep, HandlerDiscards, HandlerGivesUp,
                HandlerDeletes, HandlerSets, HandlerEnds
  <2>4. CASE ReconcileStarts \/ ProposalStarts \/ UserWorks
    BY <2>4, Zenon DEF ReconcileStarts, ProposalStarts, UserWorks
  <2>5. CASE ReconcileStep
    BY <2>5, Zenon DEF ReconcileStep, ReconcileValidates, ReconcileWrites,
                       ReconcileTidies, ReconcileEnds
  <2>6. CASE Crash \/ UNCHANGED vars
    BY <2>6 DEF Crash, vars
  <2> QED
    BY <2>1, <2>2, <2>3, <2>4, <2>5, <2>6 DEF Next
<1> QED
  BY <1>1 DEF MergeInv, TypeOK

LEMMA InvNext == MergeInv /\ [Next]_vars => MergeInv'
<1> SUFFICES ASSUME MergeInv, [Next]_vars PROVE MergeInv'
  OBVIOUS
<1>1. RepoGood(repo') /\ Held \subseteq Held'
  <2>1. TypeOK /\ RepoGood(repo)
    BY DEF MergeInv
  <2> QED
    BY <2>1, RepoNext, HeldNext
<1>2. AppliesGood' /\ PhasesGood' /\ RowsGood' /\ SameGood'
  BY <1>1, ApplyNext, PhaseNext, RowsNext, SameNext
<1>3. RecTyped' /\ RecGood(rec', Held', declared')
  BY <1>1, RowsNext, RecNextGood
<1>4. TypeOK'
  BY <1>1, <1>2, <1>3, CountsNext
     DEF TypeOK, AppliesGood, PhasesGood, RowsGood, SameGood, RecTyped, RepoGood
<1> QED
  BY <1>1, <1>2, <1>3, <1>4
     DEF MergeInv, AppliesGood, PhasesGood, RowsGood, SameGood

LEMMA InvAlways == Spec => []MergeInv
<1>1. Init => MergeInv
  BY InvInit
<1>2. MergeInv /\ [Next]_vars => MergeInv'
  BY InvNext
<1> QED
  BY <1>1, <1>2, PTL DEF Spec

\* Every variable has its type: what agents leave, propose and do to the stash
\* of the user included.
THEOREM LocalMergeTypeCorrect == Spec => []TypeOK
<1>1. MergeInv => TypeOK
  BY DEF MergeInv
<1> QED
  BY <1>1, InvAlways, PTL

\* A merge stashes the user's changes and pops them (local_merge.rs): between
\* the two, after a refusal, a conflict or a crash, they are in the stash; once
\* a pop fails half way, they are in the files, so that dropping the entry is
\* safe (PopOpen).
THEOREM UncommittedKept == Spec => []UserChangesKept
<1>1. MergeInv => UserChangesKept
  BY DEF MergeInv, RepoGood, Kept, UserChangesKept
<1> QED
  BY <1>1, InvAlways, PTL

\* The daemon takes no issue to DONE whose work is not in HEAD, by a merge, a
\* reconciliation or a retry, unless that work went with a branch that was
\* deleted before; BranchesKept says who may have deleted it.
THEOREM DoneWorkInHead == Spec => []DoneIsMerged
<1>1. MergeInv => DoneIsMerged
  BY DEF MergeInv, DoneGood, Held, DoneIsMerged, Represented, Merged
<1> QED
  BY <1>1, InvAlways, PTL

\* No branch with work is deleted before the work is in HEAD, or someone has
\* decided that it need not be: an agent or operator who declared the issue done
\* or gave it up, whoever agreed to the cleanup of a failed one, or the operator
\* whose command is deleting it.
THEOREM BranchesKept == Spec => NoWorkLost
<1> DEFINE Safe(i) == \/ Represented(i) \/ i \in declared
                      \/ status[i] = "ABANDONED"
                      \/ rec.pc = "write" /\ rec.was \in {"FAILED", "ABANDONED"}
                      \/ \E h \in Handlers : apply[h].issue = i /\ HandlerDiscards(h)
<1>1. ASSUME MergeInv, [Next]_vars, NEW i \in (ref \ ref') \ dropped
      PROVE  Safe(i)
  <2>0. /\ i \in Issues /\ MergeInv
        /\ i \in Held => Represented(i)
    BY <1>1 DEF MergeInv, TypeOK, Held, Represented, Merged
  <2>1. ASSUME NEW j \in Issues, TickTearsDown(j)
        PROVE  Safe(i)
    <3>1. i = j /\ status[j] \in {"DONE", "ABANDONED"}
      BY <1>1, <2>1, Zenon DEF TickTearsDown, Cleaned
    <3> QED
      BY <2>0, <3>1 DEF MergeInv, DoneGood
  <2>2. CASE ReconcileTidies
    <3>1. rec.pc = "tidy" /\ i = Head(rec.items).issue
      BY <1>1, <2>2, Zenon DEF ReconcileTidies, Cleaned
    <3> QED
      BY <2>0, <3>1 DEF MergeInv, RecGood
  <2>3. CASE ReconcileWrites
    <3>1. \/ ref' = ref
          \/ /\ Head(rec.items).action = "CleanupWorktree"
             /\ \E recorded : Cleaned(Head(rec.items).issue, recorded)
          \/ \E s, j : Spawns(j, s)
      BY <2>3, Zenon DEF ReconcileWrites, Retries
    <3>2. /\ rec.pc = "write" /\ Head(rec.items).action = "CleanupWorktree"
          /\ i = Head(rec.items).issue
      BY <1>1, <2>3, <3>1, Zenon DEF ReconcileWrites, Cleaned, Spawns
    <3>3. /\ rec.was \in Terminal
          /\ rec.was = "DONE" => i \in Held \/ i \in declared
      BY <2>0, <3>2 DEF MergeInv, RecGood
    <3> QED
      BY <2>0, <3>2, <3>3, StatusSet
  <2>4. ASSUME NEW j \in Issues, TickSpawns(j)
        PROVE  FALSE
    BY <1>1, <2>4, Zenon DEF TickSpawns, Spawns
  <2>5. ASSUME NEW j \in Issues, PhaseStep(j)
        PROVE  FALSE
    BY <1>1, <2>5, Zenon DEF PhaseStep, AgentExits, ReplayNext, ReplaySets,
                ReplayApplied, ReplayEnds, PhaseFails, PhaseFailWrites,
                PhaseEnds, git
  <2>6. ASSUME NEW a \in Appliers, Applies(a)
        PROVE  FALSE
    BY <1>1, <2>6, Zenon DEF Applies, ApplyClean, ApplyRecheck, ApplyMerges,
                ApplyPops, ApplyWrite, git
  <2>7. ASSUME NEW h \in Handlers, HandlerDiscards(h)
        PROVE  Safe(i)
    <3>1. apply[h].issue = i
      BY <1>1, <2>7, Zenon DEF HandlerDiscards, Cleaned
    <3> QED
      BY <2>7, <3>1
  <2>8. ASSUME NEW h \in Handlers,
               \/ Operator(h) \/ HandlerGivesUp(h) \/ HandlerDeletes(h)
               \/ HandlerSets(h) \/ HandlerEnds(h)
        PROVE  FALSE
    BY <1>1, <2>8, Zenon DEF Operator, AtOnce, Retries, Spawns, HandlerGivesUp,
                HandlerDeletes, HandlerSets, HandlerEnds, git
  <2>9. CASE ReconcileStarts
    <3>1. i \notin row
      BY <1>1, <2>9, Zenon DEF ReconcileStarts
    <3>2. i \in gone
      BY <1>1, <3>1 DEF MergeInv, GoneGood
    <3> QED
      BY <1>1, <3>2 DEF MergeInv, GoneGood
  <2>10. CASE \/ ProposalStarts \/ ReconcileValidates \/ ReconcileEnds
              \/ UserWorks \/ Crash \/ UNCHANGED vars
    BY <1>1, <2>10, Zenon DEF ProposalStarts, ReconcileValidates, ReconcileEnds,
                UserWorks, Crash, vars, git
  <2> QED
    BY <1>1, <2>1, <2>2, <2>3, <2>4, <2>5, <2>6, <2>7, <2>8, <2>9, <2>10
       DEF Next, ReconcileStep, HandlerStep
<1>2. MergeInv /\ [Next]_vars =>
        [\A i \in (ref \ ref') \ dropped :
           \/ Represented(i) \/ i \in declared \/ status[i] = "ABANDONED"
           \/ rec.pc = "write" /\ rec.was \in {"FAILED", "ABANDONED"}
           \/ \E h \in Handlers : apply[h].issue = i /\ HandlerDiscards(h)]_vars
  BY <1>1
<1> QED
  BY <1>2, InvAlways, PTL DEF Spec, NoWorkLost

\* An outbox is replayed command by command while operators and other merges
\* change the status, and each status it sets is one its agent could have set.
THEOREM OutboxInPhase == Spec => AgentStaysInPhase
<1>1. ASSUME MergeInv, [Next]_vars, NEW i \in Issues,
             i \notin gone, phase[i].pc = "set", phase'[i].pc = "replay"
      PROVE  LegalTransition(phase[i].before, status'[i])
  <2>0. phase \in [Issues -> PhaseType] /\ status \in [Issues -> Status]
    BY <1>1 DEF MergeInv, TypeOK
  <2>1. CASE ReplaySets(i)
    BY <1>1, <2>0, <2>1, ReplaySetsTo DEF SetRow
  <2>2. CASE UNCHANGED phase
    BY <1>1, <2>2
  <2>3. ASSUME NEW j \in Issues, NEW v, phase' = [phase EXCEPT ![j] = v],
               v.pc # "replay" \/ phase[j].pc # "set"
        PROVE  FALSE
    BY <1>1, <2>0, <2>3
  <2>4. ASSUME NEW j \in Issues, NEW s, Spawns(j, s)
        PROVE  FALSE
    <3> DEFINE v == [IdlePhase EXCEPT !.pc = "agent", !.before = s]
    <3>1. phase' = [phase EXCEPT ![j] = v]
      BY <2>4, Zenon DEF Spawns
    <3>2. v.pc # "replay"
      BY DEF IdlePhase
    <3> HIDE DEF v
    <3> QED
      BY <2>3, <3>1, <3>2
  <2>5. ASSUME NEW j \in Issues, PhaseStep(j), ~ReplaySets(j)
        PROVE  FALSE
    <3>1. phase[j].pc # "set"
      BY <2>5, Zenon DEF PhaseStep, AgentExits, ReplayNext, ReplayApplied,
                         ReplayEnds, PhaseFails, PhaseFailWrites, PhaseEnds
    <3>2. ASSUME NEW k \in Issues, k # j
          PROVE  phase'[k] = phase[k]
      BY <1>1, <2>5, <2>0, <3>2
         DEF PhaseStep, AgentExits, ReplayNext, ReplayApplied, ReplayEnds, Goto,
             PhaseFails, PhaseFailWrites, PhaseEnds
    <3> QED
      BY <1>1, <3>1, <3>2
  <2>6. ASSUME NEW j \in Issues, ReplaySets(j), j # i
        PROVE  FALSE
    <3>1. phase'[i] = phase[i]
      BY <2>0, <2>6 DEF ReplaySets
    <3> QED
      BY <1>1, <3>1
  <2>7. ASSUME NEW j \in Issues, TickSpawns(j) \/ TickTearsDown(j)
        PROVE  UNCHANGED phase \/ \E s : Spawns(j, s)
    BY <2>7, Zenon DEF TickSpawns, TickTearsDown
  <2>8. ASSUME NEW h \in Handlers, Operator(h) \/ HandlerStep(h)
        PROVE  UNCHANGED phase \/ \E j \in Issues : \E s : Spawns(j, s)
    BY <2>8, Zenon DEF Operator, AtOnce, Retries, HandlerStep, HandlerDiscards,
                HandlerGivesUp, HandlerDeletes, HandlerSets, HandlerEnds
  <2>9. CASE ReconcileWrites
    <3>1. Head(rec.items).issue \in Issues
      BY <1>1, <2>9 DEF ReconcileWrites, MergeInv, RecGood
    <3>2. \/ UNCHANGED phase
          \/ Spawns(Head(rec.items).issue, last[Head(rec.items).issue])
      BY <2>9, Zenon DEF ReconcileWrites, Retries
    <3> QED
      BY <2>2, <2>4, <3>1, <3>2
  <2>10. CASE Crash
    <3>1. phase'[i] = IdlePhase
      BY <2>10 DEF Crash
    <3> QED
      BY <1>1, <3>1 DEF IdlePhase
  <2>11. ASSUME NEW a \in Appliers, Applies(a)
         PROVE  UNCHANGED phase
    BY <2>11 DEF Applies
  <2>12. ASSUME \/ ReconcileStarts \/ ProposalStarts \/ ReconcileValidates
                \/ ReconcileTidies \/ ReconcileEnds \/ UserWorks \/ UNCHANGED vars
         PROVE  UNCHANGED phase
    BY <2>12, Zenon DEF ReconcileStarts, ProposalStarts, ReconcileValidates,
                ReconcileTidies, ReconcileEnds, UserWorks, vars
  <2> QED
    BY <1>1, <2>1, <2>2, <2>4, <2>5, <2>6, <2>7, <2>8, <2>9, <2>10, <2>11, <2>12
       DEF Next, ReconcileStep
<1>2. MergeInv /\ [Next]_vars =>
        [\A i \in Issues \ gone : phase[i].pc = "set" /\ phase'[i].pc = "replay"
           => LegalTransition(phase[i].before, status'[i])]_vars
  BY <1>1
<1> QED
  BY <1>2, InvAlways, PTL DEF Spec, AgentStaysInPhase
=============================================================================
