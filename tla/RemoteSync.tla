----------------------------- MODULE RemoteSync -----------------------------
(***************************************************************************)
(* A PR-mode project and its remote repository: sync rows queued by        *)
(* approvals and by routing, the tick that executes them against the       *)
(* provider and then observes open pull requests, webhook deliveries of    *)
(* /auwsx-run comments, and crashes of the daemon, which leave rows        *)
(* `running` that no later daemon closes.                                  *)
(*                                                                         *)
(* The remote configuration has PR merge and inbound runs on, issue        *)
(* creation by CONSTANT, comment sync off.  Rows that ended are an audit   *)
(* log nothing reads and are left out.                                     *)
(***************************************************************************)
EXTENDS Naturals, FiniteSets, Sequences

CONSTANTS
  Issues,          \* local issue ids
  Handlers,        \* IPC handlers that approve
  Tick,            \* the project tick
  Remotes,         \* remote issue numbers
  Human,           \* who opened a remote issue by hand
  Deliveries,      \* webhook delivery ids of /auwsx-run comments
  None,            \* NULL
  OutboundIssues,  \* outbound_issue_create_enabled
  Limit,           \* sync rows one tick executes
  MaxPrs,          \* bound on the pull requests of one branch
  MaxCrashes       \* bound on daemon crashes

ASSUME RemoteAssumption ==
  /\ Issues \subseteq Nat /\ Remotes \subseteq Nat
  /\ Tick \notin Handlers /\ None \notin Issues \cup Deliveries \cup Remotes
  /\ Human \notin Issues \cup {None}
  /\ OutboundIssues \in BOOLEAN
  /\ Limit \in Nat \ {0} /\ MaxPrs \in Nat /\ MaxCrashes \in Nat

VARIABLES
  status,   \* issues.status: what remote sync tells apart, or "ABSENT"
  prLink,   \* remote_pr_links number and state of the issue, NoPr without a row
  link,     \* remote_issue_links by remote number: local issue, backlog item
  queue,    \* remote_sync_runs queued, oldest first
  orphans,  \* rows left running
  adding,   \* rows an actor is about to queue for an issue
  tick,     \* the tick and what it read
  event,    \* remote_events.status by delivery, "none" without a row
  hook,     \* the handler of a delivery
  items,    \* backlog items made for a delivery
  pr,       \* provider: the pull requests of the issue's branch, by number
  opener,   \* provider: who a remote issue was opened for, None if unused
  unheard,  \* history: remote issues opened by a call that was not answered,
            \* or whose answer died with the daemon
  crashes   \* crashes so far

rows == <<queue, orphans>>
inbound == <<event, hook, items>>
remote == <<pr, opener, unheard>>
vars == <<status, prLink, link, rows, adding, tick, inbound, remote, crashes>>

Actors == Handlers \cup {Tick}
Kinds == {"issue", "pr"}
Row == [issue : Issues, kind : Kinds]
PrStates == {"open", "closed", "merged"}
PrRow == [number : 1..MaxPrs, state : PrStates]
NoPr == [number |-> 0, state |-> "none"]
NoLink == [issue |-> None, item |-> None]
NotAdding == [issue |-> None, kinds |-> {}, free |-> FALSE]
IdleTick == [pc |-> "idle", left |-> 0, row |-> None, got |-> None, list |-> {}]
IdleHook == [pc |-> "idle", number |-> None]

TypeOK ==
  /\ status \in [Issues -> {"ABSENT", "WORKING", "READY_TO_MERGE", "DONE"}]
  /\ prLink \in [Issues -> {NoPr} \cup PrRow]
  /\ link \in [Remotes -> [issue : Issues \cup {None},
                           item : Deliveries \cup {None}]]
  /\ queue \in Seq(Row)
  /\ orphans \subseteq Row
  /\ adding \in [Actors -> [issue : Issues \cup {None}, kinds : SUBSET Kinds,
                            free : BOOLEAN]]
  /\ tick \in [pc : {"idle", "queue", "sync", "call", "store", "observe",
                     "look", "update", "mark", "finish", "close"},
               left : 0..Limit, row : Row \cup {None},
               got : Remotes \cup PrRow \cup {None}, list : SUBSET Issues]
  /\ event \in [Deliveries -> {"none", "received", "processed", "ignored"}]
  /\ hook \in [Deliveries -> [pc : {"idle", "add", "link", "mark"},
                              number : Remotes \cup {None}]]
  /\ items \in [Deliveries -> Nat]
  /\ pr \in [Issues -> Seq(PrStates)]
  /\ opener \in [Remotes -> Issues \cup {Human, None}]
  /\ unheard \subseteq Remotes
  /\ crashes \in 0..MaxCrashes

\* The provider numbers its issues upwards: r is taken only after the smaller.
Upwards(r) == \A s \in Remotes : s < r => opener[s] # None

\* A project without issues or links; people may have opened remote issues.
Init ==
  /\ status = [i \in Issues |-> "ABSENT"]
  /\ prLink = [i \in Issues |-> NoPr]
  /\ link = [r \in Remotes |-> NoLink]
  /\ queue = <<>> /\ orphans = {}
  /\ adding = [a \in Actors |-> NotAdding]
  /\ tick = IdleTick
  /\ event = [d \in Deliveries |-> "none"]
  /\ hook = [d \in Deliveries |-> IdleHook]
  /\ items = [d \in Deliveries |-> 0]
  /\ pr = [i \in Issues |-> <<>>]
  /\ opener \in [Remotes -> {Human, None}]
  /\ \A r \in Remotes : opener[r] = None \/ Upwards(r)
  /\ unheard = {}
  /\ crashes = 0

-----------------------------------------------------------------------------
(* Planning and queueing                                                   *)

Linked(i) == \E r \in Remotes : link[r].issue = i

\* plan_issue_remote_workflow of the issue as it is now.
Plan(i) ==
  {k \in Kinds :
     \/ k = "issue" /\ OutboundIssues /\ ~Linked(i)
     \/ k = "pr" /\ status[i] = "READY_TO_MERGE" /\ prLink[i].state # "merged"}

\* has_active_sync_run: queued or running, outbound or inbound.
Active(i, k) ==
  LET row == [issue |-> i, kind |-> k] IN
  \/ \E n \in DOMAIN queue : queue[n] = row
  \/ row \in orphans
  \/ tick.row = row

ToAdd(i) == IF Plan(i) = {} THEN NotAdding
            ELSE [issue |-> i, kinds |-> Plan(i), free |-> FALSE]

\* approve_issue_merge in PR mode: plan, then queue what was planned.
Approve(h, i) ==
  /\ adding[h] = NotAdding /\ status[i] = "READY_TO_MERGE"
  /\ adding' = [adding EXCEPT ![h] = ToAdd(i)]
  /\ UNCHANGED <<status, prLink, link, rows, tick, inbound, remote, crashes>>

\* The planned actions in the plan's order, and the rest after one of them.
Kind(a) == IF "issue" \in adding[a].kinds THEN "issue" ELSE "pr"
Rest(a) ==
  IF adding[a].kinds = {Kind(a)} THEN NotAdding
  ELSE [adding[a] EXCEPT !.kinds = @ \ {Kind(a)}, !.free = FALSE]

\* Is a row of the kind active?  The answer is acted on after an await.
AddCheck(a) ==
  /\ adding[a].kinds # {} /\ ~adding[a].free
  /\ adding' = [adding EXCEPT ![a] = IF Active(adding[a].issue, Kind(a))
                                     THEN Rest(a) ELSE [@ EXCEPT !.free = TRUE]]
  /\ UNCHANGED <<status, prLink, link, rows, tick, inbound, remote, crashes>>

AddRow(a) ==
  /\ adding[a].free
  /\ queue' = Append(queue, [issue |-> adding[a].issue, kind |-> Kind(a)])
  /\ adding' = [adding EXCEPT ![a] = Rest(a)]
  /\ UNCHANGED <<status, prLink, link, orphans, tick, inbound, remote, crashes>>

-----------------------------------------------------------------------------
(* The tick: routing, queued rows, observation                             *)

At(p) == tick.pc = p
Goto(p) == tick' = [tick EXCEPT !.pc = p]
\* The row of the tick has ended (finish_sync_run), next is p.
RowEnds(p) == tick' = [tick EXCEPT !.pc = p, !.row = None, !.got = None]

\* Routing may have created an issue, whose remote workflow is queued first.
TickStart ==
  /\ At("idle")
  /\ Goto("queue")
  /\ \/ UNCHANGED <<status, adding>>
     \/ \E i \in Issues :
          /\ status[i] = "ABSENT"
          /\ status' = [status EXCEPT ![i] = "WORKING"]
          /\ adding' = [adding EXCEPT ![Tick] = ToAdd(i)]
  /\ UNCHANGED <<prLink, link, rows, inbound, remote, crashes>>

TickList ==
  /\ At("queue") /\ adding[Tick] = NotAdding
  /\ tick' = [IdleTick EXCEPT !.pc = "sync",
                !.left = IF Len(queue) > Limit THEN Limit ELSE Len(queue)]
  /\ UNCHANGED <<status, prLink, link, rows, adding, inbound, remote, crashes>>

\* Mutant: the claimed row is not planned again.
TickClaimBlind ==
  /\ At("sync") /\ tick.left > 0
  /\ LET row == Head(queue) IN
     tick' = IF TRUE
             THEN [tick EXCEPT !.pc = "call", !.left = @ - 1, !.row = row]
             ELSE [tick EXCEPT !.left = @ - 1]
  /\ queue' = Tail(queue)
  /\ UNCHANGED <<status, prLink, link, orphans, adding, inbound, remote, crashes>>

\* Mutant: a stale row is left queued.
TickClaimKeepsStale ==
  /\ At("sync") /\ tick.left > 0
  /\ LET row == Head(queue) IN
     tick' = IF row.kind \in Plan(row.issue)
             THEN [tick EXCEPT !.pc = "call", !.left = @ - 1, !.row = row]
             ELSE [tick EXCEPT !.left = @ - 1]
  /\ LET row == Head(queue) IN
     queue' = IF row.kind \in Plan(row.issue) THEN Tail(queue) ELSE queue
  /\ UNCHANGED <<status, prLink, link, orphans, adding, inbound, remote, crashes>>

\* Claim the oldest queued row and plan again; a row whose action is no longer
\* planned is skipped.
TickClaim ==
  /\ At("sync") /\ tick.left > 0
  /\ LET row == Head(queue) IN
     tick' = IF row.kind \in Plan(row.issue)
             THEN [tick EXCEPT !.pc = "call", !.left = @ - 1, !.row = row]
             ELSE [tick EXCEPT !.left = @ - 1]
  /\ queue' = Tail(queue)
  /\ UNCHANGED <<status, prLink, link, orphans, adding, inbound, remote, crashes>>

\* What a view of the provider's pull request n tells: parse_pr_view_json.
PrView(i, n) == [number |-> n, state |-> pr[i][n]]

\* gh pr view <branch>: the open pull request, or else the newest.
OpenPrs(i) == {n \in DOMAIN pr[i] : pr[i][n] = "open"}
BranchPr(i) ==
  PrView(i, IF OpenPrs(i) = {} THEN Len(pr[i])
            ELSE CHOOSE k \in OpenPrs(i) : TRUE)

\* gh issue create, gh pr create: the provider opens r, or a pull request.
OpensIssue(r, i) ==
  /\ tick.row.kind = "issue" /\ opener[r] = None /\ Upwards(r)
  /\ opener' = [opener EXCEPT ![r] = i]
  /\ UNCHANGED pr
OpensPr(i) ==
  /\ tick.row.kind = "pr" /\ OpenPrs(i) = {} /\ Len(pr[i]) < MaxPrs
  /\ pr' = [pr EXCEPT ![i] = Append(@, "open")]
  /\ UNCHANGED opener

\* The provider creates the issue or the pull request.  If it refuses another
\* pull request for the branch, the existing one is viewed instead.
TickCall ==
  /\ At("call")
  /\ LET i == tick.row.issue IN
     \/ \E r \in Remotes : /\ OpensIssue(r, i)
                           /\ tick' = [tick EXCEPT !.pc = "store", !.got = r]
     \/ /\ OpensPr(i)
        /\ tick' = [tick EXCEPT !.pc = "store",
                      !.got = [number |-> Len(pr[i]) + 1, state |-> "open"]]
     \/ /\ tick.row.kind = "pr" /\ pr[i] # <<>>
        /\ tick' = [tick EXCEPT !.pc = "store", !.got = BranchPr(i)]
        /\ UNCHANGED <<pr, opener>>
  /\ UNCHANGED <<status, prLink, link, rows, adding, inbound, unheard, crashes>>

\* The call fails, before the provider did anything or after: gh's exit, a lost
\* answer, an answer without a number.  The row has failed, nothing is linked.
TickCallFails ==
  /\ At("call")
  /\ LET i == tick.row.issue IN
     \/ UNCHANGED remote
     \/ \E r \in Remotes : OpensIssue(r, i) /\ unheard' = unheard \cup {r}
     \/ OpensPr(i) /\ UNCHANGED unheard
  /\ RowEnds("sync")
  /\ UNCHANGED <<status, prLink, link, rows, adding, inbound, crashes>>

\* upsert_issue_link, which fails if the issue has a link to another number,
\* or upsert_pr_link; then finish_sync_run.
TickStore ==
  /\ At("store")
  /\ LET i == tick.row.issue IN
     IF tick.row.kind = "pr"
     THEN prLink' = [prLink EXCEPT ![i] = tick.got] /\ UNCHANGED link
     ELSE /\ link' = IF Linked(i) THEN link
                     ELSE [link EXCEPT ![tick.got] = [issue |-> i, item |-> None]]
          /\ UNCHANGED prLink
  /\ tick' = [tick EXCEPT !.pc = "finish", !.got = None]
  /\ UNCHANGED <<status, rows, adding, inbound, remote, crashes>>

TickFinish ==
  /\ \/ At("finish") /\ RowEnds("sync")
     \/ At("close") /\ RowEnds("observe")
  /\ UNCHANGED <<status, prLink, link, rows, adding, inbound, remote, crashes>>

\* observe_project_pull_requests: the ready issues, oldest first.
TickObserve ==
  /\ At("sync") /\ tick.left = 0
  /\ tick' = [IdleTick EXCEPT !.pc = "observe",
                !.list = {i \in Issues : status[i] = "READY_TO_MERGE"}]
  /\ UNCHANGED <<status, prLink, link, rows, adding, inbound, remote, crashes>>

\* Mutant: a closed pull request is passed over for good.
TickPickOpen ==
  /\ At("observe")
  /\ \E i \in tick.list :
       /\ \A j \in tick.list : i <= j
       /\ tick' = IF prLink[i].state \in {"none", "closed", "merged"}
                  THEN [tick EXCEPT !.list = @ \ {i}]
                  ELSE [tick EXCEPT !.list = @ \ {i}, !.pc = "look",
                                    !.row = [issue |-> i, kind |-> "pr"]]
  /\ UNCHANGED <<status, prLink, link, rows, adding, inbound, remote, crashes>>

\* Issues without a link, or whose link says merged, are passed over.  The
\* others get a running inbound row.
TickPick ==
  /\ At("observe")
  /\ \E i \in tick.list :
       /\ \A j \in tick.list : i <= j
       /\ tick' = IF prLink[i].state \in {"none", "merged"}
                  THEN [tick EXCEPT !.list = @ \ {i}]
                  ELSE [tick EXCEPT !.list = @ \ {i}, !.pc = "look",
                                    !.row = [issue |-> i, kind |-> "pr"]]
  /\ UNCHANGED <<status, prLink, link, rows, adding, inbound, remote, crashes>>

\* gh pr view <number of the link>.
TickLook ==
  /\ At("look")
  /\ LET i == tick.row.issue IN
     tick' = [tick EXCEPT !.pc = "update", !.got = PrView(i, prLink[i].number)]
  /\ UNCHANGED <<status, prLink, link, rows, adding, inbound, remote, crashes>>

TickLookFails ==
  /\ At("look")
  /\ RowEnds("observe")
  /\ UNCHANGED <<status, prLink, link, rows, adding, inbound, remote, crashes>>

\* Mutant: any ended pull request counts as merged.
TickUpdateEnded ==
  /\ At("update")
  /\ prLink' = [prLink EXCEPT ![tick.row.issue] = tick.got]
  /\ Goto(IF tick.got.state # "open" THEN "mark" ELSE "close")
  /\ UNCHANGED <<status, link, rows, adding, inbound, remote, crashes>>

TickUpdate ==
  /\ At("update")
  /\ prLink' = [prLink EXCEPT ![tick.row.issue] = tick.got]
  /\ Goto(IF tick.got.state = "merged" THEN "mark" ELSE "close")
  /\ UNCHANGED <<status, link, rows, adding, inbound, remote, crashes>>

\* force_status_if_current_project: an issue that is no longer ready is left
\* alone; the error then ends the observation with its row still running.
TickMark ==
  /\ At("mark")
  /\ IF status[tick.row.issue] = "READY_TO_MERGE"
     THEN /\ status' = [status EXCEPT ![tick.row.issue] = "DONE"]
          /\ Goto("close")
          /\ UNCHANGED orphans
     ELSE /\ orphans' = orphans \cup {tick.row}
          /\ tick' = IdleTick
          /\ UNCHANGED status
  /\ UNCHANGED <<prLink, link, queue, adding, inbound, remote, crashes>>

TickEnd ==
  /\ At("observe") /\ tick.list = {}
  /\ tick' = IdleTick
  /\ UNCHANGED <<status, prLink, link, rows, adding, inbound, remote, crashes>>

-----------------------------------------------------------------------------
(* Deliveries of /auwsx-run comments: process_remote_auwsx_run             *)

\* Mutant: only a processed delivery is a duplicate.
DeliverUnprocessed(d, r) ==
  /\ event[d] # "processed" /\ opener[r] # None
  /\ event' = [event EXCEPT ![d] = "received"]
  /\ hook' = [hook EXCEPT ![d] = [pc |-> "add", number |-> r]]
  /\ UNCHANGED <<status, prLink, link, rows, adding, tick, items, remote,
                 crashes>>

\* record_event lets a delivery in once; every later attempt is answered as a
\* duplicate and changes nothing.
New(d) == event[d] = "none"

\* A comment on a remote issue is delivered.
Deliver(d, r) ==
  /\ New(d) /\ opener[r] # None
  /\ event' = [event EXCEPT ![d] = "received"]
  /\ hook' = [hook EXCEPT ![d] = [pc |-> "add", number |-> r]]
  /\ UNCHANGED <<status, prLink, link, rows, adding, tick, items, remote,
                 crashes>>

\* plan_inbound_auwsx_run: the comment has no command, or one to carry out.
Ignore(d) ==
  /\ event' = [event EXCEPT ![d] = "ignored"]
  /\ hook' = [hook EXCEPT ![d] = IdleHook]

\* The command becomes a backlog item.
HookAdd(d) ==
  /\ hook[d].pc = "add"
  /\ \/ Ignore(d) /\ UNCHANGED items
     \/ /\ items' = [items EXCEPT ![d] = @ + 1]
        /\ hook' = [hook EXCEPT ![d].pc = "link"]
        /\ UNCHANGED event
  /\ UNCHANGED <<status, prLink, link, rows, adding, tick, remote, crashes>>

\* upsert_issue_link: the number's row, if there is one, is overwritten.
HookLink(d) ==
  /\ hook[d].pc = "link"
  /\ link' = [link EXCEPT ![hook[d].number] = [issue |-> None, item |-> d]]
  /\ hook' = [hook EXCEPT ![d].pc = "mark"]
  /\ UNCHANGED <<status, prLink, rows, adding, tick, event, items, remote,
                 crashes>>

HookMark(d) ==
  /\ hook[d].pc = "mark"
  /\ event' = [event EXCEPT ![d] = "processed"]
  /\ hook' = [hook EXCEPT ![d] = IdleHook]
  /\ UNCHANGED <<status, prLink, link, rows, adding, tick, items, remote,
                 crashes>>

-----------------------------------------------------------------------------
(* The rest of the world                                                   *)

\* The pipeline brings an issue to READY_TO_MERGE, guidance takes it back.
Ready(i) ==
  /\ status[i] = "WORKING"
  /\ status' = [status EXCEPT ![i] = "READY_TO_MERGE"]
  /\ UNCHANGED <<prLink, link, rows, adding, tick, inbound, remote, crashes>>

Rework(i) ==
  /\ status[i] = "READY_TO_MERGE"
  /\ status' = [status EXCEPT ![i] = "WORKING"]
  /\ UNCHANGED <<prLink, link, rows, adding, tick, inbound, remote, crashes>>

\* People merge, close and reopen pull requests, one open per branch.
ReviewPr(i) ==
  /\ \E n \in DOMAIN pr[i] : \E state \in PrStates :
       /\ \/ pr[i][n] = "open" /\ state # "open"
          \/ pr[i][n] = "closed" /\ state = "open" /\ OpenPrs(i) = {}
       /\ pr' = [pr EXCEPT ![i][n] = state]
  /\ UNCHANGED <<status, prLink, link, rows, adding, tick, inbound, opener,
                 unheard, crashes>>

\* A remote issue is opened and not yet stored.
Unstored == At("store") /\ tick.row.kind = "issue"

\* The daemon dies and is restarted: recovery does not look at sync rows.
Crash ==
  /\ crashes < MaxCrashes /\ crashes' = crashes + 1
  /\ orphans' = IF tick.row = None THEN orphans ELSE orphans \cup {tick.row}
  /\ unheard' = IF Unstored THEN unheard \cup {tick.got} ELSE unheard
  /\ tick' = IdleTick
  /\ adding' = [a \in Actors |-> NotAdding]
  /\ hook' = [d \in Deliveries |-> IdleHook]
  /\ UNCHANGED <<status, prLink, link, queue, event, items, pr, opener>>

-----------------------------------------------------------------------------
TickStep ==
  \/ TickStart \/ AddCheck(Tick) \/ AddRow(Tick) \/ TickList \/ TickClaim
  \/ TickCall \/ TickCallFails \/ TickStore \/ TickFinish \/ TickObserve
  \/ TickPick \/ TickLook \/ TickLookFails \/ TickUpdate \/ TickMark \/ TickEnd

Next ==
  \/ TickStep
  \/ \E h \in Handlers : \/ AddCheck(h) \/ AddRow(h)
                         \/ \E i \in Issues : Approve(h, i)
  \/ \E d \in Deliveries : \/ HookAdd(d) \/ HookLink(d) \/ HookMark(d)
                           \/ \E r \in Remotes : Deliver(d, r)
  \/ \E i \in Issues : Ready(i) \/ Rework(i) \/ ReviewPr(i)
  \/ Crash

Spec == Init /\ [][Next]_vars

\* The heartbeat ticks, the daemon's own steps end, calls of gh among them
\* (run_gh has no timeout), and a provider that is asked again and again answers
\* some day.
FairSpec ==
  /\ Spec
  /\ WF_vars(TickStep)
  /\ \A i \in Issues : SF_vars(TickLook /\ tick.row.issue = i)
  /\ \A h \in Handlers : WF_vars(AddCheck(h) \/ AddRow(h))
  /\ \A d \in Deliveries : WF_vars(HookAdd(d) \/ HookLink(d) \/ HookMark(d))

-----------------------------------------------------------------------------
(* Properties                                                              *)

\* A local issue is DONE only if the pull request its link names was merged: an
\* observation reads the provider, then awaits, then writes, while pull requests
\* are closed, reopened and replaced by new ones and issues are reworked.
DoneOnlyIfMerged ==
  \A i \in Issues : status[i] = "DONE" =>
    /\ prLink[i].number \in DOMAIN pr[i]
    /\ pr[i][prLink[i].number] = "merged"

\* An observed merge never takes an issue out of WORKING that was sent back
\* while the provider was asked.
DoneFromReady ==
  [][\A i \in Issues : status'[i] = "DONE" /\ status[i] # "DONE"
                         => status[i] = "READY_TO_MERGE"]_vars

\* One local issue gets one remote issue that the daemon hears of, however often
\* it is approved, retried after failures and crashes, and also when two actors
\* queue its row between check and insert: the second row is planned again and
\* skipped.  Two kinds are not counted: those the daemon never heard of, opened
\* by a call that failed afterwards or just before a crash, and those whose link
\* row a /auwsx-run comment has taken over.
RemoteIssueOnce ==
  \A i \in Issues :
    Cardinality({r \in Remotes \ unheard :
                   opener[r] = i /\ link[r].item = None}) <= 1

\* A delivery makes at most one backlog item, also when it is sent again after
\* a crash.
DeliveryOnce == \A d \in Deliveries : items[d] <= 1

\* A queued row is executed by some tick, crashes or not: none stays for ever.
QueueServed ==
  \A i \in Issues : \A k \in Kinds :
    []<>(\A n \in DOMAIN queue : queue[n] # [issue |-> i, kind |-> k])

\* A merged pull request does not stay unobserved for ever while it is the one
\* the link names and the issue is ready.
MergeObserved ==
  \A i \in Issues : \A n \in 1..MaxPrs :
    []<>~(/\ prLink[i].number = n /\ prLink[i].state # "merged"
          /\ pr[i][n] = "merged" /\ status[i] = "READY_TO_MERGE")
=============================================================================
