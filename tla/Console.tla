------------------------------ MODULE Console ------------------------------
(***************************************************************************)
(* The terminal console beside a running daemon (crates/auwsx-tui/src/     *)
(* app.rs): one loop takes the next key, daemon event or poll, and handles *)
(* it to the end, requests included.  Between two turns the daemon changes *)
(* rows and publishes events, of which a slow subscriber loses the oldest; *)
(* the stream may break, after which only the poll refreshes.  A handler   *)
(* is one step: all its requests see the rows of one moment.  Forms and    *)
(* the quit question, which keep the keys to themselves, are ConsoleForms. *)
(***************************************************************************)
EXTENDS ConsoleView

CONSTANTS
  Seen,        \* statuses the issues of the instance go through
  Start,       \* status of each issue at first, or Absent
  StartItems,  \* backlog items there at first
  MaxKeys,     \* bound: keys pressed
  MaxChanges,  \* bound: changes of the daemon's rows
  Capacity     \* events a subscriber may lag behind

ASSUME ConsoleAssumption ==
  /\ Seen \subseteq Status
  /\ Start \in [Issues -> Status \cup {Absent}] /\ StartItems \subseteq Backlog
  /\ MaxKeys \in Nat /\ MaxChanges \in Nat /\ Capacity \in Nat \ {0}

VARIABLES
  ui,       \* the console
  db,       \* the daemon's rows
  events,   \* published, not yet handled
  session,  \* live, poll (the stream is lost), down (no daemon), exited
  sent,     \* the command of the last step, and what it was about
  keys, changes

vars == <<ui, db, events, session, sent, keys, changes>>

NoCommand == [cmd |-> "none", id |-> None, on |-> Nothing]
Sections == <<"Recovery", "Remote", "Kanban", "Preview", "Archive">>
Views == <<"Overview", "Logs", "Ask">>

TypeOK ==
  /\ ui.view \in ToSet(Views) \cup {"Config"}
  /\ ui.focus \in {"Left", "ProjectDetail", "ProjectKanban", "IssueDetail",
                   "Settings"}
  /\ ui.focus = "Settings" => ui.view = "Config"
  /\ ui.focus \in {"ProjectDetail", "ProjectKanban", "IssueDetail"}
       => ui.view = "Overview"
  /\ ui.projects # <<>> => Active(ui) # None
  /\ ui.expanded \cup ui.archive \subseteq ToSet(ui.projects)
  /\ ui.detail = None <=> ui.detailStatus = Absent
  /\ session \in {"live", "poll", "down", "exited"}

InitDb == [projects |-> Sorted(Projects, ById), issue |-> Start,
           updated |-> Sorted(Issues, NewestFirst),
           backlog |-> [b \in Backlog |-> IF b \in StartItems THEN "pending"
                                          ELSE Absent],
           routine |-> [r \in Routines |-> "on"]]

\* App::new().  The cursors are indexes from 1.
NewUi == [view |-> "Overview", focus |-> "Left", projects |-> <<>>,
          kids |-> [p \in Projects |-> NoChildren], proj |-> 1, sel |-> 1,
          expanded |-> {}, archive |-> {}, section |-> "Kanban",
          lane |-> 1, card |-> 1, mode |-> "Selected", back |-> "Left",
          backSel |-> None, move |-> FALSE, detail |-> None,
          detailStatus |-> Absent, runs |-> None, activity |-> None,
          pending |-> None]

\* run(): loaded once before the first frame, then subscribed.
Init ==
  /\ db = InitDb
  /\ ui = RefreshAll(NewUi, InitDb)
  /\ events = <<>> /\ session = "live" /\ sent = NoCommand
  /\ keys = 0 /\ changes = 0

Up == session \in {"live", "poll"}

\* A turn of the loop that asks the daemon: an unanswered request ends run().
Asking(u) == IF Up THEN ui' = u /\ UNCHANGED session
             ELSE session' = "exited" /\ UNCHANGED ui
Local(u) == ui' = u /\ UNCHANGED session

-----------------------------------------------------------------------------
(* The daemon                                                              *)

Ev(k, i) == [kind |-> k, id |-> i]

\* The subscriber that lags loses the oldest event.
Published(e) ==
  IF session # "live" THEN events
  ELSE IF Len(events) < Capacity THEN Append(events, e)
  ELSE Append(Tail(events), e)

Touch(d, i, s) ==
  [d EXCEPT !.issue[i] = s,
            !.updated = <<i>> \o Only(@, Issues \ {i})]

\* What another client, a phase or a tick does to the rows, and its event.
RowsChange ==
  \/ \E i \in Issues, s \in Seen :
       /\ db.issue[i] \notin Terminal \cup {s}
       /\ db' = Touch(db, i, s) /\ events' = Published(Ev("status", i))
  \/ \E i \in Issues :
       /\ db.issue[i] # Absent
       /\ db' = Touch(db, i, Absent) /\ events' = Published(Ev("rows", i))
  \/ \E b \in Backlog :
       /\ db.backlog[b] = Absent
       /\ db' = [db EXCEPT !.backlog[b] = "pending"]
       /\ events' = Published(Ev("backlog", b))

DaemonChanges ==
  /\ Up /\ changes < MaxChanges /\ changes' = changes + 1
  /\ RowsChange
  /\ sent' = NoCommand
  /\ UNCHANGED <<ui, session, keys>>

\* Log lines, ticks, main jobs and routines change no row of the tree.
DaemonReports ==
  /\ Up /\ changes < MaxChanges /\ changes' = changes + 1
  /\ \/ \E i \in Issues : events' = Published(Ev("log", i))
     \/ \E p \in Projects : events' = Published(Ev("tick", p))
     \/ events' = Published(Ev("jobs", None))
  /\ sent' = NoCommand
  /\ UNCHANGED <<ui, db, session, keys>>

\* The daemon stops, or only the subscription breaks.
StreamEnds ==
  /\ session = "live" /\ events' = <<>>
  /\ session' \in {"poll", "down"}
  /\ sent' = NoCommand
  /\ UNCHANGED <<ui, db, keys, changes>>

-----------------------------------------------------------------------------
(* Events and polls                                                        *)

\* select_issue_in_tree, for the event of the issue under the cursor.
Reselected(u, i) ==
  LET ps == {p \in Projects : i \in ToSet(u.kids[p].live)
                                    \cup ToSet(u.kids[p].archived)}
  IN IF ps = {} THEN u ELSE PreserveIssue(u, First(ps), i)

\* on_event(): a tick re-queries its own project, every other event the active
\* one, whichever it is about.
Handled(u, d, e) ==
  CASE e.kind = "status" ->
         LET was == IsIssue(TreeItem(u)) /\ TreeItem(u).id = e.id
             again(v) == IF was THEN Reselected(v, e.id) ELSE v
         IN Then(Then(RefreshIssues(u, d), again),
                 LAMBDA v : RefreshActivity(RefreshDetail(v, d)))
    [] e.kind = "rows" -> Then(RefreshIssues(u, d),
                               LAMBDA v : RefreshActivity(RefreshDetail(v, d)))
    [] e.kind = "log" ->
         IF SelectedIssue(u) = e.id THEN RefreshRuns(u) ELSE u
    [] e.kind \in {"backlog", "jobs"} -> RefreshActivity(RefreshActive(u, d))
    [] e.kind = "tick" ->
         LET v == IF e.id \in ToSet(d.projects) THEN RefreshChildren(u, d, e.id)
                  ELSE u
         IN IF e.id = Active(u) THEN RefreshActivity(v) ELSE v

OnEvent ==
  /\ session = "live" /\ events # <<>>
  /\ ui' = Handled(ui, db, Head(events))
  /\ events' = Tail(events)
  /\ sent' = NoCommand
  /\ UNCHANGED <<db, session, keys, changes>>

\* Mutant of Polled: the rows are left alone while an issue is open.
PolledDetailOnly(u, d) ==
  IF u.view # "Overview" THEN u
  ELSE IF u.focus = "IssueDetail" THEN RefreshDetail(u, d)
  ELSE IF u.move THEN u ELSE RefreshActivity(RefreshActive(u, d))

\* ui_tick(): in the overview the active project, and what the cursor is on.
Polled(u, d) ==
  LET rows == IF u.move \/ Active(u) = None THEN u
              ELSE RefreshActivity(RefreshActive(u, d))
  IN IF u.view # "Overview" THEN u
     ELSE Then(rows, LAMBDA v :
            IF v.focus = "IssueDetail" \/ SelectedStatus(v) # Absent
            THEN RefreshDetail(v, d) ELSE v)

\* The first request of a poll is the last tick of each project.
Poll ==
  /\ session \in {"live", "poll", "down"}
  /\ IF ui.projects = <<>> THEN Local(ui) ELSE Asking(Polled(ui, db))
  /\ sent' = NoCommand
  /\ UNCHANGED <<db, events, keys, changes>>

-----------------------------------------------------------------------------
(* Keys that move                                                          *)

\* apply(): every key but d forgets the project asked about.
Key(u) == [u EXCEPT !.pending = None]

\* move_sel: the cursor follows into another project.
MoveSel(u, delta) ==
  LET v == SyncActive([u EXCEPT !.sel = Stepped(@, delta, Len(TreeRows(u)))])
  IN IF v.sel = u.sel THEN u
     ELSE IF IsIssue(TreeItem(v)) THEN RefreshDetail(v, db)
     ELSE RefreshActivity(v)

MoveSection(u, delta) ==
  LET at == CHOOSE n \in DOMAIN Sections : Sections[n] = u.section
  IN [u EXCEPT !.section = Sections[Stepped(at, delta, Len(Sections))]]

\* move_backlog_local, move_issue_local: only the loaded list is reordered.
Swap(s, i, delta) ==
  LET at == CHOOSE n \in DOMAIN s : s[n] = i
      to == Stepped(at, delta, Len(s))
  IN [s EXCEPT ![at] = s[to], ![to] = i]
MoveRow(u, delta) ==
  LET item == TreeItem(u) IN
  CASE item.kind = "backlog" ->
         SelectTree([u EXCEPT !.kids[item.project].backlog =
                                Swap(@, item.id, delta)], "backlog", item.id)
    [] item.kind = "issue" ->
         SelectTree([u EXCEPT !.kids[item.project].live =
                                Swap(@, item.id, delta)], "issue", item.id)
    [] OTHER -> u

\* j and k.  A project is moved in the order the daemon keeps.
KeyVertical(delta) ==
  LET u == Key(ui)
      moved == u.move /\ TreeItem(u).kind = "project" /\ Active(u) # None
      order == db.projects
      d == IF moved THEN [db EXCEPT !.projects =
                            IF Active(u) \in ToSet(order)
                            THEN Swap(order, Active(u), delta) ELSE order]
           ELSE db
  IN /\ CASE u.view = "Config" -> Local(u)
          [] u.view # "Config" /\ moved ->
               Asking(SelectTree(RefreshProjects(u, d), "project", Active(u)))
          [] u.view # "Config" /\ u.move /\ ~moved -> Local(MoveRow(u, delta))
          [] u.view # "Config" /\ ~u.move ->
               CASE u.focus = "ProjectKanban" ->
                      Local([u EXCEPT !.card = Stepped(@, delta, Len(Cards(u, u.lane)))])
                 [] u.focus = "ProjectDetail" -> Local(MoveSection(u, delta))
                 [] u.focus = "IssueDetail" -> Local(u)
                 [] u.focus = "Left" -> Asking(MoveSel(u, delta))
     /\ db' = IF Up THEN d ELSE db
     /\ UNCHANGED events

Roots == {"project", "routines", "backlogs", "issues"}

\* collapse_selected_tree_root, expand_selected_tree_root
Folded(u, open) ==
  LET item == TreeItem(u)
      p == item.project
      set(S) == IF open THEN S \cup {p} ELSE S \ {p}
      v == CASE item.kind \in Roots -> [u EXCEPT !.expanded = set(@)]
             [] item.kind = "archive" ->
                  [u EXCEPT !.archive = set(@),
                            !.expanded = IF open THEN @ \cup {p} ELSE @]
             [] OTHER -> u
  IN IF item.kind \in Roots \cup {"archive"} THEN SyncActive(ClampTree(v)) ELSE u

\* h and l.  Profiles, between which l and h move a project, are not modelled.
KeyHorizontal(delta) ==
  LET u == Key(ui) IN
  /\ Local(CASE u.move -> u
             [] ~u.move /\ u.focus = "Left" /\ u.view = "Overview" ->
                  Folded(u, delta = 1)
             [] ~u.move /\ u.focus = "ProjectKanban" ->
                  ClampKanban([u EXCEPT !.lane = Stepped(@, delta, 4)])
             [] ~u.move /\ u.focus = "ProjectDetail" -> MoveSection(u, delta)
             [] ~u.move /\ u.focus = "IssueDetail" ->
                  [u EXCEPT !.mode = "Selected"]
             [] OTHER -> u)
  /\ UNCHANGED <<db, events>>

\* enter_issue_detail
Enter(u, back, backSel) ==
  [u EXCEPT !.back = back, !.backSel = backSel, !.focus = "IssueDetail",
            !.mode = "Selected"]

\* open_selected_kanban_item: a card's issue is the open one at once.
OpenCard(u, d) ==
  LET card == Card(u) IN
  CASE card.kind = "backlog" ->
         [SelectTree(u, "backlog", card.id) EXCEPT !.focus = "Left"]
    [] card.kind = "issue" ->
         RefreshDetail([Enter(u, "ProjectKanban", u.sel) EXCEPT
                          !.detail = card.id,
                          !.detailStatus = ActiveKids(u).stat[card.id]], d)
    [] OTHER -> u

\* drill(): an issue is opened with the focus set first, so a detail loaded
\* for another issue is the one that is opened.
Drill(u, d) ==
  CASE u.focus = "ProjectKanban" -> OpenCard(u, d)
    [] u.focus = "Left" /\ TreeItem(u).kind = "project" ->
         [SyncActive(u) EXCEPT !.focus = "ProjectDetail"]
    [] u.focus = "Left" /\ IsIssue(TreeItem(u)) ->
         RefreshDetail(Enter(u, "Left", None), d)
    [] OTHER -> u

\* Enter.
KeyEnter ==
  LET u == Key(ui) IN
  /\ CASE u.focus = "IssueDetail" -> Local([u EXCEPT !.mode = "Active"])
       [] u.focus = "ProjectDetail" ->
            Local(IF u.section = "Kanban"
                  THEN ClampKanban([u EXCEPT !.focus = "ProjectKanban"]) ELSE u)
       [] u.focus \notin {"IssueDetail", "ProjectDetail"}
            /\ u.view = "Overview" /\ "drill" \in Offers(u) -> Asking(Drill(u, db))
       [] OTHER -> Local(u)
  /\ UNCHANGED <<db, events>>

\* set_view
View(u, v) ==
  [u EXCEPT !.view = v, !.focus = IF v = "Config" THEN "Settings" ELSE "Left"]

\* Tab and its reverse, which go round, and the settings.
KeyView(delta) ==
  LET u == Key(ui)
      at == {n \in DOMAIN Views : Views[n] = u.view}
      n == IF at = {} THEN 1 ELSE First(at)
      v == Views[((n - 1 + delta + Len(Views)) % Len(Views)) + 1]
  IN /\ IF v = "Ask" THEN Asking(View(u, v)) ELSE Local(View(u, v))
     /\ UNCHANGED <<db, events>>

KeySettings == /\ Asking(View(Key(ui), "Config"))
               /\ UNCHANGED <<db, events>>

\* Esc: out of a section, the detail, the board, the project, the settings.
KeyEsc ==
  LET u == Key(ui)
      home == IF u.back = "ProjectKanban" /\ u.backSel # None
              THEN SyncActive([u EXCEPT !.sel = u.backSel, !.backSel = None])
              ELSE u
  IN /\ Local(CASE u.focus = "IssueDetail" /\ u.mode = "Active" ->
                     [u EXCEPT !.mode = "Selected"]
                [] u.focus = "IssueDetail" /\ u.mode # "Active" ->
                     [home EXCEPT !.focus = u.back, !.move = FALSE]
                [] u.focus = "ProjectKanban" ->
                     [u EXCEPT !.focus = "ProjectDetail", !.move = FALSE]
                [] u.focus = "ProjectDetail" ->
                     [u EXCEPT !.focus = "Left", !.move = FALSE]
                [] u.view = "Config" -> View(u, "Overview")
                [] OTHER -> u)
     /\ UNCHANGED <<db, events>>

\* m.
KeyMove ==
  LET u == Key(ui) IN
  /\ Local(CASE u.move -> [u EXCEPT !.move = FALSE]
             [] ~u.move /\ "move" \in Offers(u) ->
                  [u EXCEPT !.move = TRUE, !.focus = "Left"]
             [] OTHER -> u)
  /\ UNCHANGED <<db, events>>

\* [ and ]: to the header of another project, from anywhere.
KeyProject(delta) ==
  LET u == Key(ui)
      v == [u EXCEPT !.proj = Stepped(@, delta, Len(u.projects))]
  IN /\ Local(IF u.projects = <<>> THEN u
              ELSE [SelectTree(v, "project", Active(v)) EXCEPT !.focus = "Left"])
     /\ UNCHANGED <<db, events>>

-----------------------------------------------------------------------------
(* Keys that command                                                       *)

\* What the daemon makes of a command: refused, or its effect and its event.
Refused(d) == [db |-> d, ev |-> events]
Effect(d, e) == [db |-> d, ev |-> IF e.kind = "none" THEN events ELSE Published(e)]

\* approve, dismiss: the item stays in the issue it is in.
Judged(d, b, approval) ==
  IF d.backlog[b] = "consumed" THEN d ELSE [d EXCEPT !.backlog[b] = approval]

Outcomes(c, d) ==
  {Refused(d)} \cup
  CASE c.cmd = "AbandonIssue" /\ d.issue[c.id] \notin Terminal \cup {Absent} ->
         {Effect(Touch(d, c.id, "ABANDONED"), Ev("status", c.id))}
    [] c.cmd = "CleanupIssueWorktree" /\ d.issue[c.id] \in Terminal ->
         {Effect(Touch(d, c.id, Absent), Ev("rows", c.id))}
    [] c.cmd = "ApproveBacklog" ->
         {Effect(Judged(d, c.id, "approved"), Ev("backlog", c.id))}
    [] c.cmd = "DismissBacklog" ->
         {Effect(Judged(d, c.id, "dismissed"), Ev("backlog", c.id))}
    [] c.cmd = "RunBacklogNow" /\ d.backlog[c.id] # "dismissed" ->
         {Effect([d EXCEPT !.backlog[c.id] = "consumed"], Ev("none", None))}
    [] c.cmd = "ToggleRoutine" ->
         {Effect([d EXCEPT !.routine[c.id] = IF c.on.kind = "on" THEN "off"
                                             ELSE "on"], Ev("none", None))}
    [] c.cmd = "RemoveRoutine" ->
         {Effect([d EXCEPT !.routine[c.id] = Absent], Ev("none", None))}
    [] c.cmd = "RemoveProject" ->
         {Effect([d EXCEPT !.projects = Only(@, Projects \ {c.id})],
                 Ev("none", None))}
    [] OTHER -> {}

Command(c, i) == [cmd |-> c, id |-> i, on |-> Nothing]

\* req_ok, then refresh: a refusal or a lost connection only shows in the
\* footer, the refresh behind it ends the console.
Send(c, u, Refreshed(_, _)) ==
  IF Up
  THEN \E o \in Outcomes(c, db) :
         /\ db' = o.db /\ events' = o.ev
         /\ ui' = Refreshed(u, o.db)
         /\ UNCHANGED session
  ELSE session' = "exited" /\ UNCHANGED <<ui, db, events>>

Nowhere == UNCHANGED <<db, events>>

\* A.  The routine is switched to the opposite of what is shown.
ApproveCommand(u) ==
  LET item == ContextItem(u)
      shown == [kind |-> IF item.kind = "routine" THEN u.kids[item.project].on[item.id]
                         ELSE "on"]
  IN IF item.kind = "routine"
     THEN [cmd |-> "ToggleRoutine", id |-> item.id, on |-> shown]
     ELSE Command("ApproveBacklog", item.id)

KeyApprove ==
  LET u == Key(ui)
      c == ApproveCommand(u)
  IN IF "approve" \in Offers(u) /\ ContextItem(u).kind \in {"backlog", "routine"}
     THEN /\ Send(c, u, RefreshActive)
          /\ sent' = [c EXCEPT !.on = ContextItem(u)]
     ELSE Local(u) /\ Nowhere /\ sent' = NoCommand

\* issue_delete_command: by the status that is loaded.
DeleteCommand(u) ==
  LET item == ContextItem(u)
      stat == u.kids[item.project].stat
  IN CASE item.kind = "backlog" -> Command("DismissBacklog", item.id)
       [] item.kind = "routine" -> Command("RemoveRoutine", item.id)
       [] IsIssue(item) /\ stat[item.id] \in Terminal ->
            Command("CleanupIssueWorktree", item.id)
       [] IsIssue(item) /\ stat[item.id] \notin Terminal ->
            Command("AbandonIssue", item.id)

\* d.  A project is unregistered by the second of two in a row; it is the
\* active project that is asked about and removed.
Unregister(u) ==
  IF u.pending = Active(u)
  THEN LET c == Command("RemoveProject", Active(u))
       IN /\ Send(c, Key(u), RefreshAll)
          /\ sent' = [c EXCEPT !.on = TreeItem(u)]
  ELSE Local([u EXCEPT !.pending = Active(u)]) /\ Nowhere /\ sent' = NoCommand

DeletedRefresh(u, d) ==
  IF IsIssue(ContextItem(u)) THEN RefreshActive(RefreshIssues(u, d), d)
  ELSE RefreshActive(u, d)

KeyDelete ==
  LET item == ContextItem(ui) IN
  IF "delete" \notin Offers(ui) THEN Local(ui) /\ Nowhere /\ sent' = NoCommand
  ELSE CASE item.kind \in {"backlog", "routine", "issue", "archived"} ->
              /\ Send(DeleteCommand(ui), ui, DeletedRefresh)
              /\ sent' = [DeleteCommand(ui) EXCEPT !.on = item]
         [] item.kind = "project" /\ Active(ui) # None -> Unregister(ui)
         [] OTHER -> Local(ui) /\ Nowhere /\ sent' = NoCommand

\* execute_selected
ExecuteCommand(u) ==
  LET item == ContextItem(u) IN
  CASE item.kind = "project" -> Command("ReconcileProject", item.project)
    [] item.kind = "backlog" -> Command("RunBacklogNow", item.id)
    [] item.kind = "issue" ->
         Command(IF SelectedStatus(u) = "FAILED" THEN "RetryIssue"
                 ELSE "ExecuteIssue", item.id)
    [] item.kind = "routine" -> Command("RunRoutineNow", item.id)
    [] OTHER -> NoCommand

\* E.  Whatever was sent, everything is loaded again.
KeyExecute ==
  LET u == Key(ui)
      c == ExecuteCommand(u)
  IN IF "execute" \in Offers(u)
     THEN Send(c, u, RefreshAll) /\ sent' = [c EXCEPT !.on = ContextItem(u)]
     ELSE Local(u) /\ Nowhere /\ sent' = NoCommand

-----------------------------------------------------------------------------
KeyMoves == /\ \/ \E delta \in {-1, 1} : \/ KeyVertical(delta)
                                         \/ KeyHorizontal(delta)
                                         \/ KeyView(delta)
                                         \/ KeyProject(delta)
               \/ KeyEnter \/ KeySettings \/ KeyEsc \/ KeyMove
            /\ sent' = NoCommand

KeyCommands == KeyApprove \/ KeyDelete \/ KeyExecute

KeyPressed ==
  /\ session # "exited" /\ keys < MaxKeys /\ keys' = keys + 1
  /\ KeyMoves \/ KeyCommands
  /\ UNCHANGED changes

\* q, or Ctrl-C.
Quit == /\ session # "exited" /\ keys < MaxKeys /\ keys' = keys + 1
        /\ session' = "exited" /\ sent' = NoCommand
        /\ UNCHANGED <<ui, db, events, changes>>

Next == DaemonChanges \/ DaemonReports \/ StreamEnds \/ OnEvent \/ Poll
        \/ KeyPressed \/ Quit

Spec == Init /\ [][Next]_vars

\* The loop polls every five seconds.  No key has to be pressed, and nothing is
\* asked of the stream: its events may come late or never.
FairSpec == Spec /\ WF_vars(Poll)

-----------------------------------------------------------------------------
(* Properties                                                              *)

\* The cursor is an index into rows that come and go, and is still on the same
\* issue after the console has taken in a change of an issue's status or the
\* removal of another, even if the issue has gone to the archive; unless its
\* row is gone.  (Backlog events and polls do let it drift.)
CursorFollowsIssue ==
  [][OnEvent /\ Head(events).kind \in {"status", "rows"} /\ IsIssue(TreeItem(ui))
     => LET i == TreeItem(ui).id
            rows == {n \in DOMAIN TreeRows(ui') : /\ IsIssue(TreeRows(ui')[n])
                                                  /\ TreeRows(ui')[n].id = i}
        IN rows = {} \/ ui'.sel \in rows]_vars

\* The issue one reads stays the issue one reads: whatever happens to the rows
\* around it, and wherever the cursor of the tree drifts, the open issue is
\* replaced only if its own row is gone.
DetailKeepsIssue ==
  [][ui.focus = "IssueDetail" /\ ui'.focus = "IssueDetail" /\ ui.detail # None
     => ui'.detail = ui.detail \/ db.issue[ui.detail] = Absent]_vars

\* The runs and the log in the detail pane are those of the issue in it.
RunsOfOpenIssue ==
  ui.focus = "IssueDetail" /\ ui.detail # None => ui.runs = ui.detail

\* With events lost, or without a stream, the overview still comes to show the
\* rows of the active project as they are, again and again.
ScreenConverges ==
  []<>(\/ session \in {"down", "exited"} \/ ui.view # "Overview" \/ ui.move
       \/ Active(ui) = None
       \/ ui.kids[Active(ui)] = Children(db, Active(ui))
          /\ ui.activity = Active(ui))
=============================================================================
