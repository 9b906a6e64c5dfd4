---------------------------- MODULE ConsoleView ----------------------------
(***************************************************************************)
(* What the terminal console holds and shows (crates/auwsx-tui/src/app.rs, *)
(* ui/vm.rs): the rows it has loaded from the daemon, the tree and the     *)
(* board it makes of them, what its cursor selects, which keys it offers   *)
(* there, and how every refresh changes all that.  Constant-level: u is    *)
(* the state of the console, d the rows of the daemon at the time of a     *)
(* request.  Texts, colours, layout and scrolling are left out.            *)
(***************************************************************************)
EXTENDS IssueStatus, Integers, FiniteSets, Sequences, SequencesExt

CONSTANTS
  Projects,     \* ids of projects
  Issues,       \* ids of issues; larger ids are newer
  Backlog,      \* ids of backlog items; larger ids are newer
  Routines,     \* ids of routines
  OwnerOf,      \* project of an issue, of a backlog item, of a routine:
                \* [issue, backlog, routine] of functions
  ArchiveLimit  \* archived issues the tree shows

ASSUME ViewAssumption ==
  /\ \A S \in {Projects, Issues, Backlog, Routines} :
       S \subseteq Nat \ {0} /\ IsFiniteSet(S)
  /\ OwnerOf.issue \in [Issues -> Projects]
  /\ OwnerOf.backlog \in [Backlog -> Projects]
  /\ OwnerOf.routine \in [Routines -> Projects]
  /\ ArchiveLimit \in Nat

None == 0         \* no id, no index

\* One request after the other: F of the console as the first left it.
Then(u, F(_)) == CHOOSE w \in {F(v) : v \in {u}} : TRUE
Absent == "absent"

-----------------------------------------------------------------------------
(* What the cache holds of a project                                       *)

\* needs_attention(): shown before everything else.
Attention == {"PLAN_READY", "PLAN_BLOCKED", "REVIEW_BLOCKED",
              "READY_TO_MERGE", "CONFLICT_BLOCKED", "FAILED"}

\* progress_lane(): the lane of the board, 1 to 4.
Lane(s) == CASE s \in {"NEW", "PLANNING", "PLAN_READY", "PLAN_BLOCKED"} -> 1
             [] s \in {"WORKING", "REVIEWING", "FIXING", "REVIEW_BLOCKED",
                       "AUDITING"} -> 2
             [] s \in {"READY_TO_MERGE", "MERGING", "RESOLVING_CONFLICT",
                       "CONFLICT_BLOCKED"} -> 3
             [] s \in Terminal -> 4
Lanes == 1..4

StatusOrder ==
  <<"PLAN_BLOCKED", "REVIEW_BLOCKED", "READY_TO_MERGE", "CONFLICT_BLOCKED",
    "FAILED", "NEW", "PLANNING", "PLAN_READY", "WORKING", "REVIEWING",
    "FIXING", "AUDITING", "MERGING", "RESOLVING_CONFLICT", "DONE",
    "ABANDONED">>
Rank(s) == CHOOSE n \in DOMAIN StatusOrder : StatusOrder[n] = s

\* Orders in which lists are loaded, as sets of pairs: by id, either way, and
\* issue_status_sort_key, which is attention, lane, status, id.
ById == {e \in Nat \X Nat : e[1] < e[2]}
NewestFirst == {e \in Nat \X Nat : e[1] > e[2]}
ByStatus(stat) ==
  LET calm(k) == IF stat[k] \in Attention THEN 0 ELSE 1
      lane(k) == Lane(stat[k])
      rank(k) == Rank(stat[k])
      before(i, j) ==
        \/ calm(i) < calm(j)
        \/ calm(i) = calm(j) /\ lane(i) < lane(j)
        \/ calm(i) = calm(j) /\ lane(i) = lane(j) /\ rank(i) < rank(j)
        \/ calm(i) = calm(j) /\ lane(i) = lane(j) /\ rank(i) = rank(j) /\ i < j
  IN {e \in Issues \X Issues : before(e[1], e[2])}

\* S as a list in the order R; and what is left of s in S, in its own order.
Sorted(S, R) == CHOOSE s \in [1..Cardinality(S) -> S] :
                  \A n \in 2..Cardinality(S) : <<s[n - 1], s[n]>> \in R
Only(s, S) ==
  LET places(at) == [n \in DOMAIN at |-> s[at[n]]]
      sorted(at) == Sorted(at, ById)
  IN Then(Then({n \in DOMAIN s : s[n] \in S}, sorted), places)

\* refresh_project_children: the routines by id, the backlog that is in no issue
\* yet, newest first, the live issues in the order of the status view, the
\* terminal ones by their last change, newest first.
Children(d, p) ==
  LET mine == {i \in Issues : OwnerOf.issue[i] = p /\ d.issue[i] # Absent}
      live == {i \in mine : d.issue[i] \notin Terminal}
      routines == {r \in Routines : OwnerOf.routine[r] = p /\ d.routine[r] # Absent}
      backlog == {b \in Backlog : /\ OwnerOf.backlog[b] = p
                                 /\ d.backlog[b] \notin {Absent, "consumed"}}
  IN [routines |-> Sorted(routines, ById),
      backlog |-> Sorted(backlog, NewestFirst),
      live |-> Sorted(live, ByStatus(d.issue)),
      archived |-> Only(d.updated, mine \ live),
      stat |-> [i \in mine |-> d.issue[i]],
      appr |-> [b \in {c \in Backlog : OwnerOf.backlog[c] = p} |-> d.backlog[b]],
      on |-> [r \in {q \in Routines : OwnerOf.routine[q] = p} |-> d.routine[r]]]

NoChildren == [routines |-> <<>>, backlog |-> <<>>, live |-> <<>>,
               archived |-> <<>>, stat |-> <<>>, appr |-> <<>>, on |-> <<>>]

-----------------------------------------------------------------------------
(* The tree                                                                *)

Item(k, p, i) == [kind |-> k, project |-> p, id |-> i]
Nothing == Item("nothing", None, None)

ItemsOf(k, p, ids) == [n \in DOMAIN ids |-> Item(k, p, ids[n])]
FirstOf(s, n) == SubSeq(s, 1, IF Len(s) < n THEN Len(s) ELSE n)

\* The rows below the header of a project.
RowsOf(u, p) ==
  LET kids == u.kids[p] IN
  IF p \notin u.expanded THEN <<Item("project", p, None)>>
  ELSE <<Item("project", p, None), Item("routines", p, None)>>
       \o ItemsOf("routine", p, kids.routines)
       \o <<Item("backlogs", p, None)>> \o ItemsOf("backlog", p, kids.backlog)
       \o <<Item("issues", p, None)>> \o ItemsOf("issue", p, kids.live)
       \o <<Item("archive", p, None)>>
       \o IF p \in u.archive
          THEN ItemsOf("archived", p, FirstOf(kids.archived, ArchiveLimit))
          ELSE <<>>

TreeRows(u) == FlattenSeq([n \in DOMAIN u.projects |-> RowsOf(u, u.projects[n])])

\* selected_tree_item(): the row at the index of the cursor, if there is one.
TreeItem(u) == Then(TreeRows(u), LAMBDA rows : IF u.sel \in DOMAIN rows
                                               THEN rows[u.sel] ELSE Nothing)

RowIndexes(u, test(_)) ==
  Then(TreeRows(u), LAMBDA rows : {n \in DOMAIN rows : test(rows[n])})
First(S) == CHOOSE n \in S : \A m \in S : n <= m

\* step(): a move that stays in the list; 1 stands for an empty list too.
Stepped(n, delta, len) ==
  IF len = 0 THEN 1
  ELSE IF n + delta < 1 THEN 1 ELSE IF n + delta > len THEN len ELSE n + delta

\* selected_project_id(): the active project.
Active(u) == IF u.proj \in DOMAIN u.projects THEN u.projects[u.proj] ELSE None

\* sync_active_project(): the project of the row under the cursor.
SyncActive(u) ==
  LET at(p) == {n \in DOMAIN u.projects : u.projects[n] = p}
  IN Then(at(TreeItem(u).project),
          LAMBDA S : IF S = {} THEN u ELSE [u EXCEPT !.proj = First(S)])

ClampTree(u) == [u EXCEPT !.sel = Stepped(@, 0, Len(TreeRows(u)))]

\* select_tree_project, select_tree_backlog, select_tree_issue
SelectRow(u, test(_)) ==
  LET to(at) == IF at = {} THEN u ELSE [u EXCEPT !.sel = First(at)]
  IN Then(Then(RowIndexes(u, test), to), SyncActive)
SelectTree(u, k, i) ==
  LET test(row) == row.kind = k /\ (IF k = "project" THEN row.project ELSE row.id) = i
  IN SelectRow(u, test)

\* preserve_tree_issue_selection: the cursor follows an issue that is still
\* loaded, into the archive if need be.  An archived issue beyond the limit
\* of the archive has no row to go to.
PreserveIssue(u, p, i) ==
  LET kids == u.kids[p]
      old == i \in ToSet(kids.archived)
      v == [u EXCEPT !.expanded = @ \cup {p},
                     !.archive = IF old THEN @ \cup {p} ELSE @]
      test(row) == row = Item(IF old THEN "archived" ELSE "issue", p, i)
  IN IF i \notin ToSet(kids.live) \cup ToSet(kids.archived) THEN u
     ELSE Then(v, LAMBDA w : IF RowIndexes(w, test) = {} THEN w
                             ELSE SelectRow(w, test))

-----------------------------------------------------------------------------
(* The board of the active project                                         *)

ActiveKids(u) == IF Active(u) = None THEN NoChildren ELSE u.kids[Active(u)]

\* kanban_cards_with_runs, kanban_items_for_lane: the backlog by id, then the
\* live issues in their order.  Archived issues are not on the board.
Cards(u, lane) ==
  LET kids == ActiveKids(u)
      p == Active(u)
      shown == {b \in ToSet(kids.backlog) : kids.appr[b] # "dismissed"}
      here == {i \in ToSet(kids.live) : Lane(kids.stat[i]) = lane}
  IN (IF lane = 1 THEN ItemsOf("backlog", p, Sorted(shown, ById)) ELSE <<>>)
     \o ItemsOf("issue", p, Sorted(here, ByStatus(kids.stat)))

\* selected_kanban_item()
Card(u) == LET cards == Cards(u, u.lane)
           IN IF u.card \in DOMAIN cards THEN cards[u.card] ELSE Nothing

ClampKanban(u) == [u EXCEPT !.card = Stepped(@, 0, Len(Cards(u, u.lane)))]

-----------------------------------------------------------------------------
(* Selection                                                               *)

\* selected_context_item(): what a key acts on.  The open issue is not looked
\* at: in the detail pane it is the row of the tree.
ContextItem(u) == IF u.focus = "ProjectKanban" THEN Card(u) ELSE TreeItem(u)

IsIssue(item) == item.kind \in {"issue", "archived"}

\* Mutant of SelectedIssue: the open issue is whatever the cursor is on.
SelectedRow(u) ==
  IF IsIssue(ContextItem(u)) THEN ContextItem(u).id ELSE None

\* selected_issue_id(): the open issue, else the card, else the row.
SelectedIssue(u) ==
  IF u.focus = "IssueDetail" /\ u.detail # None THEN u.detail
  ELSE IF IsIssue(ContextItem(u)) THEN ContextItem(u).id ELSE None

\* selected_issue(): its status as loaded with the detail or with the rows.
SelectedStatus(u) ==
  IF u.focus = "IssueDetail" /\ u.detail # None THEN u.detailStatus
  ELSE IF IsIssue(ContextItem(u))
       THEN u.kids[ContextItem(u).project].stat[ContextItem(u).id] ELSE Absent

\* selected_issue_can_execute()
CanExecute == Actionable \cup {"PLAN_READY", "READY_TO_MERGE",
                               "CONFLICT_BLOCKED", "FAILED"}

\* capabilities(): which of the keys drill, delete, approve, execute and move
\* the console offers where it is.  None outside the overview is modelled.
Offers(u) ==
  LET item == ContextItem(u)
      onIssue == SelectedStatus(u)
      run == IF onIssue \in CanExecute THEN {"execute"} ELSE {}
      onBoard == CASE item.kind = "backlog" -> {"drill", "execute", "delete"}
                   [] item.kind = "issue" -> run \cup {"drill", "delete"}
                   [] OTHER -> {}
      inTree == CASE item.kind = "project" -> {"drill", "execute", "move", "delete"}
                  [] item.kind = "routine" -> {"approve", "delete", "execute"}
                  [] item.kind = "backlog" ->
                       {"move", "approve", "delete"}
                       \cup (IF u.kids[item.project].appr[item.id] # "consumed"
                             THEN {"execute"} ELSE {})
                  [] item.kind = "issue" -> run \cup {"drill", "move", "delete"}
                  [] item.kind = "archived" -> {"drill", "delete"}
                  [] OTHER -> {}
  IN IF u.view = "Config" \/ u.move THEN {}
     ELSE CASE u.focus = "IssueDetail" ->
                 run \cup (IF onIssue # Absent THEN {"delete"} ELSE {})
            [] u.focus = "ProjectKanban" -> onBoard
            [] u.focus = "ProjectDetail" ->
                 IF u.section = "Recovery" THEN {"execute"} ELSE {}
            [] OTHER -> inTree

-----------------------------------------------------------------------------
(* Refreshes                                                               *)

RefreshChildren(u, d, p) ==
  IF p = None THEN u ELSE [u EXCEPT !.kids[p] = Children(d, p)]

\* refresh_backlog, refresh_routines: the active project, and the cursor stays
\* at its index.
RefreshActive(u, d) == RefreshChildren(u, d, Active(u))

\* Mutant of RefreshIssues: the cursor stays at its index.
RefreshIssuesDrift(u, d) == RefreshChildren(u, d, Active(u))

\* refresh_issues: the active project, and the cursor follows its issue.
RefreshIssues(u, d) ==
  LET follow(v, item) == PreserveIssue(v, item.project, item.id)
  IN Then(RefreshActive(u, d),
          LAMBDA v : IF IsIssue(TreeItem(u)) THEN follow(v, TreeItem(u)) ELSE v)

\* refresh_issue_runs_and_tail
RefreshRuns(u) == [u EXCEPT !.runs = SelectedIssue(u)]

\* Mutant of RefreshDetail: the runs stay those loaded last.
RefreshDetailOnly(u, d) ==
  LET i == SelectedIssue(u)
  IN [u EXCEPT !.detail = IF i = None THEN None
                          ELSE IF d.issue[i] = Absent THEN None ELSE i,
               !.detailStatus = IF i = None THEN Absent ELSE d.issue[i]]

\* refresh_detail: the selected issue, or nothing if its row is gone.
RefreshDetail(u, d) ==
  LET load(i) == [u EXCEPT !.detail = IF d.issue[i] # Absent THEN i ELSE None,
                           !.detailStatus = d.issue[i]]
  IN Then(SelectedIssue(u),
          LAMBDA i : IF i # None THEN Then(load(i), RefreshRuns)
                     ELSE [u EXCEPT !.detail = None, !.detailStatus = Absent,
                                    !.runs = None])

\* refresh_activity
RefreshActivity(u) == [u EXCEPT !.activity = Active(u)]

\* refresh_projects: caches of projects that are gone are dropped, and if no
\* project is expanded all are.
RefreshProjects(u, d) ==
  LET gone == {p \in Projects : p \notin ToSet(d.projects)}
      v == [u EXCEPT
             !.projects = d.projects,
             !.proj = IF @ > Len(d.projects) THEN Stepped(@, 0, Len(d.projects))
                      ELSE @,
             !.kids = [p \in Projects |-> IF p \in gone THEN NoChildren ELSE @[p]],
             !.expanded = @ \ gone,
             !.archive = @ \ gone]
  IN IF v.expanded = {} THEN [v EXCEPT !.expanded = ToSet(d.projects)] ELSE v

\* refresh_all
RefreshAll(u, d) ==
  LET v == RefreshProjects(u, d)
      w == [v EXCEPT !.kids = [p \in Projects |->
              IF p \in ToSet(d.projects) THEN Children(d, p) ELSE @[p]]]
      detail(x) == RefreshActivity(RefreshDetail(x, d))
  IN Then(Then(Then(w, ClampTree), SyncActive), detail)

=============================================================================
