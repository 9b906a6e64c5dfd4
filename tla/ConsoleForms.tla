---------------------------- MODULE ConsoleForms ----------------------------
(***************************************************************************)
(* The forms of the terminal console (crates/auwsx-tui/src/app.rs): opened *)
(* from the place under the cursor and the console's copies of the rows,   *)
(* filled with the keys, and submitted as one command of ConfigRows.  A    *)
(* form keeps the keys to itself, but not the daemon's events: beside it   *)
(* the copies are refreshed and the cursor, an index, may come to rest on  *)
(* another row, while other clients change the rows.  An answer of the     *)
(* daemon may be lost.  Fields are named by their labels.                  *)
(***************************************************************************)
EXTENDS ConfigRows

CONSTANTS
  InitRows,    \* the daemon's rows at first
  Alike,       \* <<query, name>>: the name holds the query, in any case
  Repos,       \* the repositories the background scan found
  Entered,     \* bound: label -> values the user gives it
  Integers,    \* texts that parse as an integer
  Others,      \* commands other clients may give
  Rests,       \* bound: rows a displaced cursor is followed to
  MaxEdits,    \* bound: fields given another value
  MaxSubmits,  \* bound: forms submitted
  MaxOthers,   \* bound: changes by other clients
  MaxLost      \* bound: answers lost

VARIABLES
  db,    \* the daemon's rows
  copy,  \* the console's copies of them
  at,    \* the place under the cursor
  proj,  \* index of the active project in the copied list
  form,  \* the open form, or NoForm
  edits, submits, others, lost

bounds == <<edits, submits, others, lost>>
vars == <<db, copy, at, proj, form, edits, submits, others, lost>>

-----------------------------------------------------------------------------
(* The forms                                                               *)

ConfigLabels ==
  <<"name", "repo_path", "branch", "arsenal", "completion", "plan_gate",
    "merge_delay", "iter_timeout", "main_job_timeout", "review_rounds",
    "conflict_attempts", "concurrency", "schedule_cron", "merge_mode",
    "skill_path", "deepsleep_cron">>
RemoteToggles ==
  <<"remote_inbound_auwsx_run", "remote_outbound_issue_create",
    "remote_pr_merge", "remote_agent_comments", "remote_subtask_comments",
    "remote_finding_comments", "remote_draft_pr">>
RemoteLabels ==
  <<"remote_provider", "remote_url", "remote_owner", "remote_repo",
    "remote_api_base_url", "remote_auth_kind", "remote_auth_ref",
    "remote_webhook_secret_ref">> \o RemoteToggles \o
  <<"remote_required_checks", "remote_default_labels",
    "remote_default_assignees", "remote_pr_base_branch">>
PresetLabels ==
  <<"name", "main_cmd", "route_cmd", "plan_cmd", "work_cmd", "review_cmd">>
RoutineLabels ==
  <<"name", "output", "cron", "prompt", "writable_paths", "enabled">>

Labels == [Project |-> <<"name", "repo_path", "branch", "arsenal",
                         "schedule_cron">>,
           ProjectConfig |-> ConfigLabels,
           ProjectRemoteConfig |-> RemoteLabels,
           ArsenalPreset |-> PresetLabels,
           Backlog |-> <<"text">>, BacklogEdit |-> <<"text">>,
           Routine |-> RoutineLabels, RoutineEdit |-> RoutineLabels,
           Ask |-> <<"mode", "question">>, QueueMessage |-> <<"note">>,
           GlobalSettings |-> <<"memory_preset", "pipeline_ux_guidance">>]
Kinds == DOMAIN Labels
Creates == {"Project", "Backlog", "Routine", "Ask", "QueueMessage"}

\* Labels that may be left blank.
Optional == {"schedule_cron", "skill_path", "remote_auth_ref",
             "remote_webhook_secret_ref", "remote_default_labels",
             "remote_default_assignees", "remote_pr_base_branch",
             "review_cmd", "writable_paths"}

Bool == <<"true", "false">>
SelectOptions ==
  [completion |-> <<"manual", "soft", "auto">>, merge_mode |-> <<"local", "pr">>,
   remote_provider |-> <<"github">>,
   remote_auth_kind |-> <<"none", "token_env", "github_app">>,
   remote_required_checks |-> <<"observe", "require_green">>,
   output |-> <<"report", "backlog", "memory">>, enabled |-> Bool,
   mode |-> <<"recall", "seek">>]
Options(l) == CASE l \in DOMAIN SelectOptions -> SelectOptions[l]
                [] l \in ToSet(RemoteToggles) -> Bool
                [] OTHER -> <<>>
ClosedCombos == {"arsenal", "memory_preset"}
AcceptsInput(l) == Options(l) = <<>> /\ l \notin ClosedCombos
Numbers == {"plan_gate", "merge_delay", "iter_timeout", "main_job_timeout",
            "review_rounds", "conflict_attempts", "concurrency"}

NoForm == [kind |-> "none"]
Open(f) == f.kind # "none"

\* row is the copied row the form was filled from, where there is one.
Filled(kind, target, row, given) ==
  [kind |-> kind, target |-> target, row |-> row,
   value |-> [l \in ToSet(Labels[kind]) |-> given[l]],
   current |-> IF kind = "Ask" THEN 2 ELSE 1, mode |-> "Navigate", sel |-> 1,
   touched |-> {}]
Blanks(kind) == [l \in ToSet(Labels[kind]) |-> Blank]
NoRow == [project |-> 0]

Label(f) == Labels[f.kind][f.current]
FieldCount(f) == Len(Labels[f.kind])

\* The value of the current field is replaced.
WithValue(f, v) == [f EXCEPT !.value[Label(f)] = v, !.sel = 1,
                             !.touched = @ \cup {Label(f)}]
MoveField(f, delta) ==
  [f EXCEPT !.current = Min({Max({f.current + delta, 1}), FieldCount(f)}), !.sel = 1]

Updates == Kinds \ Creates
FormFields == {"kind", "target", "row", "value", "current", "mode", "sel", "touched"}

-----------------------------------------------------------------------------
(* The rows the daemon may hold                                            *)

\* A table whose ids SQLite numbers.
Numbered(table, columns) ==
  /\ IsFiniteSet(DOMAIN table) /\ DOMAIN table \subseteq Nat
  /\ \A x \in DOMAIN table : DOMAIN table[x] = columns

ProjectOK(d, row) == /\ DOMAIN row = ProjectColumns
                     /\ ValidSource(d, row)
                     /\ \A c \in Cadences : /\ row[c] # Refused
                                            /\ Normal(row[c]) = row[c]
PresetOK(row) == /\ DOMAIN row = PresetColumns
                 /\ \A c \in Commands \ {"review_cmd"} : ~Void(row[c])

\* Every column is there, the cadences are normal forms, and the commands of a
\* project and of a preset are those validate_agent_source asks for.
RowsOK(d) ==
  /\ DOMAIN d = {"project", "place", "profile", "preset", "builtin", "memory",
                 "global", "remote", "backlog", "routine", "issue", "ask", "note"}
  /\ Numbered(d.project, ProjectColumns)
  /\ \A p \in DOMAIN d.project : ProjectOK(d, d.project[p])
  /\ \A n \in DOMAIN d.preset : PresetOK(d.preset[n])
  /\ DOMAIN d.global = GlobalColumns
  /\ \A p \in DOMAIN d.remote : DOMAIN d.remote[p] = ToSet(RemoteLabels)
  /\ Numbered(d.backlog, {"project", "text", "consumed"})
  /\ Numbered(d.routine, {"project"} \cup ToSet(RoutineLabels))
  /\ Numbered(d.ask, {"project", "mode", "question"})
  /\ Numbered(d.note, {"issue", "text"})

\* A command carries the columns of what it writes (ipc.rs, Command).
Carries(c) ==
  /\ c.cmd = "AddProject" => /\ Required \subseteq DOMAIN c.row
                             /\ DOMAIN c.row \subseteq ProjectColumns
  /\ c.cmd = "UpdateProject" => DOMAIN c.row = ProjectColumns
  /\ c.cmd = "UpsertArsenalPreset" => DOMAIN c.row = PresetColumns
  /\ c.cmd = "UpdateGlobalSettings" => DOMAIN c.row = GlobalColumns
  /\ c.cmd = "UpsertProjectRemoteConfig" => DOMAIN c.row = ToSet(RemoteLabels)

ASSUME FormsAssumption == RowsOK(InitRows) /\ \A c \in Others : Carries(c)

-----------------------------------------------------------------------------
(* The console's copies                                                    *)

SelectedProject(c, n) == IF n \in DOMAIN c.listed THEN c.listed[n] ELSE 0
SameName(a, b) == <<a, b>> \in Alike /\ <<b, a>> \in Alike

\* find_arsenal_preset: the first whose name is the same but for case.
FindPreset(c, name) ==
  FirstGiven(SelectSeq(c.presets, LAMBDA n : SameName(name, n)))

\* project_matching_arsenal, for a project without a preset of its own.
MatchingPreset(c, row) ==
  FirstGiven(SelectSeq(c.presets, LAMBDA n :
    \A x \in Commands : row[x] = c.preset[n][x]))

\* The part of a table that belongs to the project, asked anew.
Renewed(old, new, p) ==
  [x \in (DOMAIN old \ Owned(old, p)) \cup Owned(new, p) |->
     IF x \in Owned(new, p) THEN new[x] ELSE old[x]]
RefreshRemote(c, d, p) ==
  [c EXCEPT !.remote = IF p \in DOMAIN d.remote THEN With(@, p, d.remote[p])
                       ELSE Without(@, {p})]
RefreshChildren(c, d, p) ==
  IF p = 0 THEN c
  ELSE [RefreshRemote(c, d, p) EXCEPT
          !.routine = Renewed(@, d.routine, p),
          !.backlog = Renewed(@, d.backlog, p),
          !.issue = Renewed(@, d.issue, p)]
RefreshProjects(c, d) ==
  LET gone(t) == Without(t, {x \in DOMAIN t : t[x].project \notin DOMAIN d.project})
  IN [c EXCEPT !.listed = ListedProjects(d), !.project = d.project,
               !.remote = Without(@, DOMAIN @ \ DOMAIN d.project),
               !.routine = gone(@), !.backlog = gone(@), !.issue = gone(@)]
RefreshArsenal(c, d) ==
  [c EXCEPT !.presets = ListedPresets(d), !.preset = d.preset]
RefreshGlobal(c, d) == [c EXCEPT !.global = d.global]

\* refresh_all, the load before the first frame.
Loaded(d) ==
  [listed |-> ListedProjects(d), project |-> d.project,
   presets |-> ListedPresets(d), preset |-> d.preset, memory |-> d.memory,
   global |-> d.global, remote |-> d.remote, routine |-> d.routine,
   backlog |-> d.backlog, issue |-> d.issue]

Place(on, id, name) == [on |-> on, id |-> id, name |-> name]
\* The rows of the tree, the panes and the settings list.
Places(c) ==
  UNION {{Place(on, p, Blank) : on \in {"project", "projectDetail",
                                        "backlogRoot", "routinesRoot"}}
           : p \in ToSet(c.listed)}
    \cup {Place("backlog", b, Blank) : b \in DOMAIN c.backlog}
    \cup {Place("card", b, Blank) : b \in DOMAIN c.backlog}
    \cup {Place("routine", r, Blank) : r \in DOMAIN c.routine}
    \cup {Place("issue", i, Blank) : i \in DOMAIN c.issue}
    \cup {Place("preset", 0, n) : n \in ToSet(c.presets)}
    \cup {Place(on, 0, Blank) : on \in {"arsenal", "memory", "guidance",
                                        "reviewOnly"}}
Settings == {"preset", "arsenal", "memory", "guidance", "reviewOnly"}
ProjectOf(c, pl) ==
  CASE pl.on \in {"project", "projectDetail", "backlogRoot", "routinesRoot"} -> pl.id
    [] pl.on \in {"backlog", "card"} -> c.backlog[pl.id].project
    [] pl.on = "routine" -> c.routine[pl.id].project
    [] pl.on = "issue" -> c.issue[pl.id].project
    [] OTHER -> 0
Empty == Place("empty", 0, Blank)

-----------------------------------------------------------------------------
(* Opening a form                                                          *)

Defaults ==
  [remote_provider |-> "github", remote_url |-> Blank, remote_owner |-> Blank,
   remote_repo |-> Blank, remote_api_base_url |-> "https://api.github.com",
   remote_auth_kind |-> "token_env", remote_auth_ref |-> Blank,
   remote_webhook_secret_ref |-> Blank, remote_required_checks |-> "observe",
   remote_default_labels |-> Blank, remote_default_assignees |-> Blank,
   remote_pr_base_branch |-> Blank]
RemoteDefaults == [l \in ToSet(RemoteLabels) |->
                     IF l \in ToSet(RemoteToggles) THEN "false" ELSE Defaults[l]]

DefaultPreset(c) == IF "codex" \in ToSet(c.presets) THEN "codex"
                    ELSE FirstGiven(c.presets)
NewProjectForm(c) ==
  Filled("Project", 0, NoRow,
         [name |-> Blank, repo_path |-> "cwd", branch |-> "main",
          arsenal |-> DefaultPreset(c), schedule_cron |-> "@tick"])
ProjectConfigForm(c, p) ==
  LET row == c.project[p]
  IN Filled("ProjectConfig", p, row,
            IF row.arsenal # Blank THEN row
            ELSE [row EXCEPT !.arsenal = MatchingPreset(c, row)])
RemoteForm(c, p) ==
  IF p \in DOMAIN c.remote
  THEN Filled("ProjectRemoteConfig", p, c.remote[p], c.remote[p])
  ELSE Filled("ProjectRemoteConfig", p, NoRow, RemoteDefaults)
PresetForm(c, name) ==
  IF name = Blank
  THEN Filled("ArsenalPreset", 0, NoRow,
              [l \in ToSet(PresetLabels) |->
                 IF l \in {"name", "review_cmd"} THEN Blank ELSE "codex exec"])
  ELSE Filled("ArsenalPreset", 0, c.preset[name], c.preset[name])
NewForm(kind) ==
  Filled(kind, 0, NoRow,
         CASE kind = "Routine" ->
                [name |-> Blank, output |-> "report", cron |-> "0 9 * * *",
                 prompt |-> Blank, writable_paths |-> Blank, enabled |-> "true"]
           [] kind = "Ask" -> [mode |-> "recall", question |-> Blank]
           [] OTHER -> Blanks(kind))
GlobalForm(c) == Filled("GlobalSettings", 0, c.global, c.global)

\* open_context_add_form, where the place offers it.
AddForm(c, pl) ==
  CASE pl.on \in {"empty", "project"} -> NewProjectForm(c)
    [] pl.on \in {"projectDetail", "backlogRoot", "backlog", "card"} -> NewForm("Backlog")
    [] pl.on = "routinesRoot" -> NewForm("Routine")
    [] pl.on = "issue" /\ c.issue[pl.id].state = "listens" -> NewForm("QueueMessage")
    [] pl.on = "arsenal" -> PresetForm(c, Blank)
    [] OTHER -> NoForm

\* apply(EditSelected), and Drill on a row of the settings.  A project is the
\* active one, whatever the row.
EditForm(c, pl, p) ==
  CASE pl.on \in {"project", "projectDetail"} /\ p # 0 -> ProjectConfigForm(c, p)
    [] pl.on = "backlog" /\ ~c.backlog[pl.id].consumed ->
         Filled("BacklogEdit", pl.id, c.backlog[pl.id], c.backlog[pl.id])
    [] pl.on = "routine" ->
         Filled("RoutineEdit", pl.id, c.routine[pl.id], c.routine[pl.id])
    [] pl.on = "preset" -> PresetForm(c, pl.name)
    [] pl.on = "arsenal" -> PresetForm(c, Blank)
    [] pl.on \in {"memory", "guidance"} -> GlobalForm(c)
    [] OTHER -> NoForm

Init ==
  /\ db = InitRows /\ copy = Loaded(InitRows)
  /\ at = IF copy.listed = <<>> THEN Empty
          ELSE Place("project", Head(copy.listed), Blank)
  /\ proj = 1 /\ form = NoForm
  /\ edits = 0 /\ submits = 0 /\ others = 0 /\ lost = 0

\* The user moves the cursor, which the active project follows in the tree.
MoveCursor ==
  /\ ~Open(form)
  /\ at' \in Places(copy) \ {at}
  /\ proj' = IF at'.on \in Settings THEN proj
             ELSE CHOOSE n \in DOMAIN copy.listed :
                    copy.listed[n] = ProjectOf(copy, at')
  /\ UNCHANGED <<db, copy, form, bounds>>

Opens(f) == Open(f) /\ form' = f
KeyAdd == /\ ~Open(form) /\ Opens(AddForm(copy, at))
          /\ UNCHANGED <<db, copy, at, proj, bounds>>
KeyEdit ==
  /\ ~Open(form) /\ Opens(EditForm(copy, at, SelectedProject(copy, proj)))
  /\ UNCHANGED <<db, copy, at, proj, bounds>>
KeyAsk ==
  /\ ~Open(form) /\ at.on \notin Settings \cup {"card", "empty"}
  /\ SelectedProject(copy, proj) # 0 /\ Opens(NewForm("Ask"))
  /\ UNCHANGED <<db, copy, at, proj, bounds>>
\* Its configuration is asked anew first.
KeyRemote ==
  /\ ~Open(form) /\ at.on \in {"project", "projectDetail"}
  /\ LET p == SelectedProject(copy, proj)
     IN /\ p # 0 /\ copy' = RefreshRemote(copy, db, p)
        /\ Opens(RemoteForm(copy', p))
  /\ UNCHANGED <<db, at, proj, bounds>>

-----------------------------------------------------------------------------
(* The keys of an open form                                                *)

\* active_suggestions of the current field; a path shows none.
Matching(names, q) ==
  SelectSeq(names, LAMBDA n : q = Blank \/ <<q, n>> \in Alike)
Suggestions(f) ==
  LET l == Label(f)
  IN CASE l = "repo_path" -> Matching(Repos, f.value[l])
       [] l = "arsenal" -> Matching(copy.presets, f.value[l])
       [] l = "memory_preset" ->
            Matching(SelectSeq(NameOrder, LAMBDA n : n \in copy.memory), f.value[l])
       [] OTHER -> <<>>

InForm == Open(form) /\ UNCHANGED <<db, copy, at, proj, submits, others, lost>>
Navigating == InForm /\ form.mode = "Navigate"
Counted == edits < MaxEdits /\ edits' = edits + 1
Values(f) == IF Label(f) \in DOMAIN Entered
             THEN Entered[Label(f)] \ {f.value[Label(f)]} ELSE {}

\* A preset takes its own spelling, whatever was suggested.
Accepted(f, v) ==
  IF Label(f) = "arsenal"
  THEN [f EXCEPT !.value["arsenal"] = FindPreset(copy, v),
                 !.touched = @ \cup {"arsenal"}]
  ELSE WithValue(f, v)

\* Tab takes the suggestion highlighted.
KeyComplete ==
  /\ InForm
  /\ LET s == Suggestions(form)
     IN s # <<>> /\ form' = Accepted(form, s[Min({form.sel, Len(s)})])
  /\ Counted

\* Down and Up move the highlight while there are suggestions.
Highlighted(f, delta) ==
  [f EXCEPT !.sel = Min({Max({@ + delta, 1}), Len(Suggestions(f))})]
KeyDown ==
  /\ InForm /\ UNCHANGED edits
  /\ IF Suggestions(form) # <<>> THEN form' = Highlighted(form, 1)
     ELSE form.mode = "Navigate" /\ form' = MoveField(form, 1)
KeyUp ==
  /\ InForm /\ UNCHANGED edits
  /\ IF Suggestions(form) # <<>> THEN form' = Highlighted(form, -1)
     ELSE form.mode = "Navigate" /\ form' = MoveField(form, -1)
KeyBackTab == Navigating /\ form' = MoveField(form, -1) /\ UNCHANGED edits

\* The arrows, Space and the first letter of an option.
KeyChoose ==
  /\ Navigating /\ Counted
  /\ \E v \in ToSet(Options(Label(form))) \cap Values(form) :
       form' = WithValue(form, v)

KeyEnter == /\ Navigating /\ AcceptsInput(Label(form))
            /\ form' = [form EXCEPT !.mode = "Edit"] /\ UNCHANGED edits
KeyDone == /\ InForm /\ form.mode = "Edit"
           /\ form' = [form EXCEPT !.mode = "Navigate"] /\ UNCHANGED edits

\* Characters typed and deleted, until the text is another.
KeyType ==
  /\ InForm /\ form.mode = "Edit" /\ Counted
  /\ \E v \in Values(form) :
       form' = [form EXCEPT !.value[Label(form)] = v,
                            !.touched = @ \cup {Label(form)}]

KeyCancel == Navigating /\ form' = NoForm /\ UNCHANGED edits

-----------------------------------------------------------------------------
(* Submitting                                                              *)

\* Form::get: the fields are read without the blanks around them.
Got(f) == Trims(f.value)
Missing(f) == {l \in DOMAIN f.value : l \notin Optional /\ Got(f)[l] = Blank}

\* What the console checks itself before it sends anything.
Checked(f, p) ==
  /\ Missing(f) = {}
  /\ \A l \in DOMAIN f.value \cap Numbers : Got(f)[l] \in Integers
  /\ \A l \in DOMAIN f.value \cap Cadences : Normal(Got(f)[l]) # Refused
  /\ f.kind \in {"Project", "ProjectConfig"} =>
       FindPreset(copy, Got(f)["arsenal"]) # Blank
  /\ f.kind \in {"ProjectConfig", "Backlog", "Routine", "Ask"} => p # 0
  /\ f.kind = "ProjectRemoteConfig" /\ Got(f)["remote_auth_kind"] # "none" =>
       Got(f)["remote_auth_ref"] # Blank
  /\ f.kind = "GlobalSettings" =>
       /\ Got(f)["memory_preset"] \in copy.memory
       /\ Got(f)["pipeline_ux_guidance"] # TooLong
  /\ f.kind = "QueueMessage" => at.on = "issue" /\ copy.issue[at.id].state # "closed"

\* A project's own commands are sent blank, its preset as it is spelt.
ProjectRow(f) ==
  [c \in DOMAIN f.value \cup Commands |->
     CASE c \in Commands -> Blank
       [] c = "arsenal" -> FindPreset(copy, Got(f)[c])
       [] OTHER -> Got(f)[c]]

\* The row the command names: the one the form was opened on, else the project
\* active by now.
TargetActive(f, p) == p
Target(f, p) ==
  IF f.kind \in {"ProjectRemoteConfig", "BacklogEdit", "RoutineEdit"}
  THEN f.target ELSE p

\* What the form's command may lead to, with p the active project.
Results(f, p) ==
  CASE f.kind = "Project" -> AddProject(db, ProjectRow(f))
    [] f.kind = "ProjectConfig" -> UpdateProject(db, Target(f, p), ProjectRow(f))
    [] f.kind = "ProjectRemoteConfig" ->
         UpsertProjectRemoteConfig(db, Target(f, p), Got(f))
    [] f.kind = "ArsenalPreset" -> UpsertArsenalPreset(db, Got(f))
    [] f.kind = "GlobalSettings" -> UpdateGlobalSettings(db, Got(f))
    [] f.kind = "Backlog" -> AddBacklog(db, Target(f, p), Got(f)["text"])
    [] f.kind = "BacklogEdit" -> UpdateBacklogText(db, Target(f, p), Got(f)["text"])
    [] f.kind = "Routine" -> CreateRoutine(db, Target(f, p), Got(f))
    [] f.kind = "RoutineEdit" -> UpdateRoutine(db, Target(f, p), Got(f))
    [] f.kind = "Ask" ->
         AskProject(db, Target(f, p), Got(f)["mode"], Got(f)["question"])
    [] f.kind = "QueueMessage" -> AddSteering(db, at.id, Got(f)["note"])

\* A create that is not answered with success keeps its form, an update's form
\* is dropped whatever the answer.
FormAfterAny(f, ok) == NoForm
FormAfter(f, ok) == IF f.kind \in Creates /\ ~ok THEN f ELSE NoForm

\* Where an index into rows asked anew may come to rest: another row of the
\* tree; the settings list stays.
Resting(c) ==
  IF at.on \in Settings \/ c = copy THEN {at}
  ELSE LET rows == {pl \in Places(c) : pl = at \/ pl.on \in Rests}
       IN IF rows = {} THEN {Empty} ELSE rows

\* The copies asked anew after the answer.  After a project's create the last
\* of the list becomes the active one, and its row takes the cursor.
Refreshed(f, p) ==
  CASE f.kind = "Project" ->
         LET c == RefreshProjects(copy, db')
             n == Len(c.listed)
             q == SelectedProject(c, n)
         IN /\ copy' = RefreshChildren(c, db', q) /\ proj' = Max({n, 1})
            /\ at' = IF q = 0 THEN at ELSE Place("project", q, Blank)
    [] f.kind = "ProjectConfig" ->
         /\ copy' = RefreshProjects(copy, db')
         /\ proj' = Max({Min({proj, Len(copy'.listed)}), 1}) /\ at' \in Resting(copy')
    [] f.kind = "ProjectRemoteConfig" ->
         copy' = RefreshRemote(copy, db', f.target) /\ UNCHANGED <<at, proj>>
    [] f.kind = "ArsenalPreset" ->
         copy' = RefreshArsenal(copy, db') /\ UNCHANGED <<at, proj>>
    [] f.kind = "GlobalSettings" ->
         copy' = RefreshGlobal(copy, db') /\ UNCHANGED <<at, proj>>
    [] f.kind \in {"Backlog", "BacklogEdit", "Routine", "RoutineEdit",
                   "QueueMessage"} ->
         /\ copy' = RefreshChildren(copy, db', p) /\ UNCHANGED proj
         /\ at' \in Resting(copy')
    [] OTHER -> UNCHANGED <<copy, at, proj>>

\* E in the navigation of the form.  The answer, or the request, may be lost.
KeySubmit ==
  /\ Open(form) /\ form.mode = "Navigate" /\ submits < MaxSubmits
  /\ submits' = submits + 1 /\ UNCHANGED <<edits, others>>
  /\ LET p == SelectedProject(copy, proj)
     IN IF ~Checked(form, p)
        THEN UNCHANGED <<db, copy, at, proj, form, lost>>
        ELSE /\ \/ /\ db' \in Results(form, p) /\ UNCHANGED lost
                   /\ form' = FormAfter(form, TRUE)
                \/ /\ Results(form, p) = {} \/ form.kind = "Ask"
                   /\ form' = FormAfter(form, FALSE) /\ UNCHANGED <<db, lost>>
                \/ /\ lost < MaxLost /\ lost' = lost + 1
                   /\ db' \in Results(form, p) \cup {db}
                   /\ form' = FormAfter(form, FALSE)
             /\ Refreshed(form, p)

-----------------------------------------------------------------------------
(* The world beside the form                                               *)

\* What a command of another client may lead to: about the settings of the
\* daemon, about a project, about a row of a project.
SettingsCommand(c) ==
  CASE c.cmd = "UpsertArsenalPreset" -> UpsertArsenalPreset(db, c.row)
    [] c.cmd = "UpsertMemoryPreset" -> UpsertMemoryPreset(db, c.name, c.kind, c.row)
    [] c.cmd = "UpdateGlobalSettings" -> UpdateGlobalSettings(db, c.row)
    [] c.cmd = "CreateProfile" -> CreateProfile(db, c.name)
    [] c.cmd = "RenameProfile" -> RenameProfile(db, c.id, c.name)
    [] c.cmd = "MoveProjectToProfile" -> MoveProjectToProfile(db, c.id, c.to)
    [] c.cmd = "MoveProjectInProfile" -> MoveProjectInProfile(db, c.id, c.to)
    [] OTHER -> {}
ProjectCommand(c) ==
  CASE c.cmd = "AddProject" -> AddProject(db, c.row)
    [] c.cmd = "UpdateProject" -> UpdateProject(db, c.id, c.row)
    [] c.cmd = "RemoveProject" -> RemoveProject(db, c.id)
    [] c.cmd = "UpsertProjectRemoteConfig" ->
         UpsertProjectRemoteConfig(db, c.id, c.row)
    [] c.cmd = "DeleteProjectRemoteConfig" -> DeleteProjectRemoteConfig(db, c.id)
    [] OTHER -> {}
RowCommand(c) ==
  CASE c.cmd = "UpdateRoutine" -> UpdateRoutine(db, c.id, c.row)
    [] c.cmd = "RemoveRoutine" -> RemoveRoutine(db, c.id)
    [] c.cmd = "ConsumeBacklog" -> ConsumeBacklog(db, c.id)
    [] c.cmd = "MoveIssue" -> MoveIssue(db, c.id, c.name)
    [] OTHER -> {}

OtherClient ==
  /\ others < MaxOthers /\ others' = others + 1
  /\ \E c \in Others :
       db' \in (SettingsCommand(c) \cup ProjectCommand(c) \cup RowCommand(c)) \ {db}
  /\ UNCHANGED <<copy, at, proj, form, edits, submits, lost>>

\* An event: the children of a project are asked anew, and the cursor rests on
\* whatever row its index falls on, where the active project may follow it.
Event ==
  /\ \E p \in ToSet(copy.listed) : copy' = RefreshChildren(copy, db, p)
  /\ at' \in Resting(copy')
  /\ proj' \in {proj} \cup {n \in DOMAIN copy.listed :
                              copy.listed[n] = ProjectOf(copy', at')}
  /\ UNCHANGED <<db, form, bounds>>

\* What r loads.
Reload ==
  /\ ~Open(form) /\ copy # Loaded(db) /\ copy' = Loaded(db)
  /\ at' \in Resting(copy')
  /\ proj' = IF at'.on \in Settings \cup {"empty"} THEN proj
             ELSE CHOOSE n \in DOMAIN copy'.listed :
                    copy'.listed[n] = ProjectOf(copy', at')
  /\ UNCHANGED <<db, form, bounds>>

KeyOpen == KeyAdd \/ KeyEdit \/ KeyAsk \/ KeyRemote
KeyForm == \/ KeyComplete \/ KeyDown \/ KeyUp \/ KeyBackTab \/ KeyChoose
           \/ KeyEnter \/ KeyDone \/ KeyType \/ KeyCancel \/ KeySubmit
Next == MoveCursor \/ KeyOpen \/ KeyForm \/ OtherClient \/ Event \/ Reload

Spec == Init /\ [][Next]_vars

-----------------------------------------------------------------------------
(* Properties                                                              *)

\* What was read from a row is still in the fields the user did not change:
\* but for the preset of a project that has none.
FromRow(f) ==
  \A l \in DOMAIN f.value \ f.touched :
    \/ f.value[l] = f.row[l]
    \/ /\ f.kind = "ProjectConfig"
       /\ l \notin DOMAIN f.row \/ (l = "arsenal" /\ f.row.arsenal = Blank)

FormOK(f) ==
  \/ f = NoForm
  \/ /\ DOMAIN f = FormFields /\ f.kind \in Kinds
     /\ DOMAIN f.value = ToSet(Labels[f.kind])
     /\ f.kind \in Updates /\ f.row # NoRow => FromRow(f)

TypeOK == RowsOK(db) /\ FormOK(form)

TableOf == [ProjectRemoteConfig |-> "remote", BacklogEdit |-> "backlog",
            RoutineEdit |-> "routine", Project |-> "project",
            Backlog |-> "backlog", Routine |-> "routine", Ask |-> "ask",
            QueueMessage |-> "note"]
NewRows(t) == DOMAIN db'[t] \ DOMAIN db[t]

\* A form opened on one backlog item, routine or project's remote
\* configuration changes no other row, wherever events have moved the cursor
\* and the active project since (FormKind carries the id).
EditsTheirRow ==
  [][KeySubmit /\ form.kind \in {"ProjectRemoteConfig", "BacklogEdit", "RoutineEdit"}
     => LET t == TableOf[form.kind]
        IN /\ \A u \in DOMAIN db \ {t} : db'[u] = db[u]
           /\ \A x \in (DOMAIN db[t] \cup DOMAIN db'[t]) \ {form.target} :
                x \in DOMAIN db[t] /\ x \in DOMAIN db'[t]
                /\ db'[t][x] = db[t][x]]_vars

\* What the user wrote in the form of a create is given up only for a row that
\* holds it: a refused, lost or unreachable create leaves the draft open
\* (submit_create).
DraftKept ==
  [][KeySubmit /\ form.kind \in Creates /\ ~Open(form')
     => \E x \in NewRows(TableOf[form.kind]) :
          LET row == db'[TableOf[form.kind]][x]
              l == CASE form.kind \in {"Project", "Routine"} -> "name"
                     [] form.kind = "Backlog" -> "text"
                     [] form.kind = "Ask" -> "question"
                     [] form.kind = "QueueMessage" -> "note"
          IN Trim(form.value[l]) = (IF l = "note" THEN row.text ELSE row[l])]_vars

\* The row an update is about, where the tables hold it.
Known(d, f, p) ==
  CASE f.kind = "ProjectConfig" -> p \in DOMAIN d.project
    [] f.kind = "ArsenalPreset" -> f.row # NoRow /\ f.row.name \in DOMAIN d.preset
    [] f.kind = "GlobalSettings" -> TRUE
    [] f.kind \in {"ProjectRemoteConfig", "BacklogEdit", "RoutineEdit"} ->
         f.target \in DOMAIN d[TableOf[f.kind]]
    [] OTHER -> FALSE
RowOf(d, f, p) ==
  CASE f.kind = "ProjectConfig" -> d.project[p]
    [] f.kind = "ArsenalPreset" -> d.preset[f.row.name]
    [] f.kind = "GlobalSettings" -> d.global
    [] OTHER -> d[TableOf[f.kind]][f.target]

\* An update made from the row as it stands leaves every column whose field
\* the user did not change: reading a row into a form, parsing its texts and
\* normalizing them again in the daemon gives the row back, but for the blanks
\* around a text another client has stored with them (Form::get).  Only the
\* preset of a project without one, or with a namesake in another case, is
\* exempt.
UntouchedKept ==
  [][KeySubmit =>
       LET p == SelectedProject(copy, proj)
           exempt == IF /\ form.kind = "ProjectConfig"
                        /\ \/ form.row.arsenal = Blank
                           \/ FindPreset(copy, Trim(form.row.arsenal)) # form.row.arsenal
                     THEN {"arsenal"} ELSE {}
       IN Known(db, form, p) /\ RowOf(db, form, p) = form.row
          => \A l \in DOMAIN form.value \ (form.touched \cup exempt) :
               RowOf(db', form, p)[l] \in {form.row[l], Trim(form.row[l])}]_vars

\* Every project has a command for every role at every moment, whoever created
\* or reconfigured it and whatever became of its preset (validate_agent_source
\* and PROJECT_SELECT agree).  It says nothing only where nobody looks: a review
\* command, or a project's own one that stands before its preset's.
CommandsResolved ==
  \A p \in DOMAIN db.project, c \in Commands :
    LET cmd == Command(db, p, c)
    IN /\ cmd # Blank
       /\ Void(cmd) => \/ c = "review_cmd"
                       \/ /\ db.project[p].arsenal # Blank
                          /\ cmd = db.project[p][c]

=============================================================================
