----------------------------- MODULE ConfigRows -----------------------------
(***************************************************************************)
(* The configuration rows of the daemon and the commands that change them  *)
(* (crates/auwsx-core/src/ipc.rs dispatch_inner, db/projects.rs,           *)
(* db/arsenal.rs, db/memory_presets.rs, db/global_settings.rs,             *)
(* db/profiles.rs, db/remote.rs, routines.rs, backlog.rs).  A table is a   *)
(* function from the ids it holds to rows, a row a function from columns   *)
(* to texts, a column named as the console's field.  Blank is NULL, and in *)
(* a project's own command the empty text, which PROJECT_SELECT takes for  *)
(* NULL; in a preset's review command it does not, so that there the empty *)
(* text is, as white space is, one of the texts Trim makes blank.  Each    *)
(* command is an operator that returns the tables it may lead to: none     *)
(* when it is refused.                                                     *)
(***************************************************************************)
EXTENDS Naturals, Sequences, FiniteSets, SequencesExt, FiniteSetsExt

CONSTANTS
  NormalForm,  \* text -> the cadence stored for it, or Refused
  Trimmed,     \* text with blanks around it -> the text without them
  NameOrder    \* preset names, in the order SQLite sorts them

Blank == ""
Refused == "refused"

ASSUME RowsAssumption ==
  /\ Blank \in DOMAIN NormalForm /\ NormalForm[Blank] = Blank
  /\ \A t \in DOMAIN NormalForm :
       NormalForm[t] # Refused
         => /\ NormalForm[t] \in DOMAIN NormalForm
            /\ NormalForm[NormalForm[t]] = NormalForm[t]
            /\ NormalForm[t] \notin DOMAIN Trimmed
  /\ Blank \notin DOMAIN Trimmed
  /\ \A t \in DOMAIN Trimmed : Trimmed[t] \notin DOMAIN Trimmed

Trim(text) == IF text \in DOMAIN Trimmed THEN Trimmed[text] ELSE text
Trims(row) == [c \in DOMAIN row |-> Trim(row[c])]
Void(text) == Trim(text) = Blank

\* normalize_cadence_input, in the client and once more in the daemon: what
\* either refuses is not stored.
Normal(text) == IF text \in DOMAIN NormalForm THEN NormalForm[text] ELSE Refused

Commands == {"main_cmd", "route_cmd", "plan_cmd", "work_cmd", "review_cmd"}
Cadences == {"schedule_cron", "deepsleep_cron"}
MemoryOps == {"retrieve", "save", "dream", "deepsleep"}

\* The columns AddProject leaves to their defaults.
ProjectDefaults ==
  [main_cmd |-> Blank, route_cmd |-> Blank, plan_cmd |-> Blank,
   work_cmd |-> Blank, review_cmd |-> Blank, arsenal |-> Blank,
   completion |-> "manual", plan_gate |-> "10", merge_delay |-> "60",
   iter_timeout |-> "30", main_job_timeout |-> "60", review_rounds |-> "5",
   conflict_attempts |-> "3", concurrency |-> "3", schedule_cron |-> Blank,
   merge_mode |-> "local", skill_path |-> Blank,
   deepsleep_cron |-> "0 0 * * 0"]

\* SQLite gives a new row the largest id in use plus one.
NewId(table) == IF DOMAIN table = {} THEN 1 ELSE Max(DOMAIN table) + 1
With(table, id, row) == [x \in DOMAIN table \cup {id} |->
                           IF x = id THEN row ELSE table[x]]
Without(table, ids) == [x \in DOMAIN table \ ids |-> table[x]]
Owned(table, p) == {x \in DOMAIN table : table[x].project = p}

\* No other row of the table has the name.
NameFree(table, id, name) ==
  \A x \in DOMAIN table \ {id} : table[x].name # name

Required == {"name", "repo_path", "branch"}
ProjectColumns == Required \cup DOMAIN ProjectDefaults
PresetColumns == Commands \cup {"name"}
GlobalColumns == {"memory_preset", "pipeline_ux_guidance"}

-----------------------------------------------------------------------------
(* The commands a project runs its agents with                             *)

FirstGiven(texts) == LET given == {n \in DOMAIN texts : texts[n] # Blank}
                     IN IF given = {} THEN Blank ELSE texts[Min(given)]

\* The role's command: the project's own, else its preset's; a route or a
\* review without one runs the work command.  What is there wins, whether or
\* not it says anything.
Command(d, p, c) ==
  LET own(x) == d.project[p][x]
      link == d.project[p].arsenal
      preset(x) == IF link \in DOMAIN d.preset THEN d.preset[link][x] ELSE Blank
      both(x) == <<own(x), preset(x)>>
  IN FirstGiven(IF c \in {"route_cmd", "review_cmd"}
                THEN both(c) \o both("work_cmd") ELSE both(c))

\* A route the command does not give is the work command; with a preset, even
\* one whose name is white space, it stays away.
RouteGiven(row) ==
  IF Void(row.route_cmd) /\ row.arsenal = Blank
  THEN [row EXCEPT !.route_cmd = row.work_cmd] ELSE row

ValidSourceNamed(d, row) ==
  row.arsenal # Blank \/ \A c \in Commands \ {"review_cmd"} : ~Void(row[c])
ValidSource(d, row) ==
  IF row.arsenal # Blank THEN row.arsenal \in DOMAIN d.preset
  ELSE \A c \in Commands \ {"review_cmd"} : ~Void(row[c])

ValidCadences(row) == \A c \in Cadences : Normal(row[c]) # Refused
Stored(row) == [c \in DOMAIN row |-> CASE c \in Cadences -> Normal(row[c])
                                      [] c = "arsenal" -> Trim(row[c])
                                      [] OTHER -> row[c]]

-----------------------------------------------------------------------------
(* Projects                                                                *)

InProfile(d, pr) == {p \in DOMAIN d.place : d.place[p].profile = pr}
LastPlace(d, pr) ==
  [profile |-> pr,
   order |-> Max({0} \cup {d.place[p].order : p \in InProfile(d, pr)}) + 1]

\* Joined to the profile 1, whose order the console's list starts with.
AddProject(d, given) ==
  LET row == RouteGiven([c \in DOMAIN given \cup DOMAIN ProjectDefaults |->
                           IF c \in DOMAIN given THEN given[c]
                           ELSE ProjectDefaults[c]])
      id == NewId(d.project)
  IN IF /\ ValidSource(d, Stored(row)) /\ ValidCadences(row)
        /\ NameFree(d.project, id, row.name)
     THEN {[d EXCEPT !.project = With(@, id, Stored(row)),
                     !.place = With(@, id, LastPlace(d, 1))]}
     ELSE {}

\* Every column is replaced by the command's.
UpdateProject(d, p, given) ==
  LET row == RouteGiven(given)
  IN IF /\ ValidSource(d, Stored(row)) /\ ValidCadences(row)
        /\ p \in DOMAIN d.project /\ NameFree(d.project, p, row.name)
     THEN {[d EXCEPT !.project[p] = Stored(row)]} ELSE {}

\* What belongs to the project goes with it.
RemoveProject(d, p) ==
  IF p \notin DOMAIN d.project THEN {}
  ELSE {[d EXCEPT !.project = Without(@, {p}), !.place = Without(@, {p}),
                  !.remote = Without(@, {p}),
                  !.backlog = Without(@, Owned(@, p)),
                  !.routine = Without(@, Owned(@, p)),
                  !.issue = Without(@, Owned(@, p)),
                  !.ask = Without(@, Owned(@, p)),
                  !.note = Without(@, {n \in DOMAIN @ :
                                         @[n].issue \in Owned(d.issue, p)})]}

\* list(): by profile, by order in it, by id.
Before(d, p, q) ==
  LET a == d.place[p]
      b == d.place[q]
  IN \/ a.profile < b.profile
     \/ a.profile = b.profile /\ a.order < b.order
     \/ a = b /\ p < q
ListedProjects(d) ==
  SetToSortSeq(DOMAIN d.project, LAMBDA p, q : Before(d, p, q))

MoveProjectToProfile(d, p, pr) ==
  IF p \in DOMAIN d.project /\ pr \in DOMAIN d.profile
  THEN {[d EXCEPT !.place[p] = LastPlace(d, pr)]} ELSE {}

\* The project and its neighbour exchange their orders.
MoveProjectInProfile(d, p, step) ==
  IF p \notin DOMAIN d.project THEN {}
  ELSE LET mates == SelectSeq(ListedProjects(d),
                      LAMBDA q : d.place[q].profile = d.place[p].profile)
           at == CHOOSE i \in DOMAIN mates : mates[i] = p
           next == IF step = "up" THEN Max({at - 1, 1})
                   ELSE Min({at + 1, Len(mates)})
           q == mates[next]
       IN {[d EXCEPT !.place[p].order = d.place[q].order,
                     !.place[q].order = d.place[p].order]}

CreateProfile(d, name) ==
  IF \E pr \in DOMAIN d.profile : d.profile[pr] = name THEN {}
  ELSE {[d EXCEPT !.profile = With(@, NewId(@), name)]}
RenameProfile(d, pr, name) ==
  IF \/ pr \notin DOMAIN d.profile
     \/ \E x \in DOMAIN d.profile \ {pr} : d.profile[x] = name
  THEN {} ELSE {[d EXCEPT !.profile[pr] = name]}

-----------------------------------------------------------------------------
(* Presets and settings of the whole daemon                                *)

\* A preset the user writes is no longer built in.  Of its commands nobody
\* looks at the review one.
UpsertArsenalPreset(d, given) ==
  LET name == Trim(given.name)
      row == [given EXCEPT !.name = name,
                           !.route_cmd = IF Void(@) THEN given.work_cmd ELSE @]
  IN IF name # Blank /\ \A c \in Commands \ {"review_cmd"} : ~Void(row[c])
     THEN {[d EXCEPT !.preset = With(@, name, row), !.builtin = @ \ {name}]}
     ELSE {}

\* list(): the built in ones first, then by name.
ListedPresets(d) ==
  LET names(S) == SelectSeq(NameOrder, LAMBDA n : n \in S)
  IN names(DOMAIN d.preset \cap d.builtin) \o names(DOMAIN d.preset \ d.builtin)

\* kind and cmd say of each operation how it is done and by which command.
ValidMemory(name, kind, cmd) ==
  /\ ~Void(name)
  /\ \A op \in MemoryOps : /\ kind[op] \in {"portable", "command", "auwsx_skill"}
                           /\ kind[op] = "command" => ~Void(cmd[op])
UpsertMemoryPreset(d, name, kind, cmd) ==
  IF ValidMemory(name, kind, cmd)
  THEN {[d EXCEPT !.memory = @ \cup {Trim(name)}]} ELSE {}

\* TooLong stands for a guidance of more than 16384 characters.
TooLong == "too long"
UpdateGlobalSettings(d, row) ==
  IF /\ Trim(row.memory_preset) \in d.memory
     /\ Trim(row.pipeline_ux_guidance) # TooLong
  THEN {[d EXCEPT !.global = Trims(row)]} ELSE {}

-----------------------------------------------------------------------------
(* The remote repository, routines and backlog items of a project          *)

ValidRemote(row) ==
  /\ \A c \in {"remote_url", "remote_owner", "remote_repo",
               "remote_api_base_url"} : ~Void(row[c])
  /\ row.remote_auth_kind # "none" => ~Void(row.remote_auth_ref)
UpsertProjectRemoteConfig(d, p, row) ==
  IF p \in DOMAIN d.project /\ ValidRemote(row)
  THEN {[d EXCEPT !.remote = With(@, p, Trims(row))]} ELSE {}

DeleteProjectRemoteConfig(d, p) == {[d EXCEPT !.remote = Without(@, {p})]}

RoutineNameFree(d, id, p, name) ==
  \A r \in Owned(d.routine, p) \ {id} : d.routine[r].name # name

\* The row's cadence is stored as it is given.
CreateRoutine(d, p, row) ==
  IF p \in DOMAIN d.project /\ RoutineNameFree(d, 0, p, row.name)
  THEN {[d EXCEPT !.routine =
           With(@, NewId(@), [c \in DOMAIN row \cup {"project"} |->
                                IF c = "project" THEN p ELSE row[c]])]}
  ELSE {}
UpdateRoutineAnew(d, r, row) ==
  IF r \in DOMAIN d.routine
  THEN {[d EXCEPT !.routine[r] = [c \in DOMAIN @ |->
           CASE c = "project" -> @[c] [] c = "enabled" -> "true"
             [] OTHER -> row[c]]]}
  ELSE {}
UpdateRoutine(d, r, row) ==
  IF /\ r \in DOMAIN d.routine
     /\ RoutineNameFree(d, r, d.routine[r].project, row.name)
  THEN {[d EXCEPT !.routine[r] = [c \in DOMAIN @ |-> IF c = "project" THEN @[c]
                                                     ELSE row[c]]]}
  ELSE {}
RemoveRoutine(d, r) ==
  IF r \in DOMAIN d.routine THEN {[d EXCEPT !.routine = Without(@, {r})]} ELSE {}

AddBacklog(d, p, text) ==
  IF p \in DOMAIN d.project
  THEN {[d EXCEPT !.backlog = With(@, NewId(@),
           [project |-> p, text |-> text, consumed |-> FALSE])]}
  ELSE {}
UpdateBacklogText(d, b, text) ==
  IF b \in DOMAIN d.backlog /\ ~d.backlog[b].consumed
  THEN {[d EXCEPT !.backlog[b].text = text]} ELSE {}
\* Routing has made an issue of the item.
ConsumeBacklog(d, b) ==
  IF b \in DOMAIN d.backlog /\ ~d.backlog[b].consumed
  THEN {[d EXCEPT !.backlog[b].consumed = TRUE]} ELSE {}

\* A message of the human to an issue that takes one; an issue moves on to one
\* that does not ("busy") or to its end ("closed").
AddSteering(d, i, text) ==
  IF i \in DOMAIN d.issue /\ d.issue[i].state = "listens"
  THEN {[d EXCEPT !.note = With(@, NewId(@), [issue |-> i, text |-> text])]}
  ELSE {}
MoveIssue(d, i, state) ==
  IF i \in DOMAIN d.issue THEN {[d EXCEPT !.issue[i].state = state]} ELSE {}

\* The answer is written whatever the memory commands and the agent found;
\* one that could not be asked is refused.
AskProject(d, p, mode, text) ==
  IF p \in DOMAIN d.project
  THEN {[d EXCEPT !.ask = With(@, NewId(@),
           [project |-> p, mode |-> mode, question |-> text])]}
  ELSE {}

=============================================================================
