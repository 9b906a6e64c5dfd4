------------------------- MODULE ConsoleFormsProofs -------------------------
(***************************************************************************)
(* Theorems about ConsoleForms, for every instance: any tables that hold   *)
(* together at first, any commands of other clients, any number of edits,  *)
(* submissions and lost answers.                                           *)
(***************************************************************************)
EXTENDS ConsoleForms, FiniteSetTheorems, WellFoundedInduction, TLAPS

-----------------------------------------------------------------------------
(* Ids and sequences                                                       *)

\* A finite set of numbers has a greatest one: the smallest of its parts that
\* had none could lose an element and still have none.
LEMMA Greatest ==
  ASSUME NEW S, S \subseteq Nat, IsFiniteSet(S), S # {}
  PROVE  \E x \in S : \A y \in S : x >= y
<1> DEFINE HasMax(T) == \E x \in T : \A y \in T : x >= y
           Bad == {T \in SUBSET S : T # {} /\ ~HasMax(T)}
           R == StrictSubsetOrdering(S)
<1>1. SUFFICES ASSUME Bad # {} PROVE FALSE
  OBVIOUS
<1>2. Bad \subseteq FiniteSubsetsOf(S)
  BY FS_Subset DEF FiniteSubsetsOf
<1>3. IsWellFoundedOn(R, FiniteSubsetsOf(S))
  BY FS_StrictSubsetOrderingWellFounded
<1>4. PICK T \in Bad : \A U \in Bad : ~(<<U, T>> \in R)
  BY <1>1, <1>2, <1>3, WFMin
<1>5. PICK x \in T : TRUE
  OBVIOUS
<1> DEFINE U == T \ {x}
<1>6. U \notin Bad
  <2>1. U \subseteq T /\ U # T
    BY <1>5
  <2>2. <<U, T>> \in R
    BY <2>1 DEF StrictSubsetOrdering
  <2> QED
    BY <1>4, <2>2
<1>7. U # {} /\ HasMax(U)
  <2>1. U # {}
    <3>1. SUFFICES ASSUME U = {} PROVE FALSE
      OBVIOUS
    <3>2. T = {x}
      BY <1>5, <3>1
    <3>3. HasMax(T)
      BY <1>5, <3>2
    <3> QED
      BY <3>3
  <2> QED
    BY <1>6, <2>1
<1>8. PICK m \in U : \A y \in U : m >= y
  BY <1>7
<1>9. HasMax(T)
  <2>1. m \in Nat /\ x \in Nat /\ T \subseteq Nat
    BY <1>5, <1>8
  <2>2. CASE m >= x
    BY <1>8, <2>1, <2>2
  <2>3. CASE ~(m >= x)
    BY <1>5, <1>8, <2>1, <2>3
  <2> QED
    BY <2>2, <2>3
<1> QED
  BY <1>9

\* A new row of a numbered table takes an id that is not in use.
LEMMA NewIdIsNew ==
  ASSUME NEW table, IsFiniteSet(DOMAIN table), DOMAIN table \subseteq Nat
  PROVE  NewId(table) \in Nat /\ NewId(table) \notin DOMAIN table
<1>1. CASE DOMAIN table = {}
  BY <1>1 DEF NewId
<1>2. CASE DOMAIN table # {}
  <2>1. \E x \in DOMAIN table : \A y \in DOMAIN table : x >= y
    BY <1>2, Greatest
  <2>2. /\ Max(DOMAIN table) \in DOMAIN table
        /\ \A y \in DOMAIN table : Max(DOMAIN table) >= y
    BY <2>1 DEF Max
  <2>3. NewId(table) = Max(DOMAIN table) + 1
    BY <1>2 DEF NewId
  <2> QED
    BY <2>2, <2>3
<1> QED
  BY <1>1, <1>2

\* A row written into a numbered table, and rows taken out of it.
LEMMA WithNumbered ==
  ASSUME NEW table, NEW columns, Numbered(table, columns), NEW id \in Nat,
         NEW row, DOMAIN row = columns
  PROVE  Numbered(With(table, id, row), columns)
<1>1. DOMAIN With(table, id, row) = DOMAIN table \cup {id}
  BY DEF With
<1>2. IsFiniteSet(DOMAIN table \cup {id})
  BY FS_AddElement DEF Numbered
<1> QED
  BY <1>1, <1>2 DEF With, Numbered

LEMMA WithoutNumbered ==
  ASSUME NEW table, NEW columns, Numbered(table, columns), NEW ids
  PROVE  Numbered(Without(table, ids), columns)
<1>1. DOMAIN Without(table, ids) = DOMAIN table \ ids
  BY DEF Without
<1>2. IsFiniteSet(DOMAIN table \ ids)
  BY FS_Subset DEF Numbered
<1> QED
  BY <1>1, <1>2 DEF Without, Numbered

\* A row of a numbered table that is changed and keeps its columns.
LEMMA ChangedNumbered ==
  ASSUME NEW table, NEW columns, Numbered(table, columns), NEW id, NEW row,
         DOMAIN row = columns
  PROVE  Numbered([table EXCEPT ![id] = row], columns)
BY DEF Numbered

\* The first given of at most four texts is not blank, if any is given.
LEMMA FirstOfSome ==
  ASSUME NEW texts, DOMAIN texts \subseteq 1..4,
         NEW i \in DOMAIN texts, texts[i] # Blank
  PROVE  FirstGiven(texts) # Blank
<1> DEFINE given == {k \in DOMAIN texts : texts[k] # Blank}
<1>1. given # {} /\ given \subseteq 1..4
  OBVIOUS
<1> HIDE DEF given
<1>2. \E x \in given : \A y \in given : x <= y
  <2>1. CASE 1 \in given
    BY <1>1, <2>1
  <2>2. CASE 1 \notin given /\ 2 \in given
    BY <1>1, <2>2
  <2>3. CASE 1 \notin given /\ 2 \notin given /\ 3 \in given
    BY <1>1, <2>3
  <2>4. CASE 1 \notin given /\ 2 \notin given /\ 3 \notin given
    <3>1. \A k \in given : k = 4
      BY <1>1, <2>4
    <3>2. PICK k \in given : k = 4
      BY <1>1, <3>1
    <3>3. \A y \in given : 4 <= y
      BY <3>1
    <3> QED
      BY <3>2, <3>3
  <2> QED
    BY <2>1, <2>2, <2>3, <2>4
<1>3. Min(given) \in given
  BY <1>2 DEF Min
<1> QED
  BY <1>1, <1>3 DEF FirstGiven, given

\* It is the first, or the second where the first is blank.
LEMMA FirstOfTwo ==
  ASSUME NEW texts, {1, 2} \subseteq DOMAIN texts, DOMAIN texts \subseteq 1..4
  PROVE  /\ texts[1] # Blank => FirstGiven(texts) = texts[1]
         /\ texts[1] = Blank /\ texts[2] # Blank => FirstGiven(texts) = texts[2]
<1> DEFINE given == {k \in DOMAIN texts : texts[k] # Blank}
<1>1. ASSUME NEW n \in given, \A k \in given : n <= k
      PROVE  FirstGiven(texts) = texts[n]
  <2>1. Min(given) \in given /\ \A k \in given : Min(given) <= k
    BY <1>1 DEF Min
  <2>2. Min(given) = n
    BY <1>1, <2>1
  <2> QED
    BY <1>1, <2>2 DEF FirstGiven
<1>2. CASE texts[1] # Blank
  BY <1>1, <1>2
<1>3. CASE texts[1] = Blank /\ texts[2] # Blank
  BY <1>1, <1>3
<1> QED
  BY <1>2, <1>3

-----------------------------------------------------------------------------
(* The fields of the forms                                                 *)

LEMMA KindsAre ==
  Kinds = {"Project", "ProjectConfig", "ProjectRemoteConfig", "ArsenalPreset",
           "Backlog", "BacklogEdit", "Routine", "RoutineEdit", "Ask",
           "QueueMessage", "GlobalSettings"}
BY DEF Kinds, Labels

LEMMA LabelsAre ==
  /\ Labels["Project"] = <<"name", "repo_path", "branch", "arsenal", "schedule_cron">>
  /\ Labels["ProjectConfig"] = ConfigLabels
  /\ Labels["ProjectRemoteConfig"] = RemoteLabels
  /\ Labels["ArsenalPreset"] = PresetLabels
  /\ Labels["Backlog"] = <<"text">> /\ Labels["BacklogEdit"] = <<"text">>
  /\ Labels["Routine"] = RoutineLabels /\ Labels["RoutineEdit"] = RoutineLabels
  /\ Labels["Ask"] = <<"mode", "question">> /\ Labels["QueueMessage"] = <<"note">>
  /\ Labels["GlobalSettings"] = <<"memory_preset", "pipeline_ux_guidance">>
BY DEF Labels

LEMMA FieldSets ==
  /\ ToSet(Labels["Project"]) = Required \cup {"arsenal", "schedule_cron"}
  /\ ToSet(Labels["ArsenalPreset"]) = PresetColumns
  /\ ToSet(Labels["Routine"]) = {"name", "output", "cron", "prompt", "writable_paths", "enabled"}
  /\ ToSet(Labels["BacklogEdit"]) = {"text"} /\ ToSet(Labels["Backlog"]) = {"text"}
  /\ ToSet(Labels["Ask"]) = {"mode", "question"}
  /\ ToSet(Labels["QueueMessage"]) = {"note"}
  /\ ToSet(Labels["GlobalSettings"]) = GlobalColumns
<1>1. ToSet(Labels["Project"]) = Required \cup {"arsenal", "schedule_cron"}
  BY LabelsAre DEF ToSet, Required
<1>2. ToSet(Labels["ArsenalPreset"]) = PresetColumns
  BY LabelsAre DEF ToSet, PresetLabels, PresetColumns, Commands
<1>3. ToSet(Labels["Routine"]) = {"name", "output", "cron", "prompt", "writable_paths", "enabled"}
  BY LabelsAre DEF ToSet, RoutineLabels
<1>4. /\ ToSet(Labels["BacklogEdit"]) = {"text"} /\ ToSet(Labels["Backlog"]) = {"text"}
      /\ ToSet(Labels["QueueMessage"]) = {"note"}
  BY LabelsAre DEF ToSet
<1>5. /\ ToSet(Labels["Ask"]) = {"mode", "question"}
      /\ ToSet(Labels["GlobalSettings"]) = GlobalColumns
  BY LabelsAre DEF ToSet, GlobalColumns
<1> QED
  BY <1>1, <1>2, <1>3, <1>4, <1>5

LEMMA ProjectFields ==
  ToSet(Labels["ProjectConfig"]) \cup Commands = ProjectColumns
BY LabelsAre DEF ToSet, ConfigLabels, ProjectColumns, Commands, ProjectDefaults, Required

\* No field of the remote form is named "project".
LEMMA RemoteIsNoProject == "project" \notin ToSet(RemoteLabels)
BY DEF ToSet, RemoteLabels, RemoteToggles

-----------------------------------------------------------------------------
(* Projects                                                                *)

LEMMA NormalTwice ==
  ASSUME NEW text, Normal(text) # Refused
  PROVE  Normal(Normal(text)) = Normal(text)
BY RowsAssumption DEF Normal

\* A normal form has no blanks around it, and what is trimmed has none left.
LEMMA TrimNormal ==
  ASSUME NEW text, Normal(text) = text, text # Refused
  PROVE  Trim(text) = text
BY RowsAssumption DEF Normal, Trim

LEMMA TrimTwice ==
  /\ Trim(Blank) = Blank
  /\ \A text : Trim(Trim(text)) = Trim(text)
BY RowsAssumption DEF Trim

\* RouteGiven and the cadences keep every other column.
LEMMA RouteKeeps ==
  ASSUME NEW row, DOMAIN row = ProjectColumns
  PROVE  /\ DOMAIN RouteGiven(row) = ProjectColumns
         /\ \A c \in ProjectColumns \ {"route_cmd"} : RouteGiven(row)[c] = row[c]
BY DEF RouteGiven

LEMMA StoredOK ==
  ASSUME NEW d, NEW row, DOMAIN row = ProjectColumns, ValidSource(d, Stored(row)),
         ValidCadences(row)
  PROVE  /\ ProjectOK(d, Stored(row))
         /\ \A c \in ProjectColumns \ (Cadences \cup {"arsenal"}) :
              Stored(row)[c] = row[c]
<1> DEFINE stored == Stored(row)
<1>1. DOMAIN stored = ProjectColumns
  BY DEF Stored
<1>2. Cadences \subseteq ProjectColumns
  BY DEF ProjectColumns, ProjectDefaults, Cadences
<1>3. /\ \A c \in ProjectColumns \ (Cadences \cup {"arsenal"}) : stored[c] = row[c]
      /\ \A c \in Cadences : stored[c] = Normal(row[c])
  BY <1>2 DEF Stored, Cadences
<1>4. \A c \in Cadences : stored[c] # Refused /\ Normal(stored[c]) = stored[c]
  BY <1>3, NormalTwice DEF ValidCadences
<1> QED
  BY <1>1, <1>3, <1>4 DEF ProjectOK

LEMMA AddProjectOK ==
  ASSUME NEW d, RowsOK(d), NEW given, Required \subseteq DOMAIN given,
         DOMAIN given \subseteq ProjectColumns, NEW e \in AddProject(d, given)
  PROVE  /\ RowsOK(e)
         /\ \E id \in DOMAIN e.project \ DOMAIN d.project :
              e.project[id].name = given.name
<1> DEFINE full == [c \in DOMAIN given \cup DOMAIN ProjectDefaults |->
                      IF c \in DOMAIN given THEN given[c] ELSE ProjectDefaults[c]]
           row == RouteGiven(full)
           id == NewId(d.project)
<1>1. /\ ValidSource(d, Stored(row)) /\ ValidCadences(row)
      /\ e = [d EXCEPT !.project = With(@, id, Stored(row)),
                       !.place = With(@, id, LastPlace(d, 1))]
  BY DEF AddProject
<1>2. DOMAIN full = ProjectColumns
  BY DEF ProjectColumns
<1>3. DOMAIN row = ProjectColumns /\ row.name = given.name
  <2>1. "name" \in ProjectColumns \ {"route_cmd"} /\ "name" \in DOMAIN given
    BY DEF ProjectColumns, Required
  <2>2. full["name"] = given["name"]
    BY <2>1
  <2> HIDE DEF full
  <2> QED
    BY <1>2, <2>1, <2>2, RouteKeeps
<1> HIDE DEF full, row
<1>4. ProjectOK(d, Stored(row)) /\ Stored(row).name = given.name
  BY <1>1, <1>3, StoredOK DEF ProjectColumns, Required, Cadences
<1>5. id \in Nat /\ id \notin DOMAIN d.project
  BY NewIdIsNew DEF RowsOK, Numbered
<1> HIDE DEF id
<1>6. /\ e.project = With(d.project, id, Stored(row))
      /\ DOMAIN e = DOMAIN d
      /\ \A t \in DOMAIN d \ {"project", "place"} : e[t] = d[t]
  BY <1>1 DEF RowsOK
<1>7. RowsOK(e)
  <2>1. Numbered(e.project, ProjectColumns)
    BY <1>4, <1>5, <1>6, WithNumbered DEF RowsOK, ProjectOK
  <2>2. \A p \in DOMAIN e.project : ProjectOK(d, e.project[p])
    BY <1>4, <1>6 DEF RowsOK, With
  <2>3. e.preset = d.preset
    BY <1>6 DEF RowsOK
  <2>4. \A p \in DOMAIN e.project : ProjectOK(e, e.project[p])
    BY <2>2, <2>3 DEF ProjectOK, ValidSource
  <2> QED
    BY <1>6, <2>1, <2>4 DEF RowsOK
<1>8. id \in DOMAIN e.project /\ e.project[id].name = given.name
  BY <1>4, <1>6 DEF With
<1> QED
  BY <1>5, <1>7, <1>8

LEMMA UpdateProjectOK ==
  ASSUME NEW d, RowsOK(d), NEW p, NEW given, DOMAIN given = ProjectColumns,
         NEW e \in UpdateProject(d, p, given)
  PROVE  /\ RowsOK(e)
         /\ p \in DOMAIN d.project
         /\ e.project[p] = Stored(RouteGiven(given))
<1> DEFINE row == RouteGiven(given)
           new == Stored(row)
<1>1. /\ ValidSource(d, Stored(row)) /\ ValidCadences(row) /\ p \in DOMAIN d.project
      /\ e = [d EXCEPT !.project[p] = new]
  BY DEF UpdateProject
<1>2. DOMAIN row = ProjectColumns
  BY RouteKeeps
<1>3. ProjectOK(d, new)
  BY <1>1, <1>2, StoredOK
<1> HIDE DEF new
<1>4. /\ e.project = [d.project EXCEPT ![p] = new] /\ DOMAIN e = DOMAIN d
      /\ \A t \in DOMAIN d \ {"project"} : e[t] = d[t]
  BY <1>1 DEF RowsOK
<1>5. Numbered(e.project, ProjectColumns)
  BY <1>3, <1>4, ChangedNumbered DEF RowsOK, ProjectOK
<1>6. \A q \in DOMAIN e.project : ProjectOK(d, e.project[q])
  BY <1>3, <1>4 DEF RowsOK
<1>7. \A q \in DOMAIN e.project : ProjectOK(e, e.project[q])
  <2>1. e.preset = d.preset
    BY <1>4 DEF RowsOK
  <2> QED
    BY <1>6, <2>1 DEF ProjectOK, ValidSource
<1>8. RowsOK(e)
  BY <1>4, <1>5, <1>7 DEF RowsOK
<1> QED
  BY <1>1, <1>4, <1>8 DEF new, row

LEMMA RemoveProjectOK ==
  ASSUME NEW d, RowsOK(d), NEW p, NEW e \in RemoveProject(d, p)
  PROVE  RowsOK(e)
<1> DEFINE B == Owned(d.backlog, p)
           R == Owned(d.routine, p)
           A == Owned(d.ask, p)
           N == {n \in DOMAIN d.note : d.note[n].issue \in Owned(d.issue, p)}
<1>0. e = [d EXCEPT !.project = Without(@, {p}), !.place = Without(@, {p}),
                    !.remote = Without(@, {p}),
                    !.backlog = Without(@, Owned(@, p)),
                    !.routine = Without(@, Owned(@, p)),
                    !.issue = Without(@, Owned(@, p)),
                    !.ask = Without(@, Owned(@, p)),
                    !.note = Without(@, {n \in DOMAIN @ :
                                           @[n].issue \in Owned(d.issue, p)})]
  BY Zenon DEF RemoveProject
<1>1. /\ DOMAIN e = DOMAIN d /\ e.preset = d.preset /\ e.global = d.global
      /\ e.project = Without(d.project, {p}) /\ e.remote = Without(d.remote, {p})
      /\ e.backlog = Without(d.backlog, B) /\ e.routine = Without(d.routine, R)
      /\ e.ask = Without(d.ask, A) /\ e.note = Without(d.note, N)
  BY <1>0 DEF RowsOK
<1> HIDE DEF B, R, A, N
<1>2. /\ Numbered(e.project, ProjectColumns)
      /\ Numbered(e.backlog, {"project", "text", "consumed"})
      /\ Numbered(e.routine, {"project"} \cup ToSet(RoutineLabels))
      /\ Numbered(e.ask, {"project", "mode", "question"})
      /\ Numbered(e.note, {"issue", "text"})
  BY <1>1, WithoutNumbered DEF RowsOK
<1>3. \A q \in DOMAIN e.project : ProjectOK(e, e.project[q])
  BY <1>1 DEF RowsOK, Without, ProjectOK, ValidSource
<1>4. \A q \in DOMAIN e.remote : DOMAIN e.remote[q] = ToSet(RemoteLabels)
  BY <1>1 DEF RowsOK, Without
<1> QED
  BY <1>1, <1>2, <1>3, <1>4 DEF RowsOK

\* The tables RowsOK says something of.
LEMMA ElsewhereOK ==
  ASSUME NEW d, RowsOK(d), NEW e, DOMAIN e = DOMAIN d,
         \A t \in {"project", "preset", "global", "remote", "backlog", "routine",
                  "ask", "note"} : e[t] = d[t]
  PROVE  RowsOK(e)
BY DEF RowsOK, ProjectOK, ValidSource

LEMMA MovesOK ==
  ASSUME NEW d, RowsOK(d), NEW p, NEW to,
         NEW e \in MoveProjectToProfile(d, p, to) \cup MoveProjectInProfile(d, p, to)
                   \cup CreateProfile(d, to) \cup RenameProfile(d, p, to)
                   \cup MoveIssue(d, p, to)
  PROVE  RowsOK(e)
<1>1. CASE e \in MoveProjectToProfile(d, p, to)
  BY <1>1, ElsewhereOK DEF MoveProjectToProfile, RowsOK
<1>2. CASE e \in MoveProjectInProfile(d, p, to)
  <2>1. PICK q : e = [d EXCEPT !.place[p].order = d.place[q].order,
                              !.place[q].order = d.place[p].order]
    BY <1>2, Zenon DEF MoveProjectInProfile
  <2> QED
    BY <2>1, ElsewhereOK DEF RowsOK
<1>3. CASE e \in CreateProfile(d, to)
  BY <1>3, ElsewhereOK DEF CreateProfile, RowsOK
<1>4. CASE e \in RenameProfile(d, p, to)
  BY <1>4, ElsewhereOK DEF RenameProfile, RowsOK
<1>5. CASE e \in MoveIssue(d, p, to)
  BY <1>5, ElsewhereOK DEF MoveIssue, RowsOK
<1> QED
  BY <1>1, <1>2, <1>3, <1>4, <1>5

-----------------------------------------------------------------------------
(* Presets and settings                                                    *)

LEMMA UpsertPresetOK ==
  ASSUME NEW d, RowsOK(d), NEW given, DOMAIN given = PresetColumns,
         NEW e \in UpsertArsenalPreset(d, given)
  PROVE  /\ RowsOK(e)
         /\ \A n \in DOMAIN d.preset \ {Trim(given.name)} : e.preset[n] = d.preset[n]
         /\ ~Void(given.route_cmd) =>
              e.preset[Trim(given.name)] = [given EXCEPT !.name = Trim(given.name)]
<1> DEFINE name == Trim(given.name)
           row == [given EXCEPT !.name = name,
                                !.route_cmd = IF Void(@) THEN given.work_cmd ELSE @]
<1>1. /\ \A c \in Commands \ {"review_cmd"} : ~Void(row[c])
      /\ e = [d EXCEPT !.preset = With(@, name, row), !.builtin = @ \ {name}]
  BY DEF UpsertArsenalPreset
<1>2. DOMAIN row = PresetColumns
  OBVIOUS
<1>3. ~Void(given.route_cmd) => row = [given EXCEPT !.name = name]
  OBVIOUS
<1> HIDE DEF row, name
<1>4. /\ e.preset = With(d.preset, name, row) /\ DOMAIN e = DOMAIN d
      /\ \A t \in DOMAIN d \ {"preset", "builtin"} : e[t] = d[t]
  BY <1>1 DEF RowsOK
<1>5. PresetOK(row)
  BY <1>1, <1>2 DEF PresetOK
<1>6. \A n \in DOMAIN e.preset : PresetOK(e.preset[n])
  BY <1>4, <1>5 DEF With, RowsOK
<1>7. \A p \in DOMAIN e.project : ProjectOK(e, e.project[p])
  <2>1. DOMAIN d.preset \subseteq DOMAIN e.preset /\ e.project = d.project
    BY <1>4 DEF With, RowsOK
  <2> QED
    BY <2>1 DEF RowsOK, ProjectOK, ValidSource
<1>8. RowsOK(e)
  BY <1>4, <1>6, <1>7 DEF RowsOK
<1>9. /\ \A n \in DOMAIN d.preset \ {name} : e.preset[n] = d.preset[n]
      /\ e.preset[name] = row
  BY <1>4 DEF With
<1> QED
  BY <1>3, <1>8, <1>9 DEF name

LEMMA SettingsOK ==
  ASSUME NEW d, RowsOK(d), NEW name, NEW kind, NEW row,
         NEW e, \/ e \in UpsertMemoryPreset(d, name, kind, row)
                \/ DOMAIN row = GlobalColumns /\ e \in UpdateGlobalSettings(d, row)
  PROVE  RowsOK(e)
<1>1. CASE e \in UpsertMemoryPreset(d, name, kind, row)
  BY <1>1, ElsewhereOK DEF UpsertMemoryPreset, RowsOK
<1>2. CASE DOMAIN row = GlobalColumns /\ e \in UpdateGlobalSettings(d, row)
  BY <1>2 DEF UpdateGlobalSettings, Trims, RowsOK, ProjectOK, ValidSource
<1> QED
  BY <1>1, <1>2

-----------------------------------------------------------------------------
(* Rows of a project                                                       *)

\* Only the table t is another, and every row of it but x is as it was.
OnlyRow(d, e, t, x) ==
  /\ DOMAIN e = DOMAIN d /\ \A u \in DOMAIN d \ {t} : e[u] = d[u]
  /\ \A y \in (DOMAIN d[t] \cup DOMAIN e[t]) \ {x} :
       y \in DOMAIN d[t] /\ y \in DOMAIN e[t] /\ e[t][y] = d[t][y]

LEMMA RemoteOK ==
  ASSUME NEW d, RowsOK(d), NEW p, NEW row, DOMAIN row = ToSet(RemoteLabels),
         NEW e \in UpsertProjectRemoteConfig(d, p, row)
  PROVE  RowsOK(e) /\ OnlyRow(d, e, "remote", p) /\ e.remote[p] = Trims(row)
<1> DEFINE new == Trims(row)
<1>0. DOMAIN new = ToSet(RemoteLabels)
  BY DEF Trims
<1>1. e = [d EXCEPT !.remote = With(@, p, new)]
  BY DEF UpsertProjectRemoteConfig
<1> HIDE DEF new
<1>2. /\ DOMAIN e = DOMAIN d /\ e.remote = With(d.remote, p, new)
      /\ \A u \in DOMAIN d \ {"remote"} : e[u] = d[u]
  BY <1>1 DEF RowsOK
<1>3. RowsOK(e)
  BY <1>0, <1>2 DEF RowsOK, With, ProjectOK, ValidSource
<1> QED
  BY <1>2, <1>3 DEF With, OnlyRow, new

LEMMA DeleteRemoteOK ==
  ASSUME NEW d, RowsOK(d), NEW p, NEW e \in DeleteProjectRemoteConfig(d, p)
  PROVE  RowsOK(e)
BY DEF DeleteProjectRemoteConfig, RowsOK, Without, ProjectOK, ValidSource

LEMMA CreateRoutineOK ==
  ASSUME NEW d, RowsOK(d), NEW p, NEW row,
         DOMAIN row = ToSet(RoutineLabels), NEW e \in CreateRoutine(d, p, row)
  PROVE  /\ RowsOK(e)
         /\ \E x \in DOMAIN e.routine \ DOMAIN d.routine :
              e.routine[x].name = row.name
<1> DEFINE new == [c \in DOMAIN row \cup {"project"} |->
                     IF c = "project" THEN p ELSE row[c]]
           id == NewId(d.routine)
<1>1. e = [d EXCEPT !.routine = With(@, id, new)]
  BY DEF CreateRoutine
<1>2. /\ DOMAIN e = DOMAIN d /\ e.routine = With(d.routine, id, new)
      /\ \A u \in DOMAIN d \ {"routine"} : e[u] = d[u]
  BY <1>1 DEF RowsOK
<1>3. DOMAIN new = {"project"} \cup ToSet(RoutineLabels) /\ new.name = row.name
  <2>1. "name" \in DOMAIN row
    BY FieldSets, LabelsAre
  <2> QED
    BY <2>1
<1> HIDE DEF new
<1>4. id \in Nat /\ id \notin DOMAIN d.routine
  BY NewIdIsNew DEF RowsOK, Numbered
<1> HIDE DEF id
<1>5. Numbered(e.routine, {"project"} \cup ToSet(RoutineLabels))
  BY <1>2, <1>3, <1>4, WithNumbered DEF RowsOK
<1>6. RowsOK(e)
  BY <1>2, <1>5 DEF RowsOK, ProjectOK, ValidSource
<1>7. id \in DOMAIN e.routine /\ e.routine[id] = new
  BY <1>2 DEF With
<1> QED
  BY <1>3, <1>4, <1>6, <1>7

LEMMA UpdateRoutineOK ==
  ASSUME NEW d, RowsOK(d), NEW r, NEW row, NEW e \in UpdateRoutine(d, r, row)
  PROVE  /\ RowsOK(e) /\ OnlyRow(d, e, "routine", r)
         /\ \A c \in ToSet(RoutineLabels) : e.routine[r][c] = row[c]
<1> DEFINE new == [c \in DOMAIN d.routine[r] |->
                     IF c = "project" THEN d.routine[r][c] ELSE row[c]]
<1>1. r \in DOMAIN d.routine /\ e = [d EXCEPT !.routine[r] = new]
  BY DEF UpdateRoutine
<1>2. DOMAIN new = {"project"} \cup ToSet(RoutineLabels)
  BY <1>1 DEF RowsOK, Numbered
<1>3. \A c \in ToSet(RoutineLabels) : new[c] = row[c]
  <2>1. "project" \notin ToSet(RoutineLabels)
    BY FieldSets, LabelsAre
  <2> QED
    BY <1>2, <2>1
<1> HIDE DEF new
<1>4. /\ DOMAIN e = DOMAIN d /\ e.routine = [d.routine EXCEPT ![r] = new]
      /\ \A u \in DOMAIN d \ {"routine"} : e[u] = d[u]
  BY <1>1 DEF RowsOK
<1>5. Numbered(e.routine, {"project"} \cup ToSet(RoutineLabels))
  BY <1>2, <1>4, ChangedNumbered DEF RowsOK
<1>6. RowsOK(e)
  BY <1>4, <1>5 DEF RowsOK, ProjectOK, ValidSource
<1> QED
  BY <1>1, <1>3, <1>4, <1>6 DEF OnlyRow

LEMMA RemoveRoutineOK ==
  ASSUME NEW d, RowsOK(d), NEW r, NEW e \in RemoveRoutine(d, r)
  PROVE  RowsOK(e)
<1>1. /\ DOMAIN e = DOMAIN d /\ e.routine = Without(d.routine, {r})
      /\ \A u \in DOMAIN d \ {"routine"} : e[u] = d[u]
  BY DEF RemoveRoutine, RowsOK
<1>2. Numbered(e.routine, {"project"} \cup ToSet(RoutineLabels))
  BY <1>1, WithoutNumbered DEF RowsOK
<1> QED
  BY <1>1, <1>2 DEF RowsOK, ProjectOK, ValidSource

LEMMA AddBacklogOK ==
  ASSUME NEW d, RowsOK(d), NEW p, NEW text, NEW e \in AddBacklog(d, p, text)
  PROVE  /\ RowsOK(e)
         /\ \E x \in DOMAIN e.backlog \ DOMAIN d.backlog :
              e.backlog[x].text = text
<1> DEFINE new == [project |-> p, text |-> text, consumed |-> FALSE]
           id == NewId(d.backlog)
<1>1. e = [d EXCEPT !.backlog = With(@, id, new)]
  BY DEF AddBacklog
<1>2. /\ DOMAIN e = DOMAIN d /\ e.backlog = With(d.backlog, id, new)
      /\ \A u \in DOMAIN d \ {"backlog"} : e[u] = d[u]
  BY <1>1 DEF RowsOK
<1>3. DOMAIN new = {"project", "text", "consumed"} /\ new.text = text
  OBVIOUS
<1> HIDE DEF new
<1>4. id \in Nat /\ id \notin DOMAIN d.backlog
  BY NewIdIsNew DEF RowsOK, Numbered
<1> HIDE DEF id
<1>5. Numbered(e.backlog, {"project", "text", "consumed"})
  BY <1>2, <1>3, <1>4, WithNumbered DEF RowsOK
<1>6. RowsOK(e)
  BY <1>2, <1>5 DEF RowsOK, ProjectOK, ValidSource
<1>7. id \in DOMAIN e.backlog /\ e.backlog[id] = new
  BY <1>2 DEF With
<1> QED
  BY <1>3, <1>4, <1>6, <1>7

LEMMA AskOK ==
  ASSUME NEW d, RowsOK(d), NEW p, NEW mode, NEW text,
         NEW e \in AskProject(d, p, mode, text)
  PROVE  /\ RowsOK(e)
         /\ \E x \in DOMAIN e.ask \ DOMAIN d.ask : e.ask[x].question = text
<1> DEFINE new == [project |-> p, mode |-> mode, question |-> text]
           id == NewId(d.ask)
<1>1. e = [d EXCEPT !.ask = With(@, id, new)]
  BY DEF AskProject
<1>2. /\ DOMAIN e = DOMAIN d /\ e.ask = With(d.ask, id, new)
      /\ \A u \in DOMAIN d \ {"ask"} : e[u] = d[u]
  BY <1>1 DEF RowsOK
<1>3. DOMAIN new = {"project", "mode", "question"} /\ new.question = text
  OBVIOUS
<1> HIDE DEF new
<1>4. id \in Nat /\ id \notin DOMAIN d.ask
  BY NewIdIsNew DEF RowsOK, Numbered
<1> HIDE DEF id
<1>5. Numbered(e.ask, {"project", "mode", "question"})
  BY <1>2, <1>3, <1>4, WithNumbered DEF RowsOK
<1>6. RowsOK(e)
  BY <1>2, <1>5 DEF RowsOK, ProjectOK, ValidSource
<1>7. id \in DOMAIN e.ask /\ e.ask[id] = new
  BY <1>2 DEF With
<1> QED
  BY <1>3, <1>4, <1>6, <1>7

LEMMA SteeringOK ==
  ASSUME NEW d, RowsOK(d), NEW i, NEW text, NEW e \in AddSteering(d, i, text)
  PROVE  /\ RowsOK(e)
         /\ \E x \in DOMAIN e.note \ DOMAIN d.note : e.note[x].text = text
<1> DEFINE new == [issue |-> i, text |-> text]
           id == NewId(d.note)
<1>1. e = [d EXCEPT !.note = With(@, id, new)]
  BY DEF AddSteering
<1>2. /\ DOMAIN e = DOMAIN d /\ e.note = With(d.note, id, new)
      /\ \A u \in DOMAIN d \ {"note"} : e[u] = d[u]
  BY <1>1 DEF RowsOK
<1>3. DOMAIN new = {"issue", "text"} /\ new.text = text
  OBVIOUS
<1> HIDE DEF new
<1>4. id \in Nat /\ id \notin DOMAIN d.note
  BY NewIdIsNew DEF RowsOK, Numbered
<1> HIDE DEF id
<1>5. Numbered(e.note, {"issue", "text"})
  BY <1>2, <1>3, <1>4, WithNumbered DEF RowsOK
<1>6. RowsOK(e)
  BY <1>2, <1>5 DEF RowsOK, ProjectOK, ValidSource
<1>7. id \in DOMAIN e.note /\ e.note[id] = new
  BY <1>2 DEF With
<1> QED
  BY <1>3, <1>4, <1>6, <1>7

LEMMA ItemOK ==
  ASSUME NEW d, RowsOK(d), NEW b, NEW text,
         NEW e \in UpdateBacklogText(d, b, text) \cup ConsumeBacklog(d, b)
  PROVE  /\ RowsOK(e) /\ OnlyRow(d, e, "backlog", b)
         /\ e \in UpdateBacklogText(d, b, text) => e.backlog[b].text = text
<1>1. PICK row : /\ b \in DOMAIN d.backlog
                 /\ e = [d EXCEPT !.backlog[b] = row]
                 /\ DOMAIN row = {"project", "text", "consumed"}
                 /\ e \in UpdateBacklogText(d, b, text) => row.text = text
  <2>1. CASE e \in UpdateBacklogText(d, b, text)
    <3>1. /\ b \in DOMAIN d.backlog
          /\ e = [d EXCEPT !.backlog[b] = [d.backlog[b] EXCEPT !.text = text]]
      BY <2>1 DEF UpdateBacklogText
    <3>2. /\ DOMAIN [d.backlog[b] EXCEPT !.text = text] = {"project", "text", "consumed"}
          /\ [d.backlog[b] EXCEPT !.text = text].text = text
      BY <3>1 DEF RowsOK, Numbered
    <3> QED
      BY <3>1, <3>2
  <2>2. CASE e \in ConsumeBacklog(d, b) /\ e \notin UpdateBacklogText(d, b, text)
    <3>1. /\ b \in DOMAIN d.backlog
          /\ e = [d EXCEPT !.backlog[b] = [d.backlog[b] EXCEPT !.consumed = TRUE]]
      BY <2>2 DEF ConsumeBacklog
    <3>2. DOMAIN [d.backlog[b] EXCEPT !.consumed = TRUE] = {"project", "text", "consumed"}
      BY <3>1 DEF RowsOK, Numbered
    <3> QED
      BY <2>2, <3>1, <3>2
  <2> QED
    BY <2>1, <2>2
<1>2. /\ DOMAIN e = DOMAIN d /\ e.backlog = [d.backlog EXCEPT ![b] = row]
      /\ \A u \in DOMAIN d \ {"backlog"} : e[u] = d[u]
  BY <1>1 DEF RowsOK
<1>3. Numbered(e.backlog, {"project", "text", "consumed"})
  BY <1>1, <1>2, ChangedNumbered DEF RowsOK
<1>4. RowsOK(e)
  BY <1>2, <1>3 DEF RowsOK, ProjectOK, ValidSource
<1> QED
  BY <1>1, <1>2, <1>4 DEF OnlyRow

-----------------------------------------------------------------------------
(* The open form                                                           *)

LEMMA FilledOK ==
  ASSUME NEW kind \in Kinds, NEW target, NEW row, NEW given
  PROVE  LET f == Filled(kind, target, row, given)
         IN /\ DOMAIN f = FormFields /\ f.kind = kind /\ f.row = row
            /\ DOMAIN f.value = ToSet(Labels[kind]) /\ f.touched = {}
            /\ \A l \in DOMAIN f.value : f.value[l] = given[l]
BY DEF Filled, FormFields

\* A form filled with a row, and one that is not about a row.
LEMMA FilledFromRow ==
  ASSUME NEW kind \in Kinds, NEW target, NEW row
  PROVE  FormOK(Filled(kind, target, row, row))
<1> DEFINE f == Filled(kind, target, row, row)
<1>1. /\ DOMAIN f = FormFields /\ f.kind = kind /\ f.row = row
      /\ DOMAIN f.value = ToSet(Labels[kind])
      /\ \A l \in DOMAIN f.value : f.value[l] = row[l]
  BY FilledOK
<1> HIDE DEF f
<1>2. FormOK(f)
  BY <1>1 DEF FormOK, FromRow
<1> QED
  BY <1>2 DEF f

LEMMA FilledAfresh ==
  ASSUME NEW kind \in Kinds, NEW target, NEW given
  PROVE  FormOK(Filled(kind, target, NoRow, given))
<1> DEFINE f == Filled(kind, target, NoRow, given)
<1>1. /\ DOMAIN f = FormFields /\ f.kind = kind /\ f.row = NoRow
      /\ DOMAIN f.value = ToSet(Labels[kind])
  BY FilledOK
<1> HIDE DEF f
<1>2. FormOK(f)
  BY <1>1 DEF FormOK
<1> QED
  BY <1>2 DEF f

LEMMA FormsOpened ==
  ASSUME NEW c, NEW pl, NEW p
  PROVE  /\ FormOK(AddForm(c, pl)) /\ FormOK(EditForm(c, pl, p))
         /\ FormOK(NewForm("Ask")) /\ FormOK(RemoteForm(c, p))
<1>1. FormOK(NewProjectForm(c))
  BY FilledAfresh, KindsAre DEF NewProjectForm
<1>2. \A kind \in Kinds : FormOK(NewForm(kind))
  <2> SUFFICES ASSUME NEW kind \in Kinds PROVE FormOK(NewForm(kind))
    OBVIOUS
  <2>1. PICK given : NewForm(kind) = Filled(kind, 0, NoRow, given)
    BY Zenon DEF NewForm
  <2> QED
    BY <2>1, FilledAfresh
<1>3. \A name : FormOK(PresetForm(c, name))
  <2> SUFFICES ASSUME NEW name PROVE FormOK(PresetForm(c, name))
    OBVIOUS
  <2>1. CASE name = Blank
    <3>1. PICK given : PresetForm(c, name) = Filled("ArsenalPreset", 0, NoRow, given)
      BY <2>1, Zenon DEF PresetForm
    <3> QED
      BY <3>1, FilledAfresh, KindsAre
  <2>2. CASE name # Blank
    <3>1. PresetForm(c, name)
            = Filled("ArsenalPreset", 0, c.preset[name], c.preset[name])
      BY <2>2 DEF PresetForm
    <3> QED
      BY <3>1, FilledFromRow, KindsAre
  <2> QED
    BY <2>1, <2>2
<1>4. FormOK(RemoteForm(c, p))
  BY FilledAfresh, FilledFromRow, KindsAre DEF RemoteForm
<1>5. FormOK(GlobalForm(c))
  BY FilledFromRow, KindsAre DEF GlobalForm
<1>6. FormOK(ProjectConfigForm(c, p))
  <2> DEFINE row == c.project[p]
             given == IF row.arsenal # Blank THEN row
                      ELSE [row EXCEPT !.arsenal = MatchingPreset(c, row)]
             f == Filled("ProjectConfig", p, row, given)
  <2>1. /\ DOMAIN f = FormFields /\ f.kind = "ProjectConfig" /\ f.row = row
        /\ DOMAIN f.value = ToSet(Labels["ProjectConfig"])
        /\ \A l \in DOMAIN f.value : f.value[l] = given[l]
    BY FilledOK, KindsAre
  <2>2. \A l : \/ given[l] = row[l] \/ l \notin DOMAIN row
               \/ l = "arsenal" /\ row.arsenal = Blank
    OBVIOUS
  <2> HIDE DEF f, given, row
  <2>3. FormOK(f)
    BY <2>1, <2>2, KindsAre DEF FormOK, FromRow
  <2> QED
    BY <2>3 DEF ProjectConfigForm, f, given, row
<1>7. FormOK(NoForm)
  BY DEF FormOK
<1>8. AddForm(c, pl) \in {NewProjectForm(c), NewForm("Backlog"), NewForm("Routine"),
                          NewForm("QueueMessage"), PresetForm(c, Blank), NoForm}
  BY DEF AddForm
<1>9. EditForm(c, pl, p) \in
        {ProjectConfigForm(c, p), PresetForm(c, pl.name), PresetForm(c, Blank),
         Filled("BacklogEdit", pl.id, c.backlog[pl.id], c.backlog[pl.id]),
         Filled("RoutineEdit", pl.id, c.routine[pl.id], c.routine[pl.id]),
         GlobalForm(c), NoForm}
  BY DEF EditForm
<1>10. /\ FormOK(Filled("BacklogEdit", pl.id, c.backlog[pl.id], c.backlog[pl.id]))
       /\ FormOK(Filled("RoutineEdit", pl.id, c.routine[pl.id], c.routine[pl.id]))
  BY FilledFromRow, KindsAre
<1> HIDE DEF NewProjectForm, NewForm, PresetForm, ProjectConfigForm, GlobalForm,
             Filled, NoForm
<1>11. {"Backlog", "Routine", "QueueMessage", "Ask"} \subseteq Kinds
  BY KindsAre
<1> QED
  BY <1>1, <1>2, <1>3, <1>4, <1>5, <1>6, <1>7, <1>8, <1>9, <1>10, <1>11

\* A form that keeps what the user has not touched.
LEMMA FormKept ==
  ASSUME NEW f, FormOK(f), Open(f), NEW g, DOMAIN g = FormFields,
         g.kind = f.kind, g.row = f.row, f.touched \subseteq g.touched,
         DOMAIN g.value = DOMAIN f.value,
         \A l \in DOMAIN g.value \ g.touched : g.value[l] = f.value[l]
  PROVE  FormOK(g)
<1>1. f # NoForm
  BY DEF Open, NoForm
<1> QED
  BY <1>1 DEF FormOK, FromRow

\* The keys of an open form, those that submit it apart.
LEMMA KeysKeepForm ==
  ASSUME FormOK(form), Open(form),
         \/ KeyComplete \/ KeyDown \/ KeyUp \/ KeyBackTab \/ KeyChoose
         \/ KeyEnter \/ KeyDone \/ KeyType \/ KeyCancel
  PROVE  FormOK(form')
<1> DEFINE l == Label(form)
<1>0. DOMAIN form = FormFields
  BY DEF FormOK, Open, NoForm
<1>1. ASSUME NEW v, NEW n,
             \/ form' = [form EXCEPT !.value[l] = v, !.touched = @ \cup {l}]
             \/ form' = [form EXCEPT !.value[l] = v, !.sel = n, !.touched = @ \cup {l}]
      PROVE  FormOK(form')
  <2> HIDE DEF l
  <2>1. /\ DOMAIN form' = FormFields /\ form'.kind = form.kind /\ form'.row = form.row
        /\ form'.touched = form.touched \cup {l}
        /\ form'.value = [form.value EXCEPT ![l] = v]
    BY <1>0, <1>1 DEF FormFields
  <2>2. /\ form.touched \subseteq form'.touched
        /\ DOMAIN form'.value = DOMAIN form.value
        /\ \A k \in DOMAIN form'.value \ form'.touched : form'.value[k] = form.value[k]
    BY <2>1
  <2> QED
    BY <2>1, <2>2, FormKept
<1>2. ASSUME NEW m, NEW n, NEW md,
             \/ form' = [form EXCEPT !.sel = n]
             \/ form' = [form EXCEPT !.current = m, !.sel = n]
             \/ form' = [form EXCEPT !.mode = md]
      PROVE  FormOK(form')
  <2>1. /\ DOMAIN form' = FormFields /\ form'.kind = form.kind /\ form'.row = form.row
        /\ form'.touched = form.touched /\ form'.value = form.value
    BY <1>0, <1>2 DEF FormFields
  <2> QED
    BY <2>1, FormKept
<1>3. CASE KeyComplete
  <2>1. PICK v : form' = Accepted(form, v)
    BY <1>3, Zenon DEF KeyComplete
  <2>2. CASE l = "arsenal"
    <3>1. form' = [form EXCEPT !.value[l] = FindPreset(copy, v), !.touched = @ \cup {l}]
      BY <2>1, <2>2 DEF Accepted
    <3> HIDE DEF l
    <3> QED
      BY <1>1, <3>1, Zenon
  <2>3. CASE l # "arsenal"
    <3>1. form' = [form EXCEPT !.value[l] = v, !.sel = 1, !.touched = @ \cup {l}]
      BY <2>1, <2>3, Zenon DEF Accepted, WithValue
    <3> HIDE DEF l
    <3> QED
      BY <1>1, <3>1, Zenon
  <2> QED
    BY <2>2, <2>3
<1>4. CASE KeyDown \/ KeyUp \/ KeyBackTab
  <2>1. PICK delta : form' = Highlighted(form, delta) \/ form' = MoveField(form, delta)
    BY <1>4, Zenon DEF KeyDown, KeyUp, KeyBackTab, Navigating
  <2>2. CASE form' = Highlighted(form, delta)
    <3>1. PICK n : form' = [form EXCEPT !.sel = n]
      BY <2>2, Zenon DEF Highlighted
    <3> QED
      BY <1>2, <3>1, Zenon
  <2>3. CASE form' = MoveField(form, delta)
    <3>1. PICK m : form' = [form EXCEPT !.current = m, !.sel = 1]
      BY <2>3, Zenon DEF MoveField
    <3> QED
      BY <1>2, <3>1, Zenon
  <2> QED
    BY <2>1, <2>2, <2>3
<1>5. CASE KeyChoose
  <2>1. PICK v : form' = [form EXCEPT !.value[l] = v, !.sel = 1, !.touched = @ \cup {l}]
    BY <1>5, Zenon DEF KeyChoose, WithValue
  <2> HIDE DEF l
  <2> QED
    BY <1>1, <2>1, Zenon
<1>6. CASE KeyType
  <2>1. PICK v : form' = [form EXCEPT !.value[l] = v, !.touched = @ \cup {l}]
    BY <1>6, Zenon DEF KeyType
  <2> HIDE DEF l
  <2> QED
    BY <1>1, <2>1, Zenon
<1>7. CASE KeyEnter \/ KeyDone
  <2>1. PICK md : form' = [form EXCEPT !.mode = md]
    BY <1>7, Zenon DEF KeyEnter, KeyDone
  <2> QED
    BY <1>2, <2>1, Zenon
<1>8. CASE KeyCancel
  BY <1>8 DEF KeyCancel, FormOK
<1> QED
  BY <1>3, <1>4, <1>5, <1>6, <1>7, <1>8

-----------------------------------------------------------------------------
(* Submitting                                                              *)

\* A form that is open holds one field for each label of its kind.
LEMMA OpenForm ==
  ASSUME FormOK(form), Open(form)
  PROVE  /\ DOMAIN form = FormFields /\ form.kind \in Kinds
         /\ DOMAIN form.value = ToSet(Labels[form.kind])
         /\ form.kind \in Updates /\ form.row # NoRow => FromRow(form)
BY DEF FormOK, Open, NoForm

\* What is read from its fields.
LEMMA GotOf ==
  ASSUME NEW f
  PROVE  /\ DOMAIN Got(f) = DOMAIN f.value
         /\ \A l \in DOMAIN f.value : Got(f)[l] = Trim(f.value[l])
BY DEF Got, Trims

\* What the project forms send.
LEMMA ProjectRowOK ==
  ASSUME FormOK(form), Open(form), form.kind \in {"Project", "ProjectConfig"}
  PROVE  /\ Required \subseteq DOMAIN ProjectRow(form)
         /\ DOMAIN ProjectRow(form) \subseteq ProjectColumns
         /\ form.kind = "ProjectConfig" => DOMAIN ProjectRow(form) = ProjectColumns
         /\ ProjectRow(form).name = Trim(form.value.name)
<1>1. DOMAIN ProjectRow(form) = ToSet(Labels[form.kind]) \cup Commands
  BY OpenForm DEF ProjectRow
<1>2. ToSet(Labels["Project"]) \cup Commands \subseteq ProjectColumns
  BY FieldSets DEF Required, Commands, ProjectColumns, ProjectDefaults
<1>3. Required \subseteq DOMAIN ProjectRow(form)
  BY <1>1, FieldSets, ProjectFields DEF Required, Commands, ProjectColumns
<1>4. ProjectRow(form).name = Trim(form.value.name)
  <2>1. "name" \in DOMAIN ProjectRow(form) /\ "name" \notin Commands
    BY <1>3 DEF Required, Commands
  <2>2. "name" \in DOMAIN form.value
    BY <1>1, <2>1, OpenForm
  <2> QED
    BY <2>1, <2>2, GotOf DEF ProjectRow
<1> QED
  BY <1>1, <1>2, <1>3, <1>4, ProjectFields

\* The command of a form, by its kind.
LEMMA ResultsAre ==
  ASSUME NEW p
  PROVE  /\ form.kind = "Project" => Results(form, p) = AddProject(db, ProjectRow(form))
         /\ form.kind = "ProjectConfig" =>
              Results(form, p) = UpdateProject(db, p, ProjectRow(form))
         /\ form.kind = "ProjectRemoteConfig" =>
              Results(form, p) = UpsertProjectRemoteConfig(db, form.target, Got(form))
         /\ form.kind = "ArsenalPreset" =>
              Results(form, p) = UpsertArsenalPreset(db, Got(form))
         /\ form.kind = "GlobalSettings" =>
              Results(form, p) = UpdateGlobalSettings(db, Got(form))
         /\ form.kind = "Backlog" =>
              Results(form, p) = AddBacklog(db, p, Got(form).text)
         /\ form.kind = "BacklogEdit" =>
              Results(form, p) = UpdateBacklogText(db, form.target, Got(form).text)
         /\ form.kind = "Routine" => Results(form, p) = CreateRoutine(db, p, Got(form))
         /\ form.kind = "RoutineEdit" =>
              Results(form, p) = UpdateRoutine(db, form.target, Got(form))
         /\ form.kind = "Ask" =>
              Results(form, p) = AskProject(db, p, Got(form).mode, Got(form).question)
         /\ form.kind = "QueueMessage" =>
              Results(form, p) = AddSteering(db, at.id, Got(form).note)
BY DEF Results, Target

LEMMA ResultsOK ==
  ASSUME RowsOK(db), FormOK(form), Open(form), NEW p, NEW e \in Results(form, p)
  PROVE  RowsOK(e)
<1> DEFINE v == Got(form)
<1>0. form.kind \in Kinds /\ DOMAIN v = ToSet(Labels[form.kind])
  BY OpenForm, GotOf
<1> HIDE DEF v
<1>1. CASE form.kind = "Project"
  BY <1>1, ResultsAre, ProjectRowOK, AddProjectOK
<1>2. CASE form.kind = "ProjectConfig"
  BY <1>2, ResultsAre, ProjectRowOK, UpdateProjectOK
<1>3. CASE form.kind = "ProjectRemoteConfig"
  BY <1>0, <1>3, ResultsAre, RemoteOK, LabelsAre DEF v
<1>4. CASE form.kind = "ArsenalPreset"
  <2>1. DOMAIN v = PresetColumns /\ e \in UpsertArsenalPreset(db, v)
    BY <1>0, <1>4, ResultsAre, FieldSets DEF v
  <2> QED
    BY <2>1, UpsertPresetOK
<1>5. CASE form.kind = "GlobalSettings"
  BY <1>0, <1>5, ResultsAre, SettingsOK, FieldSets DEF v
<1>6. CASE form.kind = "Backlog"
  BY <1>6, ResultsAre, AddBacklogOK
<1>7. CASE form.kind = "BacklogEdit"
  BY <1>7, ResultsAre, ItemOK
<1>8. CASE form.kind = "Routine"
  BY <1>0, <1>8, ResultsAre, CreateRoutineOK, LabelsAre DEF v
<1>9. CASE form.kind = "RoutineEdit"
  BY <1>9, ResultsAre, UpdateRoutineOK
<1>10. CASE form.kind = "Ask"
  BY <1>10, ResultsAre, AskOK
<1>11. CASE form.kind = "QueueMessage"
  BY <1>11, ResultsAre, SteeringOK
<1> QED
  BY <1>0, <1>1, <1>2, <1>3, <1>4, <1>5, <1>6, <1>7, <1>8, <1>9, <1>10, <1>11, KindsAre

\* What a submission does to the rows and to the form.
LEMMA Submitted ==
  ASSUME KeySubmit
  PROVE  LET p == SelectedProject(copy, proj)
         IN /\ Open(form)
            /\ \/ db' = db
               \/ Checked(form, p) /\ db' \in Results(form, p)
            /\ \/ form' = form
               \/ form' = NoForm /\ form.kind \notin Creates
               \/ form' = NoForm /\ db' \in Results(form, p)
<1> DEFINE p == SelectedProject(copy, proj)
<1>0. Open(form)
  BY DEF KeySubmit
<1>1. CASE ~Checked(form, p)
  <2>1. db' = db /\ form' = form
    BY <1>1, Zenon DEF KeySubmit
  <2> QED
    BY <1>0, <2>1
<1>2. CASE Checked(form, p)
  <2>1. \/ db' \in Results(form, p) /\ form' = FormAfter(form, TRUE)
        \/ db' = db /\ form' = FormAfter(form, FALSE)
        \/ db' \in Results(form, p) \cup {db} /\ form' = FormAfter(form, FALSE)
    BY <1>2, Zenon DEF KeySubmit
  <2>2. FormAfter(form, TRUE) = NoForm
    BY DEF FormAfter
  <2>3. \/ FormAfter(form, FALSE) = form
        \/ FormAfter(form, FALSE) = NoForm /\ form.kind \notin Creates
    BY DEF FormAfter
  <2> QED
    BY <1>0, <1>2, <2>1, <2>2, <2>3
<1> QED
  BY <1>1, <1>2

-----------------------------------------------------------------------------
(* Type correctness                                                        *)

LEMMA OtherClientOK ==
  ASSUME RowsOK(db), NEW c \in Others,
         db' \in SettingsCommand(c) \cup ProjectCommand(c) \cup RowCommand(c)
  PROVE  RowsOK(db')
<1>0. Carries(c)
  BY FormsAssumption
<1>1. CASE db' \in SettingsCommand(c)
  <2>1. \/ c.cmd = "UpsertArsenalPreset" /\ db' \in UpsertArsenalPreset(db, c.row)
        \/ db' \in UpsertMemoryPreset(db, c.name, c.kind, c.row)
        \/ c.cmd = "UpdateGlobalSettings" /\ db' \in UpdateGlobalSettings(db, c.row)
        \/ db' \in CreateProfile(db, c.name)
        \/ db' \in RenameProfile(db, c.id, c.name)
        \/ db' \in MoveProjectToProfile(db, c.id, c.to)
        \/ db' \in MoveProjectInProfile(db, c.id, c.to)
    BY <1>1 DEF SettingsCommand
  <2> QED
    BY <1>0, <2>1, UpsertPresetOK, SettingsOK, MovesOK DEF Carries
<1>2. CASE db' \in ProjectCommand(c)
  <2>1. \/ c.cmd = "AddProject" /\ db' \in AddProject(db, c.row)
        \/ c.cmd = "UpdateProject" /\ db' \in UpdateProject(db, c.id, c.row)
        \/ db' \in RemoveProject(db, c.id)
        \/ /\ c.cmd = "UpsertProjectRemoteConfig"
           /\ db' \in UpsertProjectRemoteConfig(db, c.id, c.row)
        \/ db' \in DeleteProjectRemoteConfig(db, c.id)
    BY <1>2 DEF ProjectCommand
  <2> QED
    BY <1>0, <2>1, AddProjectOK, UpdateProjectOK, RemoveProjectOK, RemoteOK,
       DeleteRemoteOK DEF Carries
<1>3. CASE db' \in RowCommand(c)
  <2>1. \/ db' \in UpdateRoutine(db, c.id, c.row)
        \/ db' \in RemoveRoutine(db, c.id)
        \/ db' \in ConsumeBacklog(db, c.id)
        \/ db' \in MoveIssue(db, c.id, c.name)
    BY <1>3 DEF RowCommand
  <2> QED
    BY <2>1, UpdateRoutineOK, RemoveRoutineOK, ItemOK, MovesOK
<1> QED
  BY <1>1, <1>2, <1>3

LEMMA TypeInit == Init => TypeOK
BY FormsAssumption DEF Init, TypeOK, FormOK

LEMMA TypeNext == TypeOK /\ [Next]_vars => TypeOK'
<1> SUFFICES ASSUME TypeOK, [Next]_vars PROVE TypeOK'
  OBVIOUS
<1> USE DEF TypeOK
<1>1. CASE MoveCursor \/ Event \/ Reload \/ UNCHANGED vars
  BY <1>1, Zenon DEF MoveCursor, Event, Reload, vars, bounds
<1>2. CASE KeyOpen
  <2>1. db' = db /\ FormOK(form')
    BY <1>2, FormsOpened, Zenon DEF KeyOpen, KeyAdd, KeyEdit, KeyAsk, KeyRemote, Opens
  <2> QED
    BY <2>1
<1>3. CASE KeySubmit
  <2>1. RowsOK(db')
    BY <1>3, Submitted, ResultsOK
  <2>2. form' = form \/ form' = NoForm
    BY <1>3, Submitted
  <2> QED
    BY <2>1, <2>2 DEF FormOK
<1>4. CASE KeyForm /\ ~KeySubmit
  <2>1. db' = db /\ Open(form)
    BY <1>4, Zenon DEF KeyForm, KeyComplete, KeyDown, KeyUp, KeyBackTab, KeyChoose,
                       KeyEnter, KeyDone, KeyType, KeyCancel, Navigating, InForm
  <2>2. FormOK(form')
    BY <1>4, <2>1, KeysKeepForm, Zenon DEF KeyForm
  <2> QED
    BY <2>1, <2>2
<1>5. CASE OtherClient
  <2>1. form' = form
    BY <1>5 DEF OtherClient
  <2>2. PICK c \in Others :
          db' \in SettingsCommand(c) \cup ProjectCommand(c) \cup RowCommand(c)
    BY <1>5, Zenon DEF OtherClient
  <2> QED
    BY <2>1, <2>2, OtherClientOK
<1> QED
  BY <1>1, <1>2, <1>3, <1>4, <1>5 DEF Next

\* The tables keep their columns, the cadences their normal forms, the projects
\* and presets the commands validate_agent_source asks for, whatever the console
\* and other clients send; and an open form holds its row's value in each field
\* the user has not changed.
THEOREM FormsTypeCorrect == Spec => []TypeOK
BY TypeInit, TypeNext, PTL DEF Spec

-----------------------------------------------------------------------------
(* The commands of a project                                               *)

\* FirstGiven looks at the project's own command, then at its preset's, then,
\* for a route or a review, at the two work commands.
LEMMA CommandGiven ==
  ASSUME NEW d, RowsOK(d), NEW p \in DOMAIN d.project, NEW c \in Commands
  PROVE  LET cmd == Command(d, p, c)
         IN /\ cmd # Blank
            /\ Void(cmd) => \/ c = "review_cmd"
                            \/ /\ d.project[p].arsenal # Blank
                               /\ cmd = d.project[p][c]
<1> DEFINE own(x) == d.project[p][x]
           link == d.project[p].arsenal
           preset(x) == IF link \in DOMAIN d.preset THEN d.preset[link][x] ELSE Blank
           both(x) == <<own(x), preset(x)>>
           two == both(c)
           four == both(c) \o both("work_cmd")
           cmd == Command(d, p, c)
<1>1. \A x \in Commands \ {"review_cmd"} :
        IF link = Blank THEN ~Void(own(x)) ELSE ~Void(preset(x))
  BY DEF RowsOK, ProjectOK, ValidSource, PresetOK
<1>2. \A x : ~Void(x) => x # Blank
  BY TrimTwice DEF Void
<1>3. cmd = FirstGiven(IF c \in {"route_cmd", "review_cmd"} THEN four ELSE two)
  BY DEF Command
<1>4. /\ DOMAIN two = 1..2 /\ two[1] = own(c) /\ two[2] = preset(c)
      /\ DOMAIN four = 1..4 /\ four[1] = own(c) /\ four[2] = preset(c)
      /\ four[3] = own("work_cmd") /\ four[4] = preset("work_cmd")
  OBVIOUS
<1>5. own(c) = d.project[p][c] /\ link = d.project[p].arsenal
  OBVIOUS
<1> HIDE DEF own, preset, both, two, four, link, cmd
<1>6. CASE c = "review_cmd"
  <2>1. "work_cmd" \in Commands \ {"review_cmd"}
    BY DEF Commands
  <2>2. four[3] # Blank \/ four[4] # Blank
    BY <1>1, <1>2, <1>4, <2>1
  <2>3. FirstGiven(four) # Blank
    BY <1>4, <2>2, FirstOfSome
  <2> QED
    BY <1>3, <1>6, <2>3 DEF cmd
<1>7. CASE c # "review_cmd"
  <2>1. IF link = Blank THEN ~Void(own(c)) ELSE ~Void(preset(c))
    BY <1>1, <1>7
  <2>2. CASE own(c) # Blank
    <3>1. cmd = own(c)
      BY <1>3, <1>4, <2>2, FirstOfTwo
    <3> QED
      BY <1>5, <2>1, <2>2, <3>1 DEF cmd
  <2>3. CASE own(c) = Blank
    <3>1. ~Void(preset(c)) /\ preset(c) # Blank
      BY <1>2, <2>1, <2>3
    <3>2. cmd = preset(c)
      BY <1>3, <1>4, <2>3, <3>1, FirstOfTwo
    <3> QED
      BY <3>1, <3>2 DEF cmd
  <2> QED
    BY <2>2, <2>3
<1> QED
  BY <1>6, <1>7

\* Every project has a command for every role at every moment
\* (validate_agent_source and PROJECT_SELECT agree); it says nothing only where
\* it is a review command, or a project's own one that stands before its
\* preset's.
THEOREM CommandsAreResolved == Spec => []CommandsResolved
<1>1. TypeOK => CommandsResolved
  BY CommandGiven DEF TypeOK, CommandsResolved
<1> QED
  BY <1>1, FormsTypeCorrect, PTL

-----------------------------------------------------------------------------
(* What a submission changes                                               *)

\* A form opened on one backlog item, routine or project's remote
\* configuration changes no other row of any table, wherever events have moved
\* the cursor and the active project since it was opened (FormKind).
THEOREM OnlyTheirRow == Spec => EditsTheirRow
<1> DEFINE t == TableOf[form.kind]
           A == KeySubmit
                /\ form.kind \in {"ProjectRemoteConfig", "BacklogEdit", "RoutineEdit"}
                => /\ \A u \in DOMAIN db \ {t} : db'[u] = db[u]
                   /\ \A x \in (DOMAIN db[t] \cup DOMAIN db'[t]) \ {form.target} :
                        x \in DOMAIN db[t] /\ x \in DOMAIN db'[t]
                        /\ db'[t][x] = db[t][x]
<1>1. TypeOK /\ [Next]_vars => [A]_vars
  <2> SUFFICES ASSUME TypeOK, KeySubmit,
                      form.kind \in {"ProjectRemoteConfig", "BacklogEdit", "RoutineEdit"}
               PROVE  A
    OBVIOUS
  <2> DEFINE p == SelectedProject(copy, proj)
  <2>1. /\ RowsOK(db) /\ FormOK(form) /\ Open(form)
        /\ db' = db \/ db' \in Results(form, p)
    BY Submitted DEF TypeOK
  <2>2. form.kind = "ProjectRemoteConfig" => DOMAIN Got(form) = ToSet(RemoteLabels)
    BY <2>1, OpenForm, LabelsAre, GotOf
  <2>3. db' = db \/ OnlyRow(db, db', t, form.target)
    <3>1. CASE form.kind = "ProjectRemoteConfig"
      BY <2>1, <2>2, <3>1, ResultsAre, RemoteOK DEF TableOf
    <3>2. CASE form.kind = "BacklogEdit"
      BY <2>1, <3>2, ResultsAre, ItemOK DEF TableOf
    <3>3. CASE form.kind = "RoutineEdit"
      BY <2>1, <3>3, ResultsAre, UpdateRoutineOK DEF TableOf
    <3> QED
      BY <3>1, <3>2, <3>3
  <2> HIDE DEF t
  <2> QED
    BY <2>3 DEF OnlyRow
<1> QED
  BY <1>1, FormsTypeCorrect, PTL DEF Spec, EditsTheirRow

\* The draft of a create is given up only for a new row that holds what the
\* user wrote; a refused, lost or unreachable create leaves it open
\* (submit_create).
THEOREM DraftsAreKept == Spec => DraftKept
<1> DEFINE A == KeySubmit /\ form.kind \in Creates /\ ~Open(form')
                => \E x \in NewRows(TableOf[form.kind]) :
                     LET row == db'[TableOf[form.kind]][x]
                         l == CASE form.kind \in {"Project", "Routine"} -> "name"
                                [] form.kind = "Backlog" -> "text"
                                [] form.kind = "Ask" -> "question"
                                [] form.kind = "QueueMessage" -> "note"
                     IN Trim(form.value[l]) = (IF l = "note" THEN row.text ELSE row[l])
<1>1. TypeOK /\ [Next]_vars => [A]_vars
  <2> SUFFICES ASSUME TypeOK, KeySubmit, form.kind \in Creates, ~Open(form')
               PROVE  A
    OBVIOUS
  <2> DEFINE p == SelectedProject(copy, proj)
  <2>1. /\ RowsOK(db) /\ FormOK(form) /\ Open(form) /\ db' \in Results(form, p)
    BY Submitted DEF TypeOK
  <2>2. /\ DOMAIN Got(form) = ToSet(Labels[form.kind])
        /\ \A l \in ToSet(Labels[form.kind]) : Got(form)[l] = Trim(form.value[l])
    BY <2>1, OpenForm, GotOf
  <2>3. CASE form.kind = "Project"
    <3>1. \E x \in DOMAIN db'.project \ DOMAIN db.project :
            db'.project[x].name = Trim(form.value.name)
      BY <2>1, <2>3, ResultsAre, ProjectRowOK, AddProjectOK
    <3> QED
      BY <2>3, <3>1 DEF NewRows, TableOf
  <2>4. CASE form.kind = "Routine"
    <3>1. \E x \in DOMAIN db'.routine \ DOMAIN db.routine :
            db'.routine[x].name = Got(form).name
      BY <2>1, <2>2, <2>4, ResultsAre, LabelsAre, CreateRoutineOK
    <3> QED
      BY <2>2, <2>4, <3>1, FieldSets DEF NewRows, TableOf
  <2>5. CASE form.kind = "Backlog"
    <3>1. \E x \in DOMAIN db'.backlog \ DOMAIN db.backlog :
            db'.backlog[x].text = Got(form).text
      BY <2>1, <2>5, ResultsAre, AddBacklogOK
    <3> QED
      BY <2>2, <2>5, <3>1, FieldSets DEF NewRows, TableOf
  <2>6. CASE form.kind = "Ask"
    <3>1. \E x \in DOMAIN db'.ask \ DOMAIN db.ask :
            db'.ask[x].question = Got(form).question
      BY <2>1, <2>6, ResultsAre, AskOK
    <3> QED
      BY <2>2, <2>6, <3>1, FieldSets DEF NewRows, TableOf
  <2>7. CASE form.kind = "QueueMessage"
    <3>1. \E x \in DOMAIN db'.note \ DOMAIN db.note :
            db'.note[x].text = Got(form).note
      BY <2>1, <2>7, ResultsAre, SteeringOK
    <3> QED
      BY <2>2, <2>7, <3>1, FieldSets DEF NewRows, TableOf
  <2> QED
    BY <2>3, <2>4, <2>5, <2>6, <2>7 DEF Creates
<1> QED
  BY <1>1, FormsTypeCorrect, PTL DEF Spec, DraftKept

\* A project's row read into its form and sent back: the cadences are their own
\* normal forms, and with a preset no command is filled in.
LEMMA ProjectComesBack ==
  ASSUME TypeOK, Open(form), form.kind = "ProjectConfig", NEW p \in DOMAIN db.project,
         form.row = db.project[p], Checked(form, p), FromRow(form),
         db' \in UpdateProject(db, p, ProjectRow(form)),
         NEW l \in DOMAIN form.value \ form.touched,
         l = "arsenal" => /\ form.row.arsenal # Blank
                          /\ FindPreset(copy, Trim(form.row.arsenal)) = form.row.arsenal
  PROVE  db'.project[p][l] \in {form.row[l], Trim(form.row[l])}
<1> DEFINE row == ProjectRow(form)
<1>1. ProjectOK(db, form.row)
  BY DEF TypeOK, RowsOK
<1>2. l \in ToSet(ConfigLabels) /\ l \notin Commands
  <2>1. l \in ToSet(ConfigLabels)
    BY OpenForm, LabelsAre DEF TypeOK
  <2>2. \A c \in ToSet(ConfigLabels) : c \notin Commands
    BY DEF ToSet, ConfigLabels, Commands
  <2> QED
    BY <2>1, <2>2
<1>3. l \in ProjectColumns
  BY <1>2, ProjectFields, LabelsAre
<1>4. form.value[l] = form.row[l]
  BY <1>1, <1>3 DEF FromRow, ProjectOK
<1>5. DOMAIN row = ProjectColumns
  BY ProjectRowOK DEF TypeOK
<1>6. /\ l # "arsenal" => row[l] = Trim(form.value[l])
      /\ row["arsenal"] = FindPreset(copy, Got(form)["arsenal"])
      /\ l = "arsenal" => row[l] = form.row[l]
  <2>1. "arsenal" \in ProjectColumns /\ "arsenal" \notin Commands
    BY DEF ProjectColumns, ProjectDefaults, Commands
  <2>2. Got(form)[l] = Trim(form.value[l])
    BY GotOf
  <2> QED
    BY <1>2, <1>3, <1>4, <1>5, <2>1, <2>2 DEF ProjectRow
<1>7. row[l] \in {form.row[l], Trim(form.row[l])}
  BY <1>4, <1>6
<1>8. row.arsenal # Blank
  BY <1>6 DEF Checked
<1> HIDE DEF row
<1>9. RouteGiven(row) = row
  BY <1>8 DEF RouteGiven
<1>10. db'.project[p] = Stored(row)
  BY <1>5, <1>9, UpdateProjectOK DEF row, TypeOK
<1>11. CASE l \in Cadences
  <2>1. Normal(form.row[l]) = form.row[l] /\ form.row[l] # Refused
    BY <1>1, <1>11 DEF ProjectOK
  <2>2. Trim(form.row[l]) = form.row[l]
    BY <2>1, TrimNormal
  <2> QED
    BY <1>3, <1>5, <1>7, <1>10, <1>11, <2>1, <2>2 DEF Stored
<1>12. CASE l = "arsenal"
  BY <1>3, <1>5, <1>7, <1>10, <1>12, TrimTwice DEF Stored, Cadences
<1>13. CASE l \notin Cadences \cup {"arsenal"}
  BY <1>3, <1>5, <1>7, <1>10, <1>13 DEF Stored
<1> QED
  BY <1>11, <1>12, <1>13

\* A preset's row sent back: its route command is given, so none is filled in;
\* under another name it becomes another preset.
LEMMA PresetComesBack ==
  ASSUME TypeOK, Open(form), form.kind = "ArsenalPreset", NEW p,
         form.row.name \in DOMAIN db.preset, form.row = db.preset[form.row.name],
         Checked(form, p), FromRow(form),
         db' \in UpsertArsenalPreset(db, Got(form)),
         NEW l \in DOMAIN form.value \ form.touched
  PROVE  db'.preset[form.row.name][l] \in {form.row[l], Trim(form.row[l])}
<1> DEFINE given == Got(form)
           name == Trim(given.name)
<1>1. DOMAIN given = PresetColumns /\ DOMAIN form.value = PresetColumns
  BY OpenForm, FieldSets, GotOf DEF TypeOK
<1>2. given[l] = Trim(form.row[l])
  <2>1. form.value[l] = form.row[l]
    BY DEF FromRow
  <2> QED
    BY <2>1, GotOf
<1>3. ~Void(given.route_cmd)
  <2>1. "route_cmd" \in DOMAIN form.value
    BY <1>1 DEF PresetColumns, Commands
  <2>2. given.route_cmd # Blank
    BY <2>1 DEF Checked, Missing, Optional
  <2>3. given.route_cmd = Trim(form.value.route_cmd)
    BY <2>1, GotOf
  <2> QED
    BY <2>2, <2>3, TrimTwice DEF Void
<1> HIDE DEF given
<1>4. /\ \A n \in DOMAIN db.preset \ {name} : db'.preset[n] = db.preset[n]
      /\ db'.preset[name] = [given EXCEPT !.name = name]
  BY <1>1, <1>3, UpsertPresetOK DEF TypeOK, given
<1>5. CASE name = form.row.name
  <2>1. l = "name" => form.row[l] = name
    BY <1>5
  <2>2. l # "name" => db'.preset[name][l] = given[l]
    BY <1>1, <1>4
  <2>3. l = "name" => db'.preset[name][l] = name
    BY <1>1, <1>4
  <2> QED
    BY <1>2, <1>5, <2>1, <2>2, <2>3
<1>6. CASE name # form.row.name
  BY <1>4, <1>6
<1> QED
  BY <1>5, <1>6

\* An update made from the row as it stands leaves every column whose field the
\* user did not change; only the preset of a project without one, or with a
\* namesake in another case, is exempt (apply_form_submit, dispatch_inner).
THEOREM UntouchedIsKept == Spec => UntouchedKept
<1> DEFINE p == SelectedProject(copy, proj)
           exempt == IF /\ form.kind = "ProjectConfig"
                        /\ \/ form.row.arsenal = Blank
                           \/ FindPreset(copy, Trim(form.row.arsenal)) # form.row.arsenal
                     THEN {"arsenal"} ELSE {}
           A == KeySubmit =>
                  (Known(db, form, p) /\ RowOf(db, form, p) = form.row
                   => \A l \in DOMAIN form.value \ (form.touched \cup exempt) :
                        RowOf(db', form, p)[l] \in {form.row[l], Trim(form.row[l])})
<1>1. TypeOK /\ [Next]_vars => [A]_vars
  <2> SUFFICES ASSUME TypeOK, KeySubmit, Known(db, form, p),
                      RowOf(db, form, p) = form.row,
                      NEW l \in DOMAIN form.value \ (form.touched \cup exempt)
               PROVE  RowOf(db', form, p)[l] \in {form.row[l], Trim(form.row[l])}
    OBVIOUS
  <2>1. CASE db' = db
    BY <2>1 DEF RowOf
  <2>2. CASE db' # db
    <3>1. /\ RowsOK(db) /\ FormOK(form) /\ Open(form)
          /\ Checked(form, p) /\ db' \in Results(form, p)
      BY <2>2, Submitted DEF TypeOK
    <3>2. /\ form.kind \in Kinds /\ DOMAIN form.value = ToSet(Labels[form.kind])
          /\ form.kind \in Updates /\ form.row # NoRow => FromRow(form)
      BY <3>1, OpenForm
    <3> HIDE DEF p
    <3>3. CASE form.kind = "ProjectConfig"
      <4>1. p \in DOMAIN db.project /\ form.row = db.project[p]
        BY <3>3 DEF Known, RowOf
      <4>2. FromRow(form)
        <5>1. DOMAIN form.row = ProjectColumns
          BY <3>1, <4>1 DEF RowsOK, ProjectOK
        <5>2. form.row # NoRow
          BY <5>1 DEF NoRow, ProjectColumns, Required
        <5> QED
          BY <3>2, <3>3, <5>2, KindsAre DEF Updates, Creates
      <4>3. db' \in UpdateProject(db, p, ProjectRow(form))
        BY <3>1, <3>3, ResultsAre
      <4>4. l = "arsenal" => /\ form.row.arsenal # Blank
                             /\ FindPreset(copy, Trim(form.row.arsenal)) = form.row.arsenal
        BY <3>3
      <4>5. db'.project[p][l] \in {form.row[l], Trim(form.row[l])}
        BY <3>1, <3>3, <4>1, <4>2, <4>3, <4>4, ProjectComesBack
      <4> QED
        BY <3>3, <4>5 DEF RowOf
    <3>4. CASE form.kind = "ArsenalPreset"
      <4>1. /\ form.row # NoRow /\ form.row.name \in DOMAIN db.preset
            /\ form.row = db.preset[form.row.name]
        BY <3>4 DEF Known, RowOf
      <4>2. FromRow(form)
        BY <3>2, <3>4, <4>1, KindsAre DEF Updates, Creates
      <4>3. db' \in UpsertArsenalPreset(db, Got(form))
        BY <3>1, <3>4, ResultsAre
      <4>4. db'.preset[form.row.name][l] \in {form.row[l], Trim(form.row[l])}
        BY <3>1, <3>4, <4>1, <4>2, <4>3, PresetComesBack
      <4> QED
        BY <3>4, <4>4 DEF RowOf
    <3>5. CASE form.kind = "GlobalSettings"
      <4>1. form.row = db.global /\ DOMAIN form.row = GlobalColumns
        BY <3>1, <3>5 DEF RowOf, RowsOK
      <4>2. form.row # NoRow
        BY <4>1 DEF NoRow, GlobalColumns
      <4>3. form.value[l] = form.row[l]
        BY <3>2, <3>5, <4>2, KindsAre DEF Updates, Creates, FromRow
      <4>4. db' = [db EXCEPT !.global = Trims(Got(form))]
        BY <3>1, <3>5, ResultsAre DEF UpdateGlobalSettings
      <4>5. Trims(Got(form))[l] = Trim(form.row[l])
        BY <4>3, GotOf, TrimTwice DEF Trims
      <4> QED
        BY <3>1, <3>5, <4>4, <4>5 DEF RowOf, RowsOK
    <3>6. CASE form.kind = "ProjectRemoteConfig"
      <4>1. /\ form.target \in DOMAIN db.remote /\ form.row = db.remote[form.target]
            /\ DOMAIN form.row = ToSet(RemoteLabels)
        BY <3>1, <3>6 DEF Known, RowOf, TableOf, RowsOK
      <4>2. form.row # NoRow
        <5>1. "project" \notin ToSet(RemoteLabels)
          BY RemoteIsNoProject
        <5> QED
          BY <4>1, <5>1 DEF NoRow
      <4>3. form.value[l] = form.row[l]
        BY <3>2, <3>6, <4>2, KindsAre DEF Updates, Creates, FromRow
      <4>4. db'.remote[form.target] = Trims(Got(form))
        BY <3>1, <3>2, <3>6, ResultsAre, RemoteOK, LabelsAre, GotOf
      <4>5. Trims(Got(form))[l] = Trim(form.row[l])
        BY <4>3, GotOf, TrimTwice DEF Trims
      <4> QED
        BY <3>6, <4>4, <4>5 DEF RowOf, TableOf
    <3>7. CASE form.kind = "BacklogEdit"
      <4>1. /\ form.target \in DOMAIN db.backlog /\ form.row = db.backlog[form.target]
            /\ DOMAIN form.row = {"project", "text", "consumed"}
        BY <3>1, <3>7 DEF Known, RowOf, TableOf, RowsOK, Numbered
      <4>2. form.row # NoRow
        BY <4>1 DEF NoRow
      <4>3. form.value[l] = form.row[l] /\ l = "text"
        BY <3>2, <3>7, <4>2, KindsAre, FieldSets DEF Updates, Creates, FromRow
      <4>4. db'.backlog[form.target].text = Got(form).text
        BY <3>1, <3>7, ResultsAre, ItemOK
      <4> QED
        BY <3>7, <4>3, <4>4, GotOf DEF RowOf, TableOf
    <3>8. CASE form.kind = "RoutineEdit"
      <4>1. /\ form.target \in DOMAIN db.routine /\ form.row = db.routine[form.target]
            /\ DOMAIN form.row = {"project"} \cup ToSet(RoutineLabels)
        BY <3>1, <3>8 DEF Known, RowOf, TableOf, RowsOK, Numbered
      <4>2. form.row # NoRow /\ l \in ToSet(RoutineLabels)
        BY <3>2, <3>8, <4>1, FieldSets, LabelsAre DEF NoRow
      <4>3. form.value[l] = form.row[l]
        BY <3>2, <3>8, <4>2, KindsAre DEF Updates, Creates, FromRow
      <4>4. db'.routine[form.target][l] = Got(form)[l]
        BY <3>1, <3>8, <4>2, ResultsAre, UpdateRoutineOK
      <4> QED
        BY <3>8, <4>3, <4>4, GotOf DEF RowOf, TableOf
    <3> QED
      BY <3>3, <3>4, <3>5, <3>6, <3>7, <3>8 DEF Known
  <2> QED
    BY <2>1, <2>2
<1> QED
  BY <1>1, FormsTypeCorrect, PTL DEF Spec, UntouchedKept

=============================================================================
