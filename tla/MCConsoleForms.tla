--------------------------- MODULE MCConsoleForms ---------------------------
(***************************************************************************)
(* A small instance of ConsoleForms for TLC: a project with a preset and   *)
(* one, in another profile, with commands of its own; an item, a routine   *)
(* and an issue; a preset that differs from a built in one only in case.   *)
(* " " is white space and, in a preset's review command, the empty text.   *)
(***************************************************************************)
EXTENDS ConsoleForms

Cmds(c) == [main_cmd |-> c, route_cmd |-> c, plan_cmd |-> c, work_cmd |-> c,
            review_cmd |-> Blank]
Preset(n, c) == Cmds(c) @@ [name |-> n]
Project(n, row) ==
  row @@ [name |-> n, repo_path |-> "/" \o n, branch |-> "main"] @@ ProjectDefaults

MCNormalForm == "" :> "" @@ "@tick" :> "@tick" @@ "0 0 * * 0" :> "0 0 * * 0"
                @@ "1500m" :> Refused
MCTrimmed == " " :> "" @@ " q" :> "q" @@ " p" :> "p" @@ " codex" :> "codex"
MCNameOrder == <<"Codex", "claude", "codex">>
MCAlike == {<<"codex", "codex">>, <<"codex", "Codex">>, <<"Codex", "codex">>,
            <<"Codex", "Codex">>, <<"claude", "claude">>}
MCRepos == <<"/a">>

MCRows ==
  [project |-> 1 :> Project("a", [arsenal |-> "codex"])
               @@ 2 :> Project("b", Cmds("own")),
   place |-> 1 :> [profile |-> 1, order |-> 1] @@ 2 :> [profile |-> 2, order |-> 1],
   profile |-> 1 :> "Default" @@ 2 :> "Else",
   preset |-> "codex" :> Preset("codex", "cx") @@ "claude" :> Preset("claude", "cl"),
   builtin |-> {"codex", "claude"}, memory |-> {"codex"},
   global |-> [memory_preset |-> "codex", pipeline_ux_guidance |-> "g"],
   remote |-> 1 :> [RemoteDefaults EXCEPT !["remote_url"] = "u",
                      !["remote_owner"] = "o", !["remote_repo"] = "r",
                      !["remote_auth_ref"] = "TOKEN"],
   backlog |-> 1 :> [project |-> 1, text |-> "t", consumed |-> FALSE],
   routine |-> 1 :> [project |-> 1, name |-> "n", output |-> "report",
                     cron |-> "c", prompt |-> "p", writable_paths |-> Blank,
                     enabled |-> "false"],
   issue |-> 1 :> [project |-> 1, state |-> "listens"],
   ask |-> <<>>, note |-> <<>>]

MCEntered == [name |-> {"a", "z"}, text |-> {"", "u"}, question |-> {" ", " q"},
              note |-> {"m"}, remote_auth_ref |-> {""}, work_cmd |-> {""},
              pipeline_ux_guidance |-> {TooLong}, remote_auth_kind |-> {"none"},
              remote_draft_pr |-> {"true"}, output |-> {"memory"},
              enabled |-> {"true"}, mode |-> {"seek"}]
MCIntegers == {"10", "60", "30", "5", "3"}

C(cmd, id, row) == [cmd |-> cmd, id |-> id, row |-> row]
Named(cmd, id, name) == [cmd |-> cmd, id |-> id, name |-> name]
ByCommand == [op \in MemoryOps |-> IF op = "save" THEN "command" ELSE "portable"]
MCOthers ==
  {C("RemoveProject", 1, <<>>), C("ConsumeBacklog", 1, <<>>),
   C("RemoveRoutine", 1, <<>>), C("DeleteProjectRemoteConfig", 1, <<>>),
   C("UpdateRoutine", 1, [MCRows.routine[1] EXCEPT !["prompt"] = " p"]),
   C("UpsertArsenalPreset", 0, [Preset(" codex", "cx") EXCEPT !.review_cmd = " "]),
   C("UpdateProject", 1, [MCRows.project[1] EXCEPT !.arsenal = " codex",
                                                   !.plan_cmd = " "]),
   C("UpdateGlobalSettings", 0, [MCRows.global EXCEPT !["memory_preset"] = "other"]),
   C("AddProject", 0, [name |-> "z", repo_path |-> "/z", branch |-> "main",
                       arsenal |-> "gone"]),
   C("AddProject", 0, [name |-> "z", repo_path |-> "/z", branch |-> "main",
                       arsenal |-> " ", main_cmd |-> "m"]),
   C("AddProject", 0, [Cmds("own") EXCEPT !.route_cmd = Blank] @@
                     [name |-> "z", repo_path |-> "/z", branch |-> "main"]),
   [cmd |-> "MoveProjectToProfile", id |-> 1, to |-> 2],
   [cmd |-> "MoveProjectInProfile", id |-> 2, to |-> "up"],
   Named("CreateProfile", 0, "Else"), Named("RenameProfile", 2, "Default"),
   Named("MoveIssue", 1, "busy"),
   [cmd |-> "UpsertMemoryPreset", name |-> "more", kind |-> ByCommand,
    row |-> [op \in MemoryOps |-> Blank]]}

=============================================================================
