---------------------------- MODULE DeviceGames ----------------------------
(***************************************************************************)
(* What an agent does to the games of its device (cmd/agent/internal/      *)
(* agentclient/client.go, internal/launcher/shortcut.go): directories,     *)
(* Wine prefixes, the launcher script run.sh, Steam's shortcuts.vdf and    *)
(* the list of games the server shows.  Every command of the server runs   *)
(* in a goroutine of its own and no lock covers the files: run.sh and      *)
(* shortcuts.vdf are read, changed and written back as a whole.            *)
(*                                                                         *)
(* A watch on shortcuts.vdf calls refreshKnownShortcuts half a second      *)
(* after a change.  Without "overlap" in env goroutines run one after the  *)
(* other, and that one when no other is left.                              *)
(*                                                                         *)
(* A game's directory is named by safeName of its title: a game stands     *)
(* here for that name.  An entry of shortcuts.vdf is known by its AppName. *)
(***************************************************************************)
EXTENDS Naturals, FiniteSets, Functions

CONSTANTS
  Titles,    \* games
  Foreign,   \* the name of a shortcut that is not the agent's
  Procs,     \* goroutines
  Args,      \* launch arguments
  Envs,      \* what the environment may do: sets of EnvKinds, of which one holds
  None

EnvKinds ==
  { "install", "delete", "exe", "args", "regen", "rename", "refresh",  \* commands
    "overlap",   \* goroutines run at the same time
    "cloud",     \* Steam Cloud brings the shortcuts of another system
    "art",       \* the server has artwork
    "offline",   \* the server may not answer
    "restart",   \* the agent starts again
    "unsafe",    \* the titles have a character that no file name has
    "fold",      \* a title is the name of the foreign shortcut but for case
    "windows",   \* scripts are run.bat, which nothing parses
    "no_runner" }  \* there is nothing to run a game with: no scripts

RawTitle(g) == <<g, "raw">>

ASSUME EnvAssumption == Envs \subseteq SUBSET EnvKinds
ASSUME DeviceAssumption ==
  /\ Foreign \notin Titles /\ None \notin Titles \union Args \union {Foreign}
  /\ \A g \in Titles : RawTitle(g) \notin Titles \union {Foreign, None}
  /\ Procs # {} /\ Args # {}

VARIABLES
  env,       \* the set of Envs that holds in this behaviour
  games,     \* games with a directory
  script,    \* each game's run.sh or run.bat, or NoScript
  prefixes,  \* Wine prefixes: game, and whether it is named after its title or its id
  vdf,       \* shortcuts.vdf: entries by name
  watch,     \* the watch on shortcuts.vdf is alive
  dirty,     \* ... and has seen a change
  known,     \* Client.scriptPaths
  reported,  \* the games the server shows, and whether they have a shortcut
  pending,   \* goroutines that have yet to run
  proc,      \* those that run
  wanted,    \* history: the launch arguments the user wants for each game
  dropped    \* history: games deleted with their shortcut, and not back since

fileVars    == <<games, script, prefixes>>
steamVars   == <<vdf, watch, dirty>>
clientVars  == <<known, reported>>
historyVars == <<wanted, dropped>>
vars == <<env, fileVars, steamVars, clientVars, pending, proc, historyVars>>

NoScript == [prefix |-> "absent", args |-> None]
NewScript == [prefix |-> "none", args |-> None]
OldScript(a) == [prefix |-> IF "windows" \in env THEN "none" ELSE "id", args |-> a]
NoArgs == CHOOSE a \in Args : TRUE

\* Of the entries others have made: extra is what parseShortcutsVDF does not know (tags,
\* hidden, last played), twin another entry of the same name.
Mine == [exe |-> "mine", icon |-> FALSE, extra |-> FALSE, twin |-> FALSE]
Others == [exe |-> "other", icon |-> TRUE, extra |-> TRUE, twin |-> TRUE]
Direct == [Mine EXCEPT !.exe = "game"]   \* starts the game itself
NoAdd == [name |-> None, entry |-> Mine]
Idle == [at |-> "idle", op |-> "none", game |-> None, todo |-> {}, script |-> NoScript,
         vdf |-> <<>>, add |-> NoAdd, next |-> "idle", seen |-> {}, list |-> <<>>]
Job(op, g) == [op |-> op, game |-> g]
Scan == Job("scan", None)

\* Where prefixes are renamed, an earlier version has installed games.
Init ==
  /\ env \in Envs
  /\ games \in IF "rename" \in env THEN SUBSET Titles ELSE {{}}
  /\ prefixes = games \X {"id"}
  /\ script = [g \in Titles |-> IF g \in games THEN OldScript(NoArgs) ELSE NoScript]
  /\ vdf = [n \in {Foreign} |-> Others]
  /\ watch = TRUE /\ dirty = FALSE
  /\ known = {} /\ reported = <<>>
  /\ pending = {Scan} /\ proc = [p \in Procs |-> Idle]
  /\ wanted = [g \in Titles |-> NoArgs] /\ dropped = {}

-----------------------------------------------------------------------------
(* Goroutines.                                                             *)

AllIdle == pending = {} /\ \A p \in Procs : proc[p].at = "idle"
Quiet == AllIdle /\ ~dirty
Goto(p, at) == proc' = [proc EXCEPT ![p].at = at]
End(p) == proc' = [proc EXCEPT ![p] = Idle]
Put(f, k, e) == [n \in DOMAIN f \union {k} |-> IF n = k THEN e ELSE f[n]]
Spawn(jobs) == pending' = pending \union jobs
Artwork(S) == IF "art" \in env THEN {Job("art", n) : n \in S} ELSE {}

\* What install and changeGameExe call the entry of a game: the title as the server has it.
Title(g) == IF "unsafe" \in env THEN RawTitle(g) ELSE g

\* The names that strings.EqualFold takes for n.
Alike(n) ==
  {n} \union IF "fold" \in env /\ n = CHOOSE g \in Titles : TRUE THEN {Foreign} ELSE {}

\* The bound on what the user asks for while goroutines are under way: those of the
\* watch, which scan too.
Ready ==
  IF "overlap" \in env
  THEN pending = {} /\ \A p \in Procs : proc[p].op \in {"none", "watch"}
  ELSE Quiet

\* listenSSE starts a goroutine for a command.
Command(op, g) ==
  /\ op \in env /\ Ready
  /\ Spawn({Job(op, g)}) /\ pending' # pending
  /\ dropped' = IF op \in {"install", "exe"} THEN dropped \ {g} ELSE dropped
  /\ UNCHANGED <<env, fileVars, steamVars, clientVars, proc, wanted>>

\* The server has saved the arguments, and sends them with installs too.
SetLaunchArgs(g, a) ==
  /\ "args" \in env /\ Ready
  /\ Spawn({Job("args", g)})
  /\ wanted' = [wanted EXCEPT ![g] = a]
  /\ UNCHANGED <<env, fileVars, steamVars, clientVars, proc, dropped>>

\* scanInstalledGames as p goes on with it: the shortcuts are read first.
Scanning(r) == [r EXCEPT !.at = "scan", !.todo = games, !.seen = DOMAIN vdf, !.list = <<>>]

\* The first step of each goroutine.
Entry(op) ==
  CASE op = "install" -> "files"
    [] op = "delete" -> "remove"
    [] op \in {"exe", "args", "regen"} -> "parse"
    [] op = "rename" -> "move"
    [] op = "art" -> "icon"
    [] op \in {"refresh", "watch"} -> "fix"
    [] op = "scan" -> "scan"

\* Goroutines are alike: one starts as the first that is free.
Begin(p) ==
  \E j \in pending :
    /\ proc[p].at = "idle" /\ p = CHOOSE q \in Procs : proc[q].at = "idle"
    /\ "overlap" \in env \/ \A q \in Procs : proc[q].at = "idle"
    /\ pending' = pending \ {j}
    /\ LET r == [Idle EXCEPT !.op = j.op, !.game = j.game, !.at = Entry(j.op)] IN
       proc' = [proc EXCEPT ![p] =
         CASE j.op = "scan" -> Scanning(r)
           [] j.op = "regen" -> [r EXCEPT !.todo = games]
           [] j.op \in {"refresh", "watch"} -> [r EXCEPT !.todo = known]
           [] OTHER -> r]
    /\ UNCHANGED <<env, fileVars, steamVars, clientVars, historyVars>>

\* watchShortcuts: one refresh at a time; what comes meanwhile is dirty again.
WatchFires ==
  /\ dirty
  /\ "overlap" \in env \/ AllIdle
  /\ Job("watch", None) \notin pending /\ \A p \in Procs : proc[p].op # "watch"
  /\ dirty' = FALSE
  /\ Spawn({Job("watch", None)})
  /\ UNCHANGED <<env, fileVars, vdf, watch, clientVars, proc, historyVars>>

-----------------------------------------------------------------------------
(* run.sh.  What the file says besides the exe are the prefix, which it    *)
(* may lack, and the arguments, None where nobody has set any.             *)

\* createRunScript makes the directory, and writes the whole file if it can.  run.bat
\* names no prefix.
CreateRunScript(g, s) ==
  /\ games' = games \union {g}
  /\ IF "no_runner" \in env THEN UNCHANGED script
     ELSE script' = [script EXCEPT ![g] = IF "windows" \in env THEN [s EXCEPT !.prefix = "none"] ELSE s]

\* executeJob from the extracted archives to the script, if an exe is found.
InstallFiles(p) ==
  LET g == proc[p].game IN
  /\ proc[p].at = "files"
  /\ prefixes' \in {prefixes, prefixes \union {<<g, "title">>}}
  /\ \/ /\ CreateRunScript(g, [prefix |-> "title", args |-> wanted[g]])
        /\ Goto(p, "add") /\ UNCHANGED pending
     \/ /\ games' = games \union {g} /\ UNCHANGED script
        /\ End(p) /\ Spawn({Scan})
  /\ UNCHANGED <<env, steamVars, clientVars, historyVars>>

\* parseRunScript of run.sh; a file that is not there gives nothing.
Parsed(g) == IF "windows" \in env THEN NoScript ELSE script[g]

Parse(p) ==
  /\ proc[p].at = "parse"
  /\ \/ /\ proc[p].op = "regen"
        /\ \E g \in proc[p].todo :
             proc' = [proc EXCEPT ![p].game = g, ![p].todo = @ \ {g}, ![p].script = Parsed(g),
                        ![p].at = IF Parsed(g) = NoScript THEN "parse" ELSE "write"]
     \/ /\ proc[p].op = "regen" /\ proc[p].todo = {}
        /\ proc' = [proc EXCEPT ![p] = Scanning(proc[p])]
     \/ /\ proc[p].op = "exe"
        /\ proc' = [proc EXCEPT ![p].script = Parsed(proc[p].game), ![p].at = "write"]
     \/ /\ proc[p].op = "args"
        /\ IF Parsed(proc[p].game) = NoScript THEN End(p)
           ELSE proc' = [proc EXCEPT ![p].script = Parsed(proc[p].game), ![p].at = "write"]
  /\ UNCHANGED <<env, fileVars, steamVars, clientVars, pending, historyVars>>

\* changeGameExe that passes no launch arguments on.
Rewritten_DropsArgs(op, g, s) ==
  CASE op = "args"  -> [s EXCEPT !.args = wanted[g]]
    [] op = "regen" -> [s EXCEPT !.prefix = IF @ = "none" THEN "title" ELSE @]
    [] op = "exe"   -> IF s = NoScript THEN NewScript
                       ELSE [s EXCEPT !.args = None]

\* What each rewriting makes of the script s it has parsed: changeGameExe keeps the rest,
\* and makes a script where it has found none; regenerateScripts gives every script a prefix.
Rewritten(op, g, s) ==
  CASE op = "args"  -> [s EXCEPT !.args = wanted[g]]
    [] op = "regen" -> [s EXCEPT !.prefix = IF @ = "none" THEN "title" ELSE @]
    [] op = "exe"   -> IF s = NoScript THEN NewScript ELSE s

WriteScript(p) ==
  LET r == proc[p] IN
  /\ r.at = "write"
  /\ CreateRunScript(r.game, Rewritten(r.op, r.game, r.script))
  /\ CASE r.op = "args"  -> End(p)
       [] r.op = "regen" -> Goto(p, "parse")
       [] r.op = "exe"   -> IF "no_runner" \in env THEN End(p) ELSE Goto(p, "add")
  /\ UNCHANGED <<env, prefixes, steamVars, clientVars, pending, historyVars>>

\* renamePrefix: the directory first ...
MovePrefix(p) ==
  LET g == proc[p].game
      from == IF Parsed(g).prefix \in {"absent", "none"} THEN "id" ELSE script[g].prefix IN
  /\ proc[p].at = "move"
  /\ IF from # "title" /\ <<g, from>> \in prefixes /\ <<g, "title">> \notin prefixes
     THEN /\ prefixes' = (prefixes \ {<<g, from>>}) \union {<<g, "title">>}
          /\ Goto(p, "repath")
     ELSE UNCHANGED prefixes /\ End(p)
  /\ UNCHANGED <<env, games, script, steamVars, clientVars, pending, historyVars>>

\* ... then its path in the script, if there is one.
RepathScript(p) ==
  LET g == proc[p].game IN
  /\ proc[p].at = "repath"
  /\ script' = [script EXCEPT ![g].prefix = IF @ = "id" THEN "title" ELSE @]
  /\ End(p)
  /\ UNCHANGED <<env, games, prefixes, steamVars, clientVars, pending, historyVars>>

-----------------------------------------------------------------------------
(* shortcuts.vdf.                                                          *)

\* AddSteamShortcut reads the file; the new one is written in two steps.
Adding(r, n, e, next) ==
  [r EXCEPT !.at = "truncate", !.add = [name |-> n, entry |-> e], !.vdf = vdf, !.next = next]

\* ShortcutEntryMatches looks at the first entry whose name is alike: the foreign one is
\* older.
Matches(g) ==
  /\ Foreign \notin Alike(g) \intersect DOMAIN vdf
  /\ g \in DOMAIN vdf /\ vdf[g].exe = "mine"

\* The end of an install and of changeGameExe; an icon of the old entry is lost.
AddShortcut(p) ==
  /\ proc[p].at = "add"
  /\ proc' = [proc EXCEPT ![p] =
       Adding(@, Title(@.game), IF "no_runner" \in env THEN Direct ELSE Mine, "added")]
  /\ UNCHANGED <<env, fileVars, steamVars, clientVars, pending, historyVars>>

\* os.WriteFile empties the file first.
TruncateVdf(p) ==
  /\ proc[p].at = "truncate"
  /\ vdf' = <<>> /\ dirty' = (dirty \/ watch)
  /\ Goto(p, "fill")
  /\ UNCHANGED <<env, fileVars, watch, clientVars, pending, historyVars>>

\* buildShortcutsVDF writes what parseShortcutsVDF has kept.
FillVdf(p) ==
  LET r == proc[p]
      new == Put(r.vdf, r.add.name, r.add.entry) IN
  /\ r.at = "fill"
  /\ vdf' = [n \in DOMAIN new |-> [new[n] EXCEPT !.extra = FALSE]] /\ dirty' = (dirty \/ watch)
  /\ proc' = [proc EXCEPT ![p] = [r EXCEPT !.at = r.next, !.vdf = <<>>, !.add = NoAdd]]
  /\ UNCHANGED <<env, fileVars, watch, clientVars, pending, historyVars>>

Added(p) ==
  /\ proc[p].at = "added"
  /\ Spawn({Scan} \union IF proc[p].op = "install" THEN Artwork({Title(proc[p].game)}) ELSE {})
  /\ End(p)
  /\ UNCHANGED <<env, fileVars, steamVars, clientVars, historyVars>>

\* updateShortcutIcon, once the images are there.
SetIcon(p) ==
  LET bare == {n \in Alike(proc[p].game) \intersect DOMAIN vdf : ~vdf[n].icon} IN
  /\ proc[p].at = "icon"
  /\ \/ \E n \in bare :
          proc' = [proc EXCEPT ![p] = Adding(@, n, [vdf[n] EXCEPT !.icon = TRUE], "iconed")]
     \/ bare = {} /\ End(p)
  /\ UNCHANGED <<env, fileVars, steamVars, clientVars, pending, historyVars>>

IconDone(p) ==
  /\ proc[p].at = "iconed"
  /\ End(p)
  /\ UNCHANGED <<env, fileVars, steamVars, clientVars, pending, historyVars>>

\* refreshShortcut that looks for an entry of the name only.
RefreshShortcut_ByName(r, g, next) ==
  IF g \in DOMAIN vdf THEN [r EXCEPT !.at = next] ELSE Adding(r, g, Mine, next)

\* refreshShortcut writes nothing when the entry is right.
RefreshShortcut(r, g, next) ==
  IF Matches(g) THEN [r EXCEPT !.at = next] ELSE Adding(r, g, Mine, next)

\* refreshKnownShortcuts: what scriptPaths says, then a scan.
FixShortcuts(p) ==
  LET r == proc[p] IN
  /\ r.at = "fix"
  /\ \/ \E g \in r.todo :
          /\ proc' = [proc EXCEPT ![p] = RefreshShortcut([r EXCEPT !.todo = @ \ {g}], g, "fix")]
          /\ Spawn(Artwork({g}))
     \/ /\ r.todo = {}
        /\ proc' = [proc EXCEPT ![p] = Scanning(r)]
        /\ UNCHANGED pending
  /\ UNCHANGED <<env, fileVars, steamVars, clientVars, historyVars>>

\* One directory of scanInstalledGames.
ScanGame(p) ==
  LET r == proc[p] IN
  /\ r.at = "scan"
  /\ \E g \in r.todo :
       LET s == [r EXCEPT !.todo = @ \ {g},
                          !.list = Put(@, g, script[g] # NoScript \/ Alike(g) \intersect r.seen # {})] IN
       proc' = [proc EXCEPT ![p] = IF script[g] # NoScript THEN RefreshShortcut(s, g, "scan") ELSE s]
  /\ UNCHANGED <<env, fileVars, steamVars, clientVars, pending, historyVars>>

\* A report that forgets no path.
Report_Merged(p) ==
  LET r == proc[p] IN
  /\ r.at = "scan" /\ r.todo = {}
  /\ \/ /\ reported' = r.list
        /\ known' = known \union {g \in DOMAIN r.list : script[g] # NoScript}
     \/ "offline" \in env /\ UNCHANGED clientVars
  /\ End(p)
  /\ UNCHANGED <<env, fileVars, steamVars, pending, historyVars>>

\* A report that takes every shortcut for a game of the agent's.
Report_OfShortcuts(p) ==
  LET r == proc[p] IN
  /\ r.at = "scan" /\ r.todo = {}
  /\ reported' = r.list /\ known' = r.seen
  /\ End(p)
  /\ UNCHANGED <<env, fileVars, steamVars, pending, historyVars>>

\* scriptPaths are replaced only after the server has answered.
Report(p) ==
  LET r == proc[p] IN
  /\ r.at = "scan" /\ r.todo = {}
  /\ \/ /\ reported' = r.list
        /\ known' = {g \in DOMAIN r.list : script[g] # NoScript}
     \/ "offline" \in env /\ UNCHANGED clientVars
  /\ End(p)
  /\ UNCHANGED <<env, fileVars, steamVars, pending, historyVars>>

-----------------------------------------------------------------------------
(* deleteGame.                                                             *)

\* A removal that fails may have removed the script, and ends.
RemoveFiles(p) ==
  LET g == proc[p].game IN
  /\ proc[p].at = "remove"
  /\ \/ /\ games' = games \ {g} /\ script' = [script EXCEPT ![g] = NoScript]
        /\ prefixes' = prefixes \ {<<g, "title">>}
        /\ Goto(p, "unlist")
     \/ /\ script' \in {script, [script EXCEPT ![g] = NoScript]}
        /\ End(p) /\ UNCHANGED <<games, prefixes>>
  /\ UNCHANGED <<env, steamVars, clientVars, pending, historyVars>>

\* deleteGame that reports nothing.
KeepShortcut_Silent(p) ==
  /\ proc[p].at = "unlist"
  /\ End(p)
  /\ UNCHANGED <<env, fileVars, steamVars, clientVars, pending, historyVars>>

\* Without RemoveShortcut the entry stays.
KeepShortcut(p) ==
  /\ proc[p].at = "unlist"
  /\ proc' = [proc EXCEPT ![p] = Scanning(proc[p])]
  /\ UNCHANGED <<env, fileVars, steamVars, clientVars, pending, historyVars>>

\* removeShortcut removes the file, and with it the watch, and adds what is left.
RemoveShortcut(p) ==
  LET g == proc[p].game IN
  /\ proc[p].at = "unlist"
  /\ IF Alike(g) \intersect DOMAIN vdf # {}
     THEN /\ vdf' = <<>> /\ watch' = FALSE /\ dirty' = (dirty \/ watch)
          /\ proc' = [proc EXCEPT ![p].at = "readd",
                                  ![p].list = Restrict(vdf, DOMAIN vdf \ Alike(g))]
     ELSE /\ proc' = [proc EXCEPT ![p] = Scanning(proc[p])]
          /\ UNCHANGED steamVars
  /\ dropped' = dropped \union {g}
  /\ UNCHANGED <<env, fileVars, clientVars, pending, wanted>>

\* Of entries of one name the last replaces the others.
ReaddShortcut(p) ==
  LET r == proc[p] IN
  /\ r.at = "readd"
  /\ \/ \E n \in DOMAIN r.list :
          proc' = [proc EXCEPT ![p] =
            Adding([r EXCEPT !.list = Restrict(r.list, DOMAIN r.list \ {n})], n,
                   [r.list[n] EXCEPT !.twin = FALSE], "readd")]
     \/ /\ DOMAIN r.list = {}
        /\ proc' = [proc EXCEPT ![p] = Scanning(r)]
  /\ UNCHANGED <<env, fileVars, steamVars, clientVars, pending, historyVars>>

-----------------------------------------------------------------------------
(* The environment.                                                        *)

\* Steam writes what another system's agent has made of the games' entries.
Cloud ==
  /\ "cloud" \in env /\ Ready
  /\ \E n \in DOMAIN vdf : n # Foreign /\ vdf[n].exe = "mine"
  /\ vdf' = [n \in DOMAIN vdf |-> IF n = Foreign THEN vdf[n] ELSE [vdf[n] EXCEPT !.exe = "other"]]
  /\ dirty' = (dirty \/ watch)
  /\ UNCHANGED <<env, fileVars, watch, clientVars, pending, proc, historyVars>>

\* The agent stops, wherever its goroutines are, and starts again.
Restart ==
  /\ "restart" \in env
  /\ proc' = [p \in Procs |-> Idle] /\ pending' = {Scan}
  /\ known' = {} /\ watch' = TRUE /\ dirty' = FALSE
  /\ UNCHANGED <<env, fileVars, vdf, reported, historyVars>>

Disturb ==
  \/ \E g \in Titles :
       \/ \E op \in {"install", "delete", "exe", "rename"} : Command(op, g)
       \/ \E a \in Args : SetLaunchArgs(g, a)
  \/ \E op \in {"regen", "refresh"} : Command(op, None)
  \/ Cloud
  \/ Restart

Step(p) ==
  \/ Begin(p) \/ InstallFiles(p) \/ Parse(p) \/ WriteScript(p) \/ MovePrefix(p) \/ RepathScript(p)
  \/ AddShortcut(p) \/ TruncateVdf(p) \/ FillVdf(p) \/ Added(p) \/ SetIcon(p) \/ IconDone(p)
  \/ FixShortcuts(p) \/ ScanGame(p) \/ Report(p)
  \/ RemoveFiles(p) \/ KeepShortcut(p) \/ RemoveShortcut(p) \/ ReaddShortcut(p)

Next == Disturb \/ WatchFires \/ \E p \in Procs : Step(p)

\* Goroutines go on and the debounce timer fires.
Spec == Init /\ [][Next]_vars /\ WF_vars(WatchFires) /\ \A p \in Procs : WF_vars(Step(p))

-----------------------------------------------------------------------------
(* Properties.                                                             *)

Serial == "overlap" \notin env /\ "restart" \notin env

\* Every file, list and goroutine has the form the code gives it.
TypeOK ==
  /\ env \in Envs /\ games \subseteq Titles /\ known \subseteq Titles
  /\ script \in [Titles -> [prefix : {"absent", "none", "title", "id"}, args : Args \union {None}]]
  /\ prefixes \subseteq Titles \X {"title", "id"}
  /\ DOMAIN vdf \subseteq Titles \union {RawTitle(g) : g \in Titles} \union {Foreign}
  /\ \A n \in DOMAIN vdf :
       vdf[n] \in [exe : {"mine", "other", "game"}, icon : BOOLEAN, extra : BOOLEAN, twin : BOOLEAN]
  /\ watch \in BOOLEAN /\ dirty \in BOOLEAN
  /\ DOMAIN reported \subseteq Titles /\ \A g \in DOMAIN reported : reported[g] \in BOOLEAN
  /\ \A p \in Procs : proc[p].todo \subseteq Titles
  /\ wanted \in [Titles -> Args] /\ dropped \subseteq Titles

\* A game deleted together with its shortcut does not get it back: the refresh that
\* the removal itself sets off works from scriptPaths, which the scan of deleteGame
\* must have replaced by then (client.go:1448, :1501).  This is the entry by the name of
\* the directory: one that the installation made by another title stays (:549, :1235).
NoGhostShortcut ==
  Serial /\ "offline" \notin env /\ Quiet => dropped \intersect DOMAIN vdf = {}

\* A script has the launch arguments it was last given (client.go:1744).  Those of run.bat
\* are never changed, and changeGameExe loses them; without a runner no script is written.
SettingsKept ==
  Serial /\ env \intersect {"windows", "no_runner"} = {} /\ Quiet =>
    \A g \in Titles : script[g].args \in {None, wanted[g]}

\* ... and no rewriting leaves them out.
ArgumentsStay ==
  Serial /\ "windows" \notin env =>
    \A g \in Titles : script[g].args # None /\ script'[g] # NoScript => script'[g].args # None

\* A script that names a prefix by the game's id finds it (client.go:2045).
ScriptFindsPrefix ==
  Serial /\ Quiet => \A g \in Titles : script[g].prefix = "id" => <<g, "id">> \in prefixes

\* A shortcut that is not the agent's keeps what parseShortcutsVDF knows of it, and other
\* entries of its name until a shortcut is removed, which ends the watch (client.go:1938),
\* unless it goes by the name of a game.
ForeignKept ==
  Serial /\ "fold" \notin env /\ Quiet =>
    /\ Foreign \in DOMAIN vdf
    /\ vdf[Foreign].exe = Others.exe /\ vdf[Foreign].icon = Others.icon
    /\ watch => vdf[Foreign].twin

\* Whatever rewrites scripts and shortcuts, it takes over what it does not change.
NothingLost ==
  /\ [](SettingsKept /\ ScriptFindsPrefix /\ ForeignKept)
  /\ [][ArgumentsStay]_vars

\* Once everything has run, the server shows the games of the device and which of
\* them have a shortcut by the name of their directory.  Without a runner changeGameExe
\* makes a directory and does not scan (client.go:1747).
ServerShowsDevice ==
  Serial /\ env \intersect {"offline", "no_runner"} = {} /\ Quiet =>
    reported = [g \in games |-> script[g] # NoScript \/ Alike(g) \intersect DOMAIN vdf # {}]

\* When nobody interferes any more, every game with a script comes to have a shortcut
\* that starts it, and the watch comes to rest, whatever goroutines overwrote before
\* (client.go:1475, watch-write-watch).  A watch that removeShortcut has ended sees
\* no later change.  With a foreign entry whose name is alike the loop does not end.
ShortcutsSettle ==
  "fold" \notin env /\ <>[][~Disturb]_vars =>
    <>[](~dirty /\ (watch => \A g \in Titles : script[g] # NoScript => Matches(g)))
=============================================================================
