---------------------------- MODULE GameLibrary ----------------------------
(***************************************************************************)
(* Everyone who writes the table Games: the handlers that edit, refresh    *)
(* and delete a game (internal/api/games.go, lookup.go), the scanner of    *)
(* the library folder and CleanLibrary (internal/scanner/scanner.go,       *)
(* internal/api/media.go), the report of an agent's scan (internal/api/    *)
(* agents.go), the update checker (internal/updater/checker.go) and, in    *)
(* one step, the import that DownloadImport has in detail.                 *)
(*                                                                         *)
(* A title is also the directory of the game in the library folder; a      *)
(* version is its place in the order of IsNewerVersion, 0 for none.        *)
(***************************************************************************)
EXTENDS GameRows, FiniteSets

CONSTANTS
  Titles,      \* games, and their directories
  Edits,       \* calls of UpdateGame and RefreshGameMetadata
  Scans,       \* calls of Scan
  Envs,        \* what the environment may do: sets of EnvKinds, of which one holds
  MaxVersion,  \* bound on versions
  MaxGame,     \* bound on the rows made
  None

EnvKinds ==
  { "edit", "refresh", "delete", "clean",   \* requests of a browser
    "add_path",      \* ... that adds a game with a directory
    "scan", "stop",
    "db_fail",       \* a scan cannot read the table
    "report",        \* agents report what they found installed
    "race",          \* ... while an import writes
    "import",        \* downloads are imported
    "check",         \* the checker runs, and new versions appear
    "search_fail",   \* ... and its searches may fail,
    "many" }         \* ... or have more than ten results, the newest not among the first

ASSUME EnvAssumption == Envs \subseteq SUBSET EnvKinds
ASSUME LibraryAssumption == MaxVersion \in Nat /\ MaxGame \in Nat /\ None \notin Titles

Ids == 1..MaxGame
Versions == 0..MaxVersion

VARIABLES
  env,         \* the set of Envs that holds in this behaviour
  rows, lastId,  \* the table Games
  folder,      \* the directories there are in the library folder
  edit,        \* each UpdateGame or RefreshGameMetadata: the row it has read
  scanning,    \* Service.scanning
  scan,        \* each Scan: the entries left, the paths it read, cancelled or not
  cancelable,  \* the Scan that Service.cancelScan cancels
  clean,       \* the rows that CleanLibrary has yet to look at
  report,      \* the row a report has found without a version, and its version
  published,   \* the newest version of each title on the indexers
  check,       \* the rows that CheckAll has yet to look at
  parsed       \* history: the version an import gave each row

libraryVars == <<rows, lastId>>
scanVars    == <<scanning, scan, cancelable>>
vars == <<env, libraryVars, folder, edit, scanVars, clean, report, published, check, parsed>>

Row(t, p, v) == [title |-> t, igdb |-> t, path |-> p, meta |-> "old", version |-> v,
                 latest |-> 0, updateAvailable |-> FALSE]
NoScan == [at |-> "idle", left |-> {}, known |-> {}, cancelled |-> FALSE]

Init ==
  /\ env \in Envs
  /\ rows = NoRows /\ lastId = 0
  /\ folder \in SUBSET Titles
  /\ edit = [e \in Edits |-> None]
  /\ scanning = FALSE /\ scan = [s \in Scans |-> NoScan] /\ cancelable = None
  /\ clean = {} /\ report = None
  /\ published = [t \in Titles |-> 0] /\ check = {}
  /\ parsed = [g \in Ids |-> 0]

Insert(row) ==
  /\ lastId < MaxGame
  /\ lastId' = lastId + 1
  /\ rows' = CreateGame(rows, lastId', row)

-----------------------------------------------------------------------------
(* Handlers.                                                               *)

\* The body of the request may have a path, which nobody compares with the table.
AddGame(t) ==
  /\ \E p \in {None} \union (IF "add_path" \in env THEN Titles ELSE {}) : Insert(Row(t, p, 0))
  /\ UNCHANGED <<env, folder, edit, scanVars, clean, report, published, check, parsed>>

\* Both read the row, wait for IGDB, and write the row back.
ReadGame(e, g) ==
  /\ env \intersect {"edit", "refresh"} # {}
  /\ edit[e] = None /\ g \in DOMAIN rows
  /\ edit' = [edit EXCEPT ![e] = [id |-> g, row |-> rows[g]]]
  /\ UNCHANGED <<env, libraryVars, folder, scanVars, clean, report, published, check, parsed>>

WriteGame(e, row) ==
  /\ rows' = UpdateGame(rows, edit[e].id, row)
  /\ edit' = [edit EXCEPT ![e] = None]
  /\ UNCHANGED <<env, lastId, folder, scanVars, clean, report, published, check, parsed>>

\* UpdateGame: the user may have picked another directory.
EditGame(e) ==
  /\ "edit" \in env /\ edit[e] # None
  /\ \E p \in folder \union {edit[e].row.path} :
       WriteGame(e, [edit[e].row EXCEPT !.meta = "edited", !.path = p])

RefreshGameMetadata(e) ==
  /\ "refresh" \in env /\ edit[e] # None
  /\ WriteGame(e, [edit[e].row EXCEPT !.meta = "igdb"])

\* DeleteGame, with the game's directory if the user asks for it.
RemoveGame(g) ==
  /\ "delete" \in env /\ g \in DOMAIN rows
  /\ folder' \in {folder, folder \ {rows[g].path}}
  /\ rows' = DeleteGame(rows, g)
  /\ UNCHANGED <<env, lastId, edit, scanVars, clean, report, published, check, parsed>>

DeleteAllGames ==
  /\ "delete" \in env /\ rows # NoRows
  /\ rows' = NoRows
  /\ UNCHANGED <<env, lastId, folder, edit, scanVars, clean, report, published, check, parsed>>

-----------------------------------------------------------------------------
(* The scanner.  TriggerScan calls Scan in a goroutine.                    *)

\* Two calls that both read scanning before either sets it.
StartScan_Unguarded(s) ==
  /\ "scan" \in env /\ scan[s].at = "idle" /\ cancelable # s
  /\ scanning' = TRUE
  /\ scan' = [scan EXCEPT ![s] = [NoScan EXCEPT !.at = "begun"]]
  /\ UNCHANGED <<env, libraryVars, folder, edit, cancelable, clean, report, published, check,
                 parsed>>

\* A scan that finds scanning set returns at once.  The context that cancelScan still
\* holds is that of an ended scan, never the new one's.
StartScan(s) ==
  /\ "scan" \in env /\ scan[s].at = "idle" /\ cancelable # s
  /\ ~scanning
  /\ scanning' = TRUE
  /\ scan' = [scan EXCEPT ![s] = [NoScan EXCEPT !.at = "begun"]]
  /\ UNCHANGED <<env, libraryVars, folder, edit, cancelable, clean, report, published, check,
                 parsed>>

SetCancel(s) ==
  /\ scan[s].at = "begun"
  /\ scan' = [scan EXCEPT ![s].at = "root"]
  /\ cancelable' = s
  /\ UNCHANGED <<env, libraryVars, folder, edit, scanning, clean, report, published, check,
                 parsed>>

\* The directories of the folder, then the paths of all games: of none, when GetAllGames
\* fails, for its error is dropped.
ReadFolder(s) ==
  /\ scan[s].at = "root" /\ ~scan[s].cancelled
  /\ \E known \in {{ rows[g].path : g \in DOMAIN rows }}
                   \union (IF "db_fail" \in env THEN {{}} ELSE {}) :
       scan' = [scan EXCEPT ![s].at = "walk", ![s].left = folder, ![s].known = known]
  /\ UNCHANGED <<env, libraryVars, folder, edit, scanning, cancelable, clean, report, published,
                 check, parsed>>

\* An INSERT that fails is skipped; here it is the one beyond MaxGame.
ScanEntry(s, t) ==
  /\ scan[s].at = "walk" /\ ~scan[s].cancelled
  /\ t \in scan[s].left
  /\ scan' = [scan EXCEPT ![s].left = @ \ {t}]
  /\ IF t \in scan[s].known \/ lastId = MaxGame THEN UNCHANGED libraryVars ELSE Insert(Row(t, t, 0))
  /\ UNCHANGED <<env, folder, edit, scanning, cancelable, clean, report, published, check,
                 parsed>>

\* A goroutine that is cancelled before it has looked at the folder returns early.
EndScan_NotAtRoot(s) ==
  /\ scan[s].at = "walk" /\ (scan[s].cancelled \/ scan[s].left = {})
  /\ scanning' = FALSE
  /\ scan' = [scan EXCEPT ![s] = NoScan]
  /\ UNCHANGED <<env, libraryVars, folder, edit, cancelable, clean, report, published, check,
                 parsed>>

\* The flag falls after the walk, not on every way out of it.
EndScan_WhenWhole(s) ==
  /\ \/ scan[s].at = "root"
     \/ scan[s].at = "walk" /\ (scan[s].cancelled \/ scan[s].left = {})
  /\ scanning' = scan[s].cancelled
  /\ scan' = [scan EXCEPT ![s] = NoScan]
  /\ UNCHANGED <<env, libraryVars, folder, edit, cancelable, clean, report, published, check,
                 parsed>>

\* Cancelled, without a folder it can read, or done.  cancelScan stays behind.
EndScan(s) ==
  /\ \/ scan[s].at = "root"
     \/ scan[s].at = "walk" /\ (scan[s].cancelled \/ scan[s].left = {})
  /\ scanning' = FALSE
  /\ scan' = [scan EXCEPT ![s] = NoScan]
  /\ UNCHANGED <<env, libraryVars, folder, edit, cancelable, clean, report, published, check,
                 parsed>>

\* Cancelling the context of a scan that has ended does nothing.
StopScan ==
  /\ "stop" \in env /\ cancelable # None
  /\ scan' = [scan EXCEPT ![cancelable].cancelled = TRUE]
  /\ cancelable' = None
  /\ UNCHANGED <<env, libraryVars, folder, edit, scanning, clean, report, published, check,
                 parsed>>

\* CleanLibrary reads all games, then looks for the directory of each.
CleanLibrary ==
  /\ "clean" \in env /\ clean = {}
  /\ clean' = { [id |-> g, path |-> rows[g].path] : g \in DOMAIN rows }
  /\ clean' # {}
  /\ UNCHANGED <<env, libraryVars, folder, edit, scanVars, report, published, check, parsed>>

CleanGame(c) ==
  /\ c \in clean
  /\ clean' = clean \ {c}
  /\ rows' = IF c.path \in folder \union {None} THEN rows ELSE DeleteGame(rows, c.id)
  /\ UNCHANGED <<env, lastId, folder, edit, scanVars, report, published, check, parsed>>

-----------------------------------------------------------------------------
(* Versions: the release name of an import, an agent's report, the checker.*)

\* addGameToLibrary; it must not fall into a report, see "race".
Import(t, v) ==
  LET found == ByTitle(rows, t) IN
  /\ "import" \in env
  /\ "race" \in env \/ report = None
  /\ folder' = folder \union {t}
  /\ \/ /\ found = {}
        /\ IF ByPath(rows, t) # {} THEN UNCHANGED <<libraryVars, parsed>>
           ELSE Insert(Row(t, t, v)) /\ parsed' = [parsed EXCEPT ![lastId'] = v]
     \/ \E g \in found :
          /\ rows' = SetColumn(IF v = 0 THEN rows ELSE UpdateGameVersion(rows, g, v), g, "path", t)
          /\ parsed' = IF v = 0 THEN parsed ELSE [parsed EXCEPT ![g] = v]
          /\ UNCHANGED lastId
  /\ UNCHANGED <<env, edit, scanVars, clean, report, published, check>>

\* Every installed game with a version is written.
ReadReport_Always(t, v) ==
  /\ "report" \in env /\ report = None
  /\ \E g \in ByTitle(rows, t) : report' = [id |-> g, version |-> v]
  /\ UNCHANGED <<env, libraryVars, folder, edit, scanVars, clean, published, check, parsed>>

\* ReportInstalledGames writes a version only where there is none.
ReadReport(t, v) ==
  /\ "report" \in env /\ report = None
  /\ \E g \in ByTitle(rows, t) :
       rows[g].version = 0 /\ report' = [id |-> g, version |-> v]
  /\ UNCHANGED <<env, libraryVars, folder, edit, scanVars, clean, published, check, parsed>>

SaveReport ==
  /\ report # None
  /\ rows' = UpdateGameVersion(rows, report.id, report.version)
  /\ report' = None
  /\ UNCHANGED <<env, lastId, folder, edit, scanVars, clean, published, check, parsed>>

Publish(t) ==
  /\ "check" \in env /\ published[t] < MaxVersion
  /\ published' = [published EXCEPT ![t] = @ + 1]
  /\ UNCHANGED <<env, libraryVars, folder, edit, scanVars, clean, report, check, parsed>>

CheckAll ==
  /\ "check" \in env /\ check = {}
  /\ check' = { [id |-> g, row |-> rows[g]] : g \in WithVersion(rows, 0) }
  /\ check' # {}
  /\ UNCHANGED <<env, libraryVars, folder, edit, scanVars, clean, report, published, parsed>>

\* cap10: the best version among the ten results that are looked at, 0 for none.
BestOf(t) == IF "many" \in env THEN 0..published[t] ELSE {published[t]}

\* A search that fails writes nothing.  The flag falls only when no result has a version.
CheckGame(c) ==
  /\ c \in check
  /\ check' = check \ {c}
  /\ \/ "search_fail" \in env /\ rows' = rows
     \/ \E best \in BestOf(c.row.title) :
          rows' = IF best > c.row.version THEN UpdateGameUpdateInfo(rows, c.id, best, TRUE)
                  ELSE IF best = 0 /\ c.row.updateAvailable
                       THEN UpdateGameUpdateInfo(rows, c.id, 0, FALSE) ELSE rows
  /\ UNCHANGED <<env, lastId, folder, edit, scanVars, clean, report, published, parsed>>

Scanner(s) == StartScan(s) \/ SetCancel(s) \/ ReadFolder(s) \/ EndScan(s)
              \/ \E t \in Titles : ScanEntry(s, t)

Next ==
  \/ \E t \in Titles : AddGame(t) \/ Publish(t)
  \/ \E t \in Titles, v \in Versions : Import(t, v) \/ (v > 0 /\ ReadReport(t, v))
  \/ \E e \in Edits : EditGame(e) \/ RefreshGameMetadata(e)
  \/ \E g \in Ids : RemoveGame(g) \/ \E e \in Edits : ReadGame(e, g)
  \/ DeleteAllGames
  \/ \E s \in Scans : Scanner(s)
  \/ StopScan \/ CleanLibrary \/ (\E c \in clean : CleanGame(c))
  \/ SaveReport \/ CheckAll \/ (\E c \in check : CheckGame(c))

Spec == Init /\ [][Next]_vars

\* Goroutines go on, and the checker's timer fires again.
Fairness ==
  /\ \A s \in Scans : WF_vars(SetCancel(s) \/ ReadFolder(s) \/ EndScan(s)
                              \/ \E t \in Titles : ScanEntry(s, t))
  /\ WF_vars(CheckAll) /\ WF_vars(\E c \in check : CheckGame(c))

FairSpec == Spec /\ Fairness

-----------------------------------------------------------------------------
(* Properties                                                              *)

\* Every variable ranges over the states the code's types allow; scanning is set exactly
\* while a scan is under way.
TypeOK ==
  /\ lastId \in 0..MaxGame /\ DOMAIN rows \subseteq 1..lastId
  /\ \A g \in DOMAIN rows :
       /\ rows[g].title \in Titles /\ rows[g].path \in Titles \union {None}
       /\ rows[g].version \in Versions /\ rows[g].latest \in Versions
  /\ folder \subseteq Titles
  /\ \A s \in Scans :
       scan[s].at \in {"idle", "begun", "root", "walk"} /\ scan[s].left \subseteq Titles
  /\ cancelable \in Scans \union {None}
  /\ scanning = (\E s \in Scans : scan[s].at # "idle")

\* "Get existing games to avoid duplicates": whatever scans are started, stopped and
\* started again while games are deleted and the library is cleaned, no directory gets
\* a second row.  Edits, imports and games that are added with a path set paths of their
\* own, and are left out; so are scans that cannot read the table, which list everything.
OneRowPerDirectory ==
  env \intersect {"edit", "import", "add_path", "db_fail"} = {} =>
    \A g, h \in DOMAIN rows : rows[g].path = rows[h].path /\ rows[g].path # None => g = h

\* "the release-name parse at download time has higher priority and must not be
\* overwritten by less reliable agent-side detection", nor by an edit that wrote back
\* the row it had read before: while no import falls into a report.
ReleaseVersionWins ==
  "race" \notin env =>
    \A g \in DOMAIN rows : parsed[g] # 0 => rows[g].version = parsed[g]

\* A scan, stopped or not, ends, and another may start.
ScanSettles == scanning ~> ~scanning

\* A newer version on the indexers is announced for every game with a known version,
\* unless the game is updated or deleted first: while searches succeed and ten results
\* show the newest.
UpdateAnnounced ==
  \A g \in Ids, v \in Versions :
    (env \intersect {"search_fail", "many"} = {}
      /\ g \in DOMAIN rows /\ rows[g].version \in 1..(v - 1) /\ published[rows[g].title] = v)
      ~> (g \in DOMAIN rows
            => rows[g].version >= v \/ (rows[g].updateAvailable /\ rows[g].latest >= v))

\* What scans and the checker begin comes to its end.
LibrarySettles == ScanSettles /\ UpdateAnnounced
=============================================================================
