--------------------------- MODULE DownloadImport ---------------------------
(***************************************************************************)
(* From a finished download to a game of the library: AddTorrent and the   *)
(* links it records (internal/api/download_clients.go, internal/monitor/   *)
(* download_links.go), the DownloadMonitor that polls the download client  *)
(* (download_monitor.go), the Processor's goroutines (post_processor.go)   *)
(* and the import a user asks for (internal/api/games.go).                 *)
(*                                                                         *)
(* A download is also the name of its release.  IGDB has one name, Title,  *)
(* for all of them; a release it is not asked about keeps its own.  The    *)
(* name is the directory of the game in the library and its row's title.   *)
(***************************************************************************)
EXTENDS GameRows, FiniteSets

CONSTANTS
  Downloads,   \* the downloads, each the name of its release
  Dirs,        \* those that are directories
  Files,       \* names of the files in them
  Contents,    \* the sets of files a download may have
  GameFiles,   \* files with an extension of a game
  Junk,        \* files that deep clean removes
  Imports,     \* goroutines that run Processor.Process
  Title, Other,  \* a name that IGDB gives, a game it does not give
  SameDisk,    \* the library is on the file system of the downloads
  Envs,        \* what the environment may do: sets of EnvKinds, of which one holds
  NotFoundThreshold,  \* polls that find nothing before the monitor gives up (3)
  MaxGame,     \* bound on the rows made
  None

EnvKinds ==
  { "overlap",       \* an import starts while another runs
    "manual",        \* the user imports a download once more
    "igdb_down",     \* IGDB does not answer
    "outage",        \* the downloads cannot be reached for some time
    "library_down",  \* the library cannot
    "remove",        \* the user removes downloads
    "delete_game",   \* the user deletes a game
    "delete_files",  \* ... and its directory
    "late_link",     \* a download ends before AddTorrent has recorded its link
    "no_hash",       \* ids are not the info hashes that links are recorded under: numbers
                     \* (Transmission), NZBs, which have no hash, magnets in base32
    "same_file",     \* all downloads are single files, and have one name
    "same_dir",      \* all are directories, and have one name
    "copy_fail",     \* linkOrCopyFile may fail
    "save_fail",     \* the last write of a JSON file before a stop has failed, or is cut short
    "crash" }        \* the server stops and starts again

ASSUME EnvAssumption == Envs \subseteq SUBSET EnvKinds
ASSUME ImportAssumption ==
  /\ Dirs \subseteq Downloads /\ Contents \subseteq SUBSET Files /\ IsFiniteSet(Files)
  /\ GameFiles \subseteq Files /\ Junk \subseteq Files \ GameFiles
  /\ SameDisk \in BOOLEAN /\ MaxGame \in Nat \ {0} /\ NotFoundThreshold \in Nat \ {0}
  /\ Title # Other /\ {Title, Other, None} \cap Downloads = {} /\ None \notin {Title, Other}

Names == Downloads \union {Title, Other}
Ids   == 1..MaxGame
NoId  == 0

VARIABLES
  env,         \* the set of Envs that holds in this behaviour
  torrent,     \* what the download client says of each download
  data,        \* the files of each download that exist
  emptied,     \* those that an import has emptied, or overwritten with another's content
  reachable,   \* os.Stat does not fail with an error other than NotExist
  request,     \* the game of an AddTorrent that has yet to record its link
  links,       \* DownloadLinkStore.links, saved at every change
  polled,      \* what is left to look at of the monitor's poll
  processed,   \* DownloadMonitor.processed, saved at every change
  notFound,    \* DownloadMonitor.notFound
  importing,   \* ImportStatus.active
  proc,        \* each import
  library,     \* the files in the library: name of the game, place in its directory, file,
               \* and the download with which it shares its content as a link, or None
  rows, lastId,  \* the table Games
  wanted,      \* history: the game a download was started from
  listed,      \* history: the downloads whose import wrote a row
  cut,         \* history: the downloads whose import was given up
  failed       \* history: the files of downloads that linkOrCopyFile failed on

clientVars  == <<torrent, data, reachable>>
linkVars    == <<request, links, wanted>>
monitorVars == <<polled, processed, notFound>>
diskVars    == <<emptied, library, failed>>
rowVars     == <<rows, lastId, listed>>
vars == <<clientVars, linkVars, monitorVars, importing, proc, diskVars, rowVars, cut, env>>

Idle == [at |-> "idle", from |-> None, id |-> None, name |-> None, igdb |-> None,
         left |-> {}, good |-> FALSE, game |-> NoId]
\* An import of the download d, of which the monitor knows the id, under a name.
Process(d, id, name) == [Idle EXCEPT !.at = "start", !.from = d, !.id = id, !.name = name]

\* A single file goes to the game's directory under its own name, the files of a directory
\* to one of its name there.
OwnNames == env \intersect {"same_file", "same_dir"} = {}
Directory(d) == "same_file" \notin env /\ (d \in Dirs \/ "same_dir" \in env)
Place(d) == IF OwnNames THEN d ELSE None
Places   == Downloads \union {None}

\* With what the file of the download d under the name n shares its content, if it is there.
Sharing(n, d, f) == { o \in Places : <<n, Place(d), f, o>> \in library }

NoLinks == [d \in Downloads |-> NoId]

Row(t, igdb, p, v) == [title |-> t, igdb |-> igdb, path |-> p, version |-> v]

Init ==
  /\ env \in Envs
  /\ torrent = [d \in Downloads |-> "absent"]
  /\ data = [d \in Downloads |-> {}]
  /\ emptied = {} /\ library = {} /\ reachable = TRUE
  /\ request = NoLinks /\ links = NoLinks /\ wanted = NoLinks
  /\ polled = {} /\ processed = {} /\ importing = {}
  /\ notFound = [d \in Downloads |-> 0]
  /\ proc = [p \in Imports |-> Idle]
  /\ rows = [i \in {1} |-> Row(Other, Other, None, None)] /\ lastId = 1
  /\ listed = {} /\ cut = {} /\ failed = {}

-----------------------------------------------------------------------------
(* The download client, and AddTorrent: the client has the download before *)
(* the link is recorded.  Not every download is started from a game.       *)

AddTorrent(d, g) ==
  /\ torrent[d] = "absent"
  /\ g \in DOMAIN rows \union {NoId}
  /\ torrent' = [torrent EXCEPT ![d] = "downloading"]
  /\ request' = [request EXCEPT ![d] = g]
  /\ wanted' = [wanted EXCEPT ![d] = g]
  /\ UNCHANGED <<data, reachable, links, monitorVars, importing, proc, diskVars, rowVars,
                 cut, env>>

\* The link is recorded under the info hash, if there is one.
RecordLink(d) ==
  /\ request[d] # NoId
  /\ \/ links' = [links EXCEPT ![d] = request[d]]
     \/ "no_hash" \in env /\ UNCHANGED links
  /\ request' = [request EXCEPT ![d] = NoId]
  /\ UNCHANGED <<clientVars, wanted, monitorVars, importing, proc, diskVars, rowVars, cut,
                 env>>

Complete(d) ==
  /\ torrent[d] = "downloading"
  /\ "late_link" \in env \/ request[d] = NoId
  /\ torrent' = [torrent EXCEPT ![d] = "completed"]
  /\ \E F \in Contents :
       /\ Directory(d) = (Cardinality(F) > 1)
       /\ data' = [data EXCEPT ![d] = F]
  /\ UNCHANGED <<reachable, linkVars, monitorVars, importing, proc, diskVars, rowVars, cut,
                 env>>

\* DeleteDownload: every client but rTorrent deletes the files with the download.
DeleteDownload(d) ==
  /\ "remove" \in env
  /\ torrent[d] \in {"downloading", "completed"}
  /\ torrent' = [torrent EXCEPT ![d] = "removed"]
  /\ data' \in {data, [data EXCEPT ![d] = {}]}
  /\ UNCHANGED <<reachable, linkVars, monitorVars, importing, proc, diskVars, rowVars, cut,
                 env>>

Outage ==
  /\ "outage" \in env
  /\ reachable' = ~reachable
  /\ UNCHANGED <<torrent, data, linkVars, monitorVars, importing, proc, diskVars, rowVars,
                 cut, env>>

-----------------------------------------------------------------------------
(* The monitor: one goroutine, one poll after the other.                   *)

Poll ==
  /\ polled = {}
  /\ polled' = { d \in Downloads : torrent[d] = "completed" } \ processed
  /\ polled' # {}
  /\ UNCHANGED <<clientVars, linkVars, processed, notFound, importing, proc, diskVars, rowVars,
                 cut, env>>

\* A monitor that counts an unreachable path as one that is gone.
NotReachable_Counts(d) ==
  /\ d \in polled /\ ~reachable
  /\ polled' = polled \ {d}
  /\ processed' = processed \union {d}
  /\ UNCHANGED <<clientVars, linkVars, notFound, importing, proc, diskVars, rowVars, cut, env>>

NotReachable(d) ==
  /\ d \in polled /\ ~reachable
  /\ polled' = polled \ {d}
  /\ UNCHANGED <<clientVars, linkVars, processed, notFound, importing, proc, diskVars, rowVars,
                 cut, env>>

\* The threshold is never acted upon.
NotFound_Counts(d) ==
  /\ d \in polled /\ reachable /\ data[d] = {}
  /\ polled' = polled \ {d}
  /\ notFound[d] <= NotFoundThreshold
  /\ notFound' = [notFound EXCEPT ![d] = @ + 1]
  /\ UNCHANGED <<clientVars, linkVars, processed, importing, proc, diskVars, rowVars, cut,
                 env>>

\* The third poll in a row that finds nothing is the last.
NotFound(d) ==
  /\ d \in polled /\ reachable /\ data[d] = {}
  /\ polled' = polled \ {d}
  /\ IF notFound[d] + 1 >= NotFoundThreshold
     THEN /\ processed' = processed \union {d}
          /\ notFound' = [notFound EXCEPT ![d] = 0]
     ELSE /\ notFound' = [notFound EXCEPT ![d] = @ + 1]
          /\ UNCHANGED processed
  /\ UNCHANGED <<clientVars, linkVars, importing, proc, diskVars, rowVars, cut, env>>

\* The download is marked processed, and saved, before its goroutine starts.
StartImport(d) ==
  /\ d \in polled /\ reachable /\ data[d] # {}
  /\ polled' = polled \ {d}
  /\ notFound' = [notFound EXCEPT ![d] = 0]
  /\ importing' = importing \union {d}
  /\ processed' = processed \union {d}
  /\ \E p \in Imports :
       /\ proc[p].at = "idle"
       /\ proc' = [proc EXCEPT ![p] = Process(d, d, d)]
  /\ UNCHANGED <<clientVars, linkVars, diskVars, rowVars, cut, env>>

\* ImportGame: no id, so no link, no status and no mark.
ImportGame(g, d) ==
  /\ "manual" \in env
  /\ g \in DOMAIN rows /\ data[d] # {}
  /\ \E p \in Imports :
       /\ proc[p].at = "idle"
       /\ proc' = [proc EXCEPT ![p] = Process(d, None, rows[g].title)]
  /\ UNCHANGED <<clientVars, linkVars, monitorVars, importing, diskVars, rowVars, cut, env>>

-----------------------------------------------------------------------------
(* Processor.Process, a goroutine: deep clean, the name, the files, the    *)
(* row.  Every way out marks the download finished.                        *)

Goto(p, at) == proc' = [proc EXCEPT ![p].at = at]

\* The path is gone, or it is cleaned; without a library that can be reached the
\* import is given up here, though the download is marked processed.
Begin(p) ==
  LET d == proc[p].from IN
  /\ proc[p].at = "start"
  /\ "overlap" \in env \/ \A q \in Imports \ {p} : proc[q].at \in {"idle", "start"}
  /\ IF data[d] = {} \/ ~reachable
     THEN UNCHANGED data /\ Goto(p, "finish")
     ELSE /\ data' = IF Directory(d) THEN [data EXCEPT ![d] = @ \ Junk] ELSE data
          /\ \/ Goto(p, "name")
             \/ "library_down" \in env /\ Goto(p, "finish")
  /\ cut' = IF proc'[p].at = "finish" THEN cut \union {d} ELSE cut
  /\ UNCHANGED <<torrent, reachable, linkVars, monitorVars, importing, diskVars, rowVars, env>>

IgdbName(n) == IF n = Other THEN Other ELSE Title

\* resolveGameName asks IGDB; then the directory is looked for in the library.
Resolve(p) ==
  LET d == proc[p].from
      Found(n) == \E f \in Files : Sharing(n, d, f) # {}
      Next(n, igdb) ==
        proc' = [proc EXCEPT ![p].name = n, ![p].igdb = igdb,
                   ![p].left = IF Directory(d) THEN data[d] ELSE data[d] \intersect GameFiles,
                   ![p].at = IF Directory(d) /\ Found(n) THEN "match" ELSE "copy"]
      n == proc[p].name IN
  /\ proc[p].at = "name"
  /\ \/ Next(IgdbName(n), IgdbName(n))
     \/ "igdb_down" \in env /\ Next(n, None)
  /\ UNCHANGED <<clientVars, linkVars, monitorVars, importing, diskVars, rowVars, cut, env>>

TakeUp(p, f, good) ==
  /\ proc[p].at = "copy" /\ f \in proc[p].left
  /\ proc' = [proc EXCEPT ![p].left = @ \ {f}, ![p].good = @ \/ good]

\* os.Create of a file that is a link to one of a download.
Truncates(n, d, f) == emptied' = emptied \union (Sharing(n, d, f) \ {None}) \X {f}

\* A file that was removed meanwhile is not found.
SkipFile(p, f) ==
  /\ TakeUp(p, f, FALSE) /\ f \notin data[proc[p].from]
  /\ UNCHANGED <<clientVars, linkVars, monitorVars, importing, diskVars, rowVars, cut, env>>

\* linkOrCopyFile: a link to the file, or a copy on another disk.  If a file is there
\* already, os.Link fails and the copy goes into that file, which may be a link to the
\* download's own file or to another's.
CopyFile(p, f) ==
  LET d == proc[p].from
      n == proc[p].name IN
  /\ TakeUp(p, f, f \in GameFiles) /\ f \in data[d]
  /\ library' = IF Sharing(n, d, f) = {}
                THEN library \union {<<n, Place(d), f, IF SameDisk THEN d ELSE None>>}
                ELSE library
  /\ Truncates(n, d, f)
  /\ UNCHANGED <<clientVars, linkVars, monitorVars, importing, failed, rowVars, cut, env>>

\* A file that cannot be linked nor copied is logged and skipped.  It leaves nothing, or its
\* directory and perhaps a part of it.
CopyFails(p, f) ==
  LET d == proc[p].from
      n == proc[p].name IN
  /\ "copy_fail" \in env
  /\ TakeUp(p, f, FALSE) /\ f \in data[d]
  /\ failed' = failed \union {<<d, f>>}
  /\ \/ UNCHANGED <<library, emptied>>
     \/ /\ library' = IF Sharing(n, d, f) = {}
                      THEN library \union {<<n, Place(d), f, None>>} ELSE library
        /\ Truncates(n, d, f)
  /\ UNCHANGED <<clientVars, linkVars, monitorVars, importing, rowVars, cut, env>>

\* A game is listed after the first of its files.
EndCopy_First(p) ==
  /\ proc[p].at = "copy" /\ (proc[p].left = {} \/ proc[p].good)
  /\ Goto(p, IF proc[p].good THEN "match" ELSE "finish")
  /\ cut' = IF proc[p].good THEN cut ELSE cut \union {proc[p].from}
  /\ UNCHANGED <<clientVars, linkVars, monitorVars, importing, diskVars, rowVars, env>>

\* Without a file of a game nothing is listed.
EndCopy(p) ==
  /\ proc[p].at = "copy" /\ proc[p].left = {}
  /\ Goto(p, IF proc[p].good THEN "match" ELSE "finish")
  /\ cut' = IF proc[p].good THEN cut ELSE cut \union {proc[p].from}
  /\ UNCHANGED <<clientVars, linkVars, monitorVars, importing, diskVars, rowVars, env>>

\* DownloadLinkStore.Get; GetGameByID finds nothing for a game that was deleted.
HasLink(id) == id # None /\ "no_hash" \notin env /\ links[id] # NoId
LinkedGame(id) == IF HasLink(id) THEN {links[id]} \intersect DOMAIN rows ELSE {}

\* addGameToLibrary that matches by name before it asks for the link.
Match_NameFirst(p) ==
  LET named == ByTitle(rows, proc[p].name)
      game  == IF named # {} THEN CHOOSE g \in named : TRUE ELSE NoId IN
  /\ proc[p].at = "match"
  /\ proc' = [proc EXCEPT ![p].game = game, ![p].at = "save"]
  /\ UNCHANGED <<clientVars, linkVars, monitorVars, importing, diskVars, rowVars, cut, env>>

\* addGameToLibrary up to the write: the link, which is used up, then the IGDB id,
\* then the title.  A directory that has a row gets no second one.
Match(p) ==
  LET id     == proc[p].id
      linked == LinkedGame(id)
      same   == IF proc[p].igdb = None THEN {} ELSE ByIgdbID(rows, proc[p].igdb)
      named  == ByTitle(rows, proc[p].name)
      found  == IF linked # {} THEN linked ELSE IF same # {} THEN same ELSE named IN
  /\ proc[p].at = "match"
  /\ links' = IF HasLink(id) THEN [links EXCEPT ![id] = NoId] ELSE links
  /\ \/ /\ found = {}
        /\ Goto(p, IF ByPath(rows, proc[p].name) # {} THEN "finish" ELSE "save")
     \/ \E g \in found : proc' = [proc EXCEPT ![p].game = g, ![p].at = "save"]
  /\ listed' = IF proc'[p].at = "finish" THEN listed \union {proc[p].from} ELSE listed
  /\ UNCHANGED <<clientVars, request, wanted, monitorVars, importing, diskVars, rows, lastId,
                 cut, env>>

\* The path of the row that was found, if it is still there, or a new row.
Save(p) ==
  LET n == proc[p].name
      g == proc[p].game IN
  /\ proc[p].at = "save"
  /\ IF g # NoId
     THEN rows' = SetColumn(rows, g, "path", n) /\ UNCHANGED lastId /\ Goto(p, "version")
     ELSE /\ lastId < MaxGame
          /\ lastId' = lastId + 1
          /\ rows' = CreateGame(rows, lastId', Row(n, proc[p].igdb, n, None))
          /\ proc' = [proc EXCEPT ![p].at = "version", ![p].game = lastId']
  /\ listed' = listed \union {proc[p].from}
  /\ UNCHANGED <<clientVars, linkVars, monitorVars, importing, diskVars, cut, env>>

\* A name the user gives for a manual import has no version.
SetVersion(p) ==
  /\ proc[p].at = "version"
  /\ rows' = IF proc[p].id = None THEN rows
             ELSE UpdateGameVersion(rows, proc[p].game, proc[p].id)
  /\ Goto(p, "finish")
  /\ UNCHANGED <<clientVars, linkVars, monitorVars, importing, diskVars, lastId, listed,
                 cut, env>>

Finish(p) ==
  /\ proc[p].at = "finish"
  /\ proc' = [proc EXCEPT ![p] = Idle]
  /\ importing' = importing \ {proc[p].id}
  /\ UNCHANGED <<clientVars, linkVars, monitorVars, diskVars, rowVars, cut, env>>

-----------------------------------------------------------------------------
(* DeleteGame, and a server that stops and starts again.                   *)

RemoveGame(g) ==
  /\ "delete_game" \in env
  /\ g \in DOMAIN rows
  /\ rows' = DeleteGame(rows, g)
  /\ \E files \in {FALSE} \union {"delete_files" \in env} :
       library' = IF files THEN { t \in library : t[1] # rows[g].path } ELSE library
  /\ UNCHANGED <<clientVars, linkVars, monitorVars, importing, proc, emptied, failed, lastId,
                 listed, cut, env>>

Stopped == { d \in Downloads : \E p \in Imports : proc[p].at # "idle" /\ proc[p].from = d }

\* What a restart loads: os.WriteFile truncates, then writes, and its error is ignored.
Loaded(saved, nothing) == {saved} \union IF "save_fail" \in env THEN {nothing} ELSE {}

\* Requests, goroutines and what is only in memory are gone.
CrashAnd(kept) ==
  /\ "crash" \in env
  /\ request' = NoLinks
  /\ polled' = {} /\ importing' = {}
  /\ processed' \in Loaded(kept, {})
  /\ links' \in Loaded(links, NoLinks)
  /\ notFound' = [d \in Downloads |-> 0]
  /\ proc' = [p \in Imports |-> Idle]
  /\ cut' = cut \union Stopped
  /\ wanted' = [d \in Downloads |-> IF request[d] # NoId THEN NoId ELSE wanted[d]]
  /\ UNCHANGED <<clientVars, diskVars, rowVars, env>>

\* saveProcessed runs only after the import.
Crash_BeforeSave == CrashAnd(processed \ Stopped)

Crash == CrashAnd(processed)

Monitor == Poll \/ \E d \in Downloads : NotReachable(d) \/ NotFound(d) \/ StartImport(d)
Import(p) == Begin(p) \/ Resolve(p) \/ EndCopy(p)
             \/ (\E f \in Files : SkipFile(p, f) \/ CopyFile(p, f) \/ CopyFails(p, f))
             \/ Match(p) \/ Save(p) \/ SetVersion(p) \/ Finish(p)

Next ==
  \/ \E d \in Downloads :
       \/ \E g \in 0..MaxGame : AddTorrent(d, g) \/ ImportGame(g, d)
       \/ RecordLink(d) \/ Complete(d) \/ DeleteDownload(d)
  \/ Outage \/ Monitor
  \/ \E p \in Imports : Import(p)
  \/ \E g \in Ids : RemoveGame(g)
  \/ Crash

Spec == Init /\ [][Next]_vars

\* The monitor and its goroutines go on.
Fairness ==
  /\ WF_vars(Monitor)
  /\ \A p \in Imports : WF_vars(Import(p))

FairSpec == Spec /\ Fairness

-----------------------------------------------------------------------------
(* Properties                                                              *)

\* Every variable ranges over the states the code's types allow; a path that
\* is gone is looked for as often as the threshold says.
TypeOK ==
  /\ torrent \in [Downloads -> {"absent", "downloading", "completed", "removed"}]
  /\ data \in [Downloads -> SUBSET Files]
  /\ emptied \subseteq Downloads \X Files
  /\ reachable \in BOOLEAN
  /\ \A f \in {request, links, wanted} : f \in [Downloads -> Ids \union {NoId}]
  /\ polled \subseteq Downloads /\ processed \subseteq Downloads
  /\ notFound \in [Downloads -> 0..(NotFoundThreshold - 1)]
  /\ importing \subseteq Downloads
  /\ \A p \in Imports :
       /\ proc[p].at \in {"idle", "start", "name", "copy", "match", "save", "version",
                         "finish"}
       /\ proc[p].left \subseteq Files /\ proc[p].game \in Ids \union {NoId}
  /\ library \subseteq Names \X Places \X Files \X Places
  /\ lastId \in 0..MaxGame /\ DOMAIN rows \subseteq 1..lastId
  /\ listed \union cut \subseteq Downloads /\ failed \subseteq Downloads \X Files

\* "The source is never deleted so the torrent client can continue seeding"
\* (linkOrCopyFile): no import empties a file of a download.
SourceSurvives == emptied = {}

\* Nobody imports by hand.  The model has few goroutines to give to those who do.
Unattended == "manual" \notin env

\* A restart finds what was saved.
Remembered == ~({"save_fail", "crash"} \subseteq env)

\* ... which holds while the user imports nothing by hand and files have names of their own:
\* the monitor imports every download once, though it may be stopped at any moment and
\* forgets what it was doing, unless it could not save what it had processed.
SeedsSurvive == (Unattended /\ OwnNames /\ Remembered) => SourceSurvives

\* A directory that is found in the library is taken for the whole: the user deletes none, and
\* imports by hand only when nothing else runs and nothing was stopped half way.
Considerate ==
  /\ OwnNames /\ Remembered
  /\ "delete_files" \notin env
  /\ Unattended \/ env \intersect {"overlap", "crash"} = {}

\* An import that gives a game its directory has brought every file of the download
\* there is, but for those it failed to link and to copy: nothing else of one is missing
\* from what is listed, not even after a crash.
WholeWhenListed ==
  [][\A p \in Imports :
       (Considerate /\ proc[p].at = "save" /\ proc'[p].at = "version") =>
         LET d == proc[p].from IN
         \A f \in data[d] : Sharing(proc[p].name, d, f) # {} \/ <<d, f>> \in failed]_vars

\* The link is recorded in time, under the id that the client reports, and stays.
Linked == Remembered /\ env \intersect {"late_link", "no_hash"} = {}

\* "Priority 1: use the stored link (game the user clicked 'download' on)": what was
\* started from a game goes to that game while it exists, whatever name the release
\* resolves to and however often the server was restarted; for the clients that report
\* info hashes.
ClickedGameGetsIt ==
  [][\A p \in Imports :
       (Linked /\ proc[p].at = "save" /\ proc'[p].at = "version" /\ proc[p].id # None
          /\ wanted[proc[p].id] \in DOMAIN rows)
         => proc'[p].game = wanted[proc[p].id]]_vars

\* "allows retry when a NAS/mount becomes available on a later poll": a completed
\* download is listed in the library, once its path stays reachable and the server runs,
\* unless a stop or an unreachable library cut its import off or it is removed.
CompletedIsListed ==
  (Unattended /\ <>[]reachable /\ <>[][~Crash]_vars) =>
    \A d \in Downloads :
      (torrent[d] = "completed" /\ data[d] # {})
        ~> (d \in listed \union cut \/ data[d] = {} \/ torrent[d] = "removed")

\* The queue does not show a download as importing for ever.
ImportingSettles == Unattended => \A d \in Downloads : d \in importing ~> d \notin importing

\* What is downloaded comes to the library, and the queue to rest.
ImportsSettle == CompletedIsListed /\ ImportingSettles
=============================================================================
