---------------------------- MODULE SaveWatcher ----------------------------
(***************************************************************************)
(* The agent's side of save synchronisation, for one game on one device:   *)
(* file events, the debounce timer, the upload it starts, restores of the  *)
(* server's latest snapshot and the window after a restore in which        *)
(* uploads are suppressed.  cmd/agent/internal/agentclient/save_sync.go.   *)
(*                                                                         *)
(* The contents of the save directories are a version number; the game     *)
(* (or another device) makes a new one at each change.  Time passes in     *)
(* Ticks.  Goroutines and events are handled within a Tick, and so are     *)
(* uploads and restores unless env says that they may be slow.             *)
(***************************************************************************)
EXTENDS Naturals, FiniteSets

CONSTANTS
  Restores,     \* restoreLatestSave goroutines
  Debounce,     \* saveSyncDebounce (30 s)
  Backoff,      \* delay of an upload asked for during another (10 s)
  Suppress,     \* restoreSuppressDuration (120 s)
  MaxVersion,   \* bound on the changes, here and on other devices
  Envs          \* what the environment may do: sets of EnvKinds, of which one holds

EnvKinds ==
  { "restore",       \* the server asks for restores
    "two_restores",  \* ... also during one
    "manual",        \* the server sends UPLOAD_SAVE
    "slow_upload",   \* an upload takes longer than Backoff
    "slow_restore",  \* a download takes longer than Suppress
    "upload_fail", "fetch_fail",
    "uninstall" }

ASSUME EnvAssumption == Envs \subseteq SUBSET EnvKinds
ASSUME TimeAssumption ==
  /\ Debounce \in Nat /\ Backoff \in Nat /\ Suppress \in Nat /\ MaxVersion \in Nat
  /\ 0 < Backoff /\ Backoff <= Debounce /\ Debounce < Suppress

Empty    == 0                \* no save files
Version  == 0..MaxVersion
NoTimer  == Debounce + 1
Causes   == {"local", "restored", "exit", "manual"}

Entries ==
  { "none",      \* not in the table
    "watched",   \* after UpdateGames
    "empty",     \* after UpdateGames without an answer: no paths
    "manual",    \* after TriggerUpload: saveDirs, but no rawPaths
    "orphan" }   \* after TriggerUpload of a game not in the table: no scriptDir either

HasSaveDirs   == {"watched", "manual", "orphan"}
HasRawPaths   == {"watched"}
HasScriptDir  == {"watched", "empty", "manual"}

VARIABLES
  env,       \* the set of Envs that holds in this behaviour
  game,      \* SaveWatcher.games, one of Entries
  watched,   \* which of the game's directories have a watch
  events,    \* file events not handled yet
  timer,     \* SaveWatcher.timers: time to go
  cause,     \* the event the timer was set for
  fired,     \* timer callbacks that wait for the lock
  up,        \* the upload that runs: where it is, what started it, the entry it was
             \* given and the contents it has archived
  since,     \* time since SaveWatcher.restoredAt
  restore,   \* where each restore is
  pre,       \* the restores that tryPreRestoreSave has started
  fetched,   \* the snapshot each restore has got
  local,     \* contents of the save directories
  server,    \* contents of the latest snapshot on the server
  made,      \* versions made so far
  own,       \* versions made on this device
  uploaded   \* versions this device has uploaded

entryVars   == <<game, watched>>
timerVars   == <<timer, cause, fired>>
restoreVars == <<restore, pre, fetched>>
diskVars    == <<local, made, own>>
serverVars  == <<server, uploaded>>
vars == <<env, entryVars, events, timerVars, up, since, restoreVars, diskVars, serverVars>>

NoUpload   == [at |-> "none", cause |-> "local", game |-> "none", version |-> Empty]
Uploading  == up # NoUpload     \* SaveWatcher.uploading
Suppressed == since < Suppress

Init ==
  /\ env \in Envs
  /\ game = "none" /\ watched = {} /\ events = {}
  /\ timer = NoTimer /\ cause = "local" /\ fired = {}
  /\ up = NoUpload
  /\ since = Suppress
  /\ restore = [p \in Restores |-> "idle"]
  /\ pre = {}
  /\ fetched = [p \in Restores |-> Empty]
  /\ local = Empty /\ made = 0 /\ own = {}
  /\ server = Empty /\ uploaded = {}

-----------------------------------------------------------------------------
(* The game, and other devices.                                            *)

\* The game writes a save; the watch reports it.
SaveGame ==
  /\ made < MaxVersion
  /\ made' = made + 1
  /\ local' = made'
  /\ own' = own \union {made'}
  /\ events' = IF "save" \in watched THEN events \union {"local"} ELSE events
  /\ UNCHANGED <<entryVars, timerVars, up, since, restoreVars, serverVars, env>>

\* run.sh leaves its exit marker.
GameExits ==
  /\ "script" \in watched
  /\ events' = events \union {"exit"}
  /\ UNCHANGED <<entryVars, timerVars, up, since, restoreVars, diskVars, serverVars, env>>

OtherDeviceUploads ==
  /\ "restore" \in env
  /\ made < MaxVersion
  /\ made' = made + 1
  /\ server' = made'
  /\ UNCHANGED <<entryVars, events, timerVars, up, since, restoreVars, local, own,
                 uploaded, env>>

-----------------------------------------------------------------------------
(* scheduleUploadLocked.                                                   *)

StopTimer == timer' = NoTimer /\ cause' = "local"

\* The delay is added to what is left of the timer, which is not stopped.
Schedule_Extends(c, delay) ==
  \/ Suppressed /\ StopTimer /\ UNCHANGED fired
  \/ ~Suppressed /\ timer' = timer + delay /\ cause' = c /\ UNCHANGED fired

\* An upload in progress is not backed off from.
Schedule_NoBackoff(c, delay) ==
  \/ Suppressed /\ StopTimer /\ UNCHANGED fired
  \/ ~Suppressed /\ timer' = delay /\ cause' = c /\ UNCHANGED fired

\* The timer is stopped in any case; a callback that has fired is not.
Schedule(c, delay) ==
  \/ Suppressed /\ StopTimer /\ UNCHANGED fired
  \/ /\ ~Suppressed
     /\ timer' = IF Uploading THEN Backoff ELSE delay
     /\ cause' = c
     /\ UNCHANGED fired

\* handleEvent: the entry must list the save directory, or the script directory that
\* the exit marker is in.
HandleEvent(e) ==
  /\ e \in events
  /\ events' = events \ {e}
  /\ \/ e = "exit" /\ game \in HasScriptDir /\ Schedule(e, 0)
     \/ e # "exit" /\ game \in HasSaveDirs /\ Schedule(e, Debounce)
     \/ game \notin (IF e = "exit" THEN HasScriptDir ELSE HasSaveDirs) /\ UNCHANGED timerVars
  /\ UNCHANGED <<entryVars, up, since, restoreVars, diskVars, serverVars, env>>

TimerFires ==
  /\ timer = 0
  /\ StopTimer
  /\ fired' = fired \union {cause}
  /\ UNCHANGED <<entryVars, events, up, since, restoreVars, diskVars, serverVars, env>>

\* A callback that trusts the check made when the timer was set.
Callback_NoRecheck(c) ==
  /\ c \in fired
  /\ fired' = fired \ {c}
  /\ up' = IF Uploading THEN up ELSE [NoUpload EXCEPT !.at = "build", !.cause = c, !.game = game]
  /\ UNCHANGED <<entryVars, events, timer, cause, since, restoreVars, diskVars, serverVars, env>>

\* The callback gives up, for good, if an upload is running or a restore has come.
Callback(c) ==
  /\ c \in fired
  /\ fired' = fired \ {c}
  /\ \/ (Uploading \/ Suppressed) /\ UNCHANGED up
     \/ /\ ~Uploading /\ ~Suppressed
        /\ up' = [NoUpload EXCEPT !.at = "build", !.cause = c, !.game = game]
  /\ UNCHANGED <<entryVars, events, timer, cause, since, restoreVars, diskVars, serverVars, env>>

-----------------------------------------------------------------------------
(* uploadSaves.                                                            *)

\* The directories to archive come from rawPaths; nothing is sent without files.
Archive ==
  /\ up.at = "build"
  /\ \/ /\ up.game \in HasRawPaths /\ local # Empty
        /\ up' = [up EXCEPT !.at = "post", !.version = local]
     \/ (up.game \notin HasRawPaths \/ local = Empty) /\ up' = NoUpload
  /\ UNCHANGED <<entryVars, events, timerVars, since, restoreVars, diskVars, serverVars, env>>

\* A failed POST is only logged.
PostSnapshot ==
  /\ up.at = "post"
  /\ up' = NoUpload
  /\ \/ server' = up.version /\ uploaded' = uploaded \union {up.version}
     \/ "upload_fail" \in env /\ UNCHANGED serverVars
  /\ UNCHANGED <<entryVars, events, timerVars, since, restoreVars, diskVars, env>>

-----------------------------------------------------------------------------
(* restoreLatestSave.                                                      *)

\* RESTORE_SAVE: without an entry that has save directories there is nothing to do.
StartRestore(p) ==
  /\ "restore" \in env
  /\ restore[p] = "idle"
  /\ "two_restores" \in env \/ \A q \in Restores : restore[q] = "idle"
  /\ game \in HasSaveDirs
  /\ restore' = [restore EXCEPT ![p] = "fetch"]
  /\ pre' = pre \ {p}
  /\ UNCHANGED <<entryVars, events, timerVars, up, since, fetched, diskVars, serverVars, env>>

\* tryPreRestoreSave goes on only if the save directories are empty.
PreRestore(p) ==
  /\ restore[p] = "check"
  /\ restore' = [restore EXCEPT ![p] = IF local = Empty /\ game \in HasSaveDirs
                                       THEN "fetch" ELSE "idle"]
  /\ UNCHANGED <<entryVars, events, timerVars, up, since, pre, fetched, diskVars,
                 serverVars, env>>

\* SuppressUploads is called when the answer starts to arrive.
FetchSnapshot(p) ==
  /\ restore[p] = "fetch"
  /\ \/ /\ server # Empty
        /\ restore' = [restore EXCEPT ![p] = "write"]
        /\ fetched' = [fetched EXCEPT ![p] = server]
        /\ since' = 0
        /\ StopTimer
     \/ /\ server = Empty \/ "fetch_fail" \in env
        /\ restore' = [restore EXCEPT ![p] = "idle"]
        /\ UNCHANGED <<since, timer, cause, fetched>>
  /\ UNCHANGED <<entryVars, events, fired, up, pre, diskVars, serverVars, env>>

\* The archive is unpacked, unless it breaks off, and copied over what is there; the
\* watch reports the files.
WriteFiles(p) ==
  /\ restore[p] = "write"
  /\ restore' = [restore EXCEPT ![p] = "idle"]
  /\ fetched' = [fetched EXCEPT ![p] = Empty]
  /\ \/ /\ local' = fetched[p]
        /\ events' = IF "save" \in watched THEN events \union {"restored"} ELSE events
     \/ "fetch_fail" \in env /\ UNCHANGED <<local, events>>
  /\ UNCHANGED <<entryVars, timerVars, up, since, pre, made, own, serverVars, env>>

-----------------------------------------------------------------------------
(* UpdateGames and TriggerUpload.                                          *)

\* A scan finds the game and the server answers with its save paths; a game that
\* was not known is restored if it has no saves yet.
UpdateGames ==
  /\ game' = "watched"
  /\ watched' = {"save", "script"}
  /\ IF game = "none"
       THEN \E p \in Restores :
              /\ restore[p] = "idle"
              /\ restore' = [restore EXCEPT ![p] = "check"]
              /\ pre' = pre \union {p}
       ELSE UNCHANGED <<restore, pre>>
  /\ UNCHANGED <<events, timerVars, up, since, fetched, diskVars, serverVars, env>>

\* The server cannot be reached: the entry has no paths, its watches are removed.
UpdateGamesFails ==
  /\ "fetch_fail" \in env
  /\ game' = "empty"
  /\ watched' = {"script"}
  /\ UNCHANGED <<events, timerVars, up, since, restoreVars, diskVars, serverVars, env>>

Uninstalled ==
  /\ "uninstall" \in env
  /\ game # "none"
  /\ game' = "none"
  /\ watched' = {}
  /\ UNCHANGED <<events, timerVars, up, since, restoreVars, diskVars, serverVars, env>>

\* UPLOAD_SAVE: a new entry, which keeps the old one's scriptDir.
TriggerUpload ==
  /\ "manual" \in env
  /\ game' = IF game \in HasScriptDir THEN "manual" ELSE "orphan"
  /\ Schedule("manual", 0)
  /\ UNCHANGED <<watched, events, up, since, restoreVars, diskVars, serverVars, env>>

-----------------------------------------------------------------------------
Tick ==
  /\ timer \in 1..Debounce \/ Suppressed
  /\ timer # 0 /\ fired = {} /\ events = {}
  /\ Uploading => "slow_upload" \in env
  /\ \A p \in Restores : restore[p] = "write" => "slow_restore" \in env
  /\ timer' = IF timer = NoTimer THEN NoTimer ELSE timer - 1
  /\ since' = IF Suppressed THEN since + 1 ELSE since
  /\ UNCHANGED <<entryVars, events, cause, fired, up, restoreVars, diskVars, serverVars, env>>

Restore(p) == StartRestore(p) \/ PreRestore(p) \/ FetchSnapshot(p) \/ WriteFiles(p)

Next ==
  \/ SaveGame \/ GameExits \/ OtherDeviceUploads
  \/ \E e \in events : HandleEvent(e)
  \/ TimerFires \/ \E c \in fired : Callback(c)
  \/ Archive \/ PostSnapshot
  \/ \E p \in Restores : Restore(p)
  \/ UpdateGames \/ UpdateGamesFails \/ Uninstalled \/ TriggerUpload
  \/ Tick

Spec == Init /\ [][Next]_vars

\* Events are read, timers fire, callbacks, uploads and restores run to their end, and
\* time passes.  Nothing is assumed of players, scans or the server's requests.
Fairness ==
  /\ \A e \in Causes : WF_vars(HandleEvent(e)) /\ WF_vars(Callback(e))
  /\ WF_vars(TimerFires) /\ WF_vars(Archive) /\ WF_vars(PostSnapshot) /\ WF_vars(Tick)
  /\ \A p \in Restores : WF_vars(PreRestore(p) \/ FetchSnapshot(p) \/ WriteFiles(p))

FairSpec == Spec /\ Fairness

-----------------------------------------------------------------------------
(* Properties                                                              *)

\* Every variable ranges over the states the code's types allow.
TypeOK ==
  /\ game \in Entries
  /\ watched \subseteq {"save", "script"}
  /\ events \subseteq Causes /\ fired \subseteq Causes
  /\ timer \in 0..NoTimer /\ cause \in Causes
  /\ up \in [at: {"none", "build", "post"}, cause: Causes, game: Entries, version: Version]
  /\ since \in 0..Suppress
  /\ restore \in [Restores -> {"idle", "check", "fetch", "write"}]
  /\ pre \subseteq Restores
  /\ fetched \in [Restores -> Version]
  /\ local \in Version /\ server \in Version /\ made \in Version
  /\ own \subseteq Version /\ uploaded \subseteq Version

\* "preventing the restored files from triggering a spurious upload": an upload that
\* changes in the save directories have started finds saves made on this device, and
\* not the files of a restore.
NoSpuriousUpload ==
  [][(~Uploading /\ Uploading' /\ up'.cause \in {"local", "restored"}) => local \in own]_vars

\* Uploads are quick and succeed, and nothing takes the entry away.
Gentle == env \subseteq {"restore", "two_restores"}

\* "If an upload is in progress, back off and retry", and the exit marker triggers
\* "an immediate save upload": a save the game has written, and of which an event or
\* the game's exit tells, is uploaded, unless it is overwritten first or a restore
\* opens the window in which uploads are suppressed.
SavesAreUploaded ==
  Gentle => \A v \in 1..MaxVersion :
    (events \intersect {"local", "exit"} # {} /\ v \in own /\ local = v /\ ~Suppressed)
      ~> (v \in uploaded \/ local # v \/ Suppressed)
-----------------------------------------------------------------------------
(* The inductive invariant of SaveWatcherProofs, in named parts.           *)

\* Files are written as soon as their archive arrives: no time has passed.
WritesAreFresh == \A p \in Restores : restore[p] = "write" => since = 0

\* No timer runs in the window after a restore.
SuppressedIsQuiet == Suppressed => timer = NoTimer

\* Once the window is over, no trace is left of changes that were not the game's.
ForeignIsForgotten ==
  (local \notin own /\ ~Suppressed) =>
    /\ (events \union fired) \intersect {"local", "restored"} = {}
    /\ timer # NoTimer => cause \notin {"local", "restored"}

SuppressInv ==
  TypeOK /\ env \in Envs /\ WritesAreFresh /\ SuppressedIsQuiet /\ ForeignIsForgotten
=============================================================================
