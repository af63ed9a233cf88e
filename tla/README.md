# CargoDeck in TLA+

CargoDeck is a Go server that keeps a library of games and a Go agent that runs on
each gaming device.  The server searches indexers, follows downloads, imports them,
and dispatches installs to the agents; agents install games, make shortcuts, and keep
the save files of a game the same on every device.  The server talks to an agent over
one server-sent-event stream per agent; everything an agent says is an HTTP POST.

The specifications here are about what is hard to test in that: goroutines that share
the registry, the broker, the snapshot directories and the save watcher; streams that
overlap; reports that come late or never; processes that stop.  TLC checks them on
small instances, and TLAPS proves the safety part of what TLC checks for every instance.

Contents: [the system](#the-system) (inventory) | [the modules](#the-modules) |
[the runs](#the-runs) | [what the code does otherwise than it says](#disagreements) |
[the proofs](#the-proofs) | [what is not modelled](#what-is-not-modelled) |
[the plan](#the-plan).

## The system

`internal/` and `main.go` are the server, `cmd/agent/` the agent, `frontend/` the
browser's code.  There are no tests in the repository; its documentation is
`README.md` and the comments.

| component | state | operations | what makes it hard | correct when |
|---|---|---|---|---|
| agent registry, `internal/agent/registry.go` | agents, their status, current job and history; job id -> agent; `agents.json` | Register, SetOnline, SetOffline, Delete, TrackJob, HasActiveJobForGame, UpdateJobProgress, save, load | reports of ended jobs, deleted agents, restarts with an index that is not saved | what it shows of a job is what happens on the device; a job ends once |
| job queue, `internal/agent/jobs.go` | a channel of 32 jobs per agent | GetOrCreate, Enqueue | a full channel, an agent that never comes | what is queued is tracked and in the end delivered |
| agent broker, `internal/agent/broker.go` | a channel of 32 messages per connected agent | subscribe, unsubscribe, Send, ServeAgent | streams of one agent that overlap, a channel used after the lock | messages arrive at most once, in order; the stream the agent reads is the one Send reaches |
| agent handlers, `internal/api/agents.go`, `fileserve.go` | nonces, agent sessions, extraction directories, pending browse and Proton requests | RegisterAgent, AgentEvents, DispatchInstall and other dispatches, AgentProgress, Browse/Proton round trips with a time limit, DeleteAgent, ServeGameFile | check and act on the registry in two steps; cleanup by game | one job per agent and game; a job finds its files |
| agent client, `cmd/agent/internal/agentclient/client.go` | connection, running jobs, installed games | Run, register, listenSSE, executeJob, scan, deleteGame, changeGameExe, renamePrefix, checkAndUpdate, reportProgress | reconnects, concurrent jobs, reports that are never repeated | every accepted job ends and is reported |
| save watcher, `.../save_sync.go` | table of watched games, timers, running uploads, times of restores | UpdateGames, handleEvent, scheduleUploadLocked, uploadSaves, restoreLatestSave, TriggerUpload | debounce, back-off and suppression windows against slow uploads and downloads | saves made here are uploaded, restored ones are not |
| save snapshots, `internal/api/saves.go` | a directory per game, agent and second | UploadSaveSnapshot, ServeLatestSave, PromoteAgentSnapshot, DeleteSaveSnapshot, pruning, postSnapshotSync | uploads that overlap, break off, or meet restores | no snapshot lost or half-restored, no device overridden silently, devices agree |
| download monitor and post-processor, `internal/monitor/` | processed downloads and links in files, failed polls, import status; directories of the library | poll, Process, addGameToLibrary, linkOrCopyFile, RecordLink | a crash between marking and importing; goroutines that import side by side; paths that are away | each finished download is imported once, whole, and to the game that was clicked |
| download clients, `internal/download/` | the daemons' downloads | add, list, pause, resume, remove; mapping of states | ids that start again, states that mean "nearly done" | what counts as completed is complete, and where the adapter says |
| game and download-client handlers, `internal/api/games.go`, `lookup.go`, `download_clients.go` | rows of `Games`, configured clients | create, update, refresh, delete | a row read, a metadata service asked, the row written back | a column is not overwritten by an older one |
| library scanner, `internal/scanner/scanner.go`, `internal/api/media.go` | one scan, its cancel function | Scan, StopScan, CleanLibrary | stopping while the next scan starts; rows deleted during a scan | one row per directory; a scan ends |
| update checker, `internal/updater/`, `internal/indexer/version.go` | latest versions in `Games` | CheckAll, compare versions | games updated while they are checked | newer releases are announced, versions are not overwritten by worse ones |
| device's games, `client.go`, `cmd/agent/internal/launcher` and `internal/launcher/` | `run.sh`, Wine prefixes, `shortcuts.vdf`, known shortcuts | install, delete, change executable or arguments, rename prefix, regenerate, refresh, scan | read-modify-write without a lock; a watch that sees its own writes; Steam Cloud | nothing of others or of the user is lost; each game starts from Steam |
| agent update, `client.go`, `internal/api/agentbinary.go` | hosted binary, the agent's file and its ".new" | checkAndUpdate, deploy | checks side by side, a crash between two steps | the binary of a device is whole and in the end the hosted one |
| browser authentication, `internal/api/auth.go` | nonces, one-time password, sessions, attempts per address | challenge, verify, OTP, limiter | one-use tokens under concurrent requests, the edge of a window | a challenge or password serves once; a limit holds |
| browser events, `internal/sse/broker.go` | a channel of 16 events per browser | Subscribe, Publish | a browser that does not read, one that leaves | nobody sends to a closed channel; the queue a browser shows is the current one in the end |
| search and scorer, `internal/api/misc.go`, `internal/scorer/` | one channel per search | Search, score, filter | sources that answer in any order or fail, and overlap | each release of an indexer once, best first in its batch |
| repository and database, `internal/repository/` | SQLite | CRUD | - | single statements |
| configuration, `internal/config/` | one JSON file | load, modify, save | read-modify-write | no setting is lost |
| manifest, indexers, metadata, executable versions, router, media | none or caches | pure functions and calls to other services | - | - |

How they interact: a browser request calls a handler; handlers call the registry, the
queue and the broker, each under its own lock and none across two calls; `AgentEvents`
runs `ServeAgent`, which drains the queue and the broker's channel of an agent into its
stream; the client's reader starts `executeJob`, `restoreLatestSave` and the like as
goroutines; these POST to `AgentProgress` and `UploadSaveSnapshot`, which publish to the
browsers and, for saves, start `postSnapshotSync`, which sends `RESTORE_SAVE` through
the broker to the other agents.  The monitor's goroutine polls the download clients and
starts imports, which write the library folder and the table of games; the scanner, the
update checker, the handlers of games and the reports of agents write the same table, each
statement by itself.  On a device every command runs in a goroutine of its own, over the
same script and shortcut files.

## The modules

| module | models | of |
|---|---|---|
| `InstallJobs` | an install from `DispatchInstall` through queue, stream, `executeJob` and progress reports to the registry's history | `internal/agent/registry.go`, `jobs.go`, `internal/api/agents.go`, `fileserve.go`, `client.go` |
| `AgentStream` | one agent's event streams: registration, `AgentEvents`, `ServeAgent`, `Send` | `internal/agent/broker.go`, `internal/api/agents.go`, `client.go` |
| `LossyFifo` | the promise `AgentStream` implements: each accepted message arrives at most once, in the order of acceptance | - |
| `SaveWatcher` | the save watcher of one game on one device | `save_sync.go` |
| `SaveSync` | the snapshots of one game on the server, all its devices, conflicts and restores | `internal/api/saves.go` |
| `GameRows` | the table `Games` and its statements | `internal/repository/game_repository.go` |
| `DownloadImport` | from a finished download to a game in the library: links, poll, import, row | `internal/monitor/`, `internal/api/games.go`, `download_clients.go` |
| `GameLibrary` | everybody who writes `Games`: handlers, scanner, cleaning, reports, checker | `internal/scanner/`, `internal/updater/`, `internal/api/games.go`, `lookup.go`, `media.go`, `agents.go` |
| `DeviceGames` | scripts, prefixes, shortcuts and scans on one device | `client.go`, `internal/launcher/shortcut.go` |
| `DownloadClients` | the adapters of seven daemons and the poll over those configured | `internal/download/`, `internal/api/download_clients.go`, `internal/monitor/` |
| `BrowserSessions` | challenge, limiter, session and one-time password | `internal/api/auth.go` |
| `AgentSessions` | tokens of agents under registration, deletion and restarts | `internal/api/agents.go`, `registry.go` |
| `BrowserEvents` | the broker of the browsers' events and three of its publishers | `internal/sse/broker.go`, `internal/api/` |
| `AgentRequests` | questions to a device and their ten seconds | `internal/api/agents.go`, `client.go` |
| `AgentUpdate` | the self-update of an agent | `client.go`, `internal/api/agentbinary.go` |
| `ReleaseSearch` | the search over all sources | `internal/api/misc.go`, `internal/scorer/` |
| `Services` | the composition of `DownloadClients` and the six modules after it | - |
| `...Proofs` | theorems about `InstallJobs`, `AgentStream`, `SaveWatcher`, `SaveSync`, `DownloadImport`, `GameLibrary`, `DeviceGames` and `Services` | - |
| `MC...` | symmetry sets, environments and small worlds for TLC | - |

`DownloadImport` and `GameLibrary` extend `GameRows`: an import is several steps over the
table in the one, and one of many writers in the other.  `DownloadClients` has in detail
the daemons that `DownloadImport` takes as one.  `Services` puts seven parts that share
no state into one specification: a behaviour is one of one part while the others stand
still, and each part has its own share of the combined properties.  `MCServices` gives its
constants values and adds the fairness of each part.

Component modules declare a constant `Env`, the set of things the environment may do
(`EnvKinds` lists them), or `Envs`, a set of such sets of which each behaviour picks one
(the variable `env`): a run then covers several worlds without their product.  A run says
what it allows, and so does a theorem that needs something to be excluded; the table
below says which member breaks which property.

### InstallJobs

A member of `Requests` is one `POST /agent/{id}/install`: the goroutine that serves it,
the job it builds, the extraction directory it may make and the millisecond it may
read.  `pc` is the place of the handler.  It takes one action per access to shared
state: `DispatchBegin` (agent and game looked up), `ExtractOnServer` or
`SendLibraryFiles`, `CheckDuplicate` (job id stamped, registry asked), `TrackJob`,
`Enqueue`.  `jobIndex`, `registered`, `current` and `recent` are the registry, `saved`
its file, written at the places the code calls `save`.  `queue` is the channel, `loop`
the agent's connection (`out`, `enrolled`, `up`), `stale` the agents with a connection
that is dead and that the server still serves: `DeliverToDeadStream` loses a job to it,
`ReapStream` ends it and, as the code does, whatever stream the agent has by then.
`exec`, `left` and `net` are `executeJob`: it never waits for a report, so reports may
be served in any order, late or never.  `AgentProgress` is `UpdateJobProgress` in one
step (one lock) and, for a job that ended, `CleanUp` of the extraction directory in
another.

Abstracted: files are a count, percentages and texts are left out, a job id is the pair
of game and millisecond.  A deletion of an agent, in the code several calls, is one
step; the agents in `agents.json` are a set with histories.

### AgentStream

For one agent: `client` is the connection the agent reads, `phase` the handler of each
connection (`opening`, `serving`, `leaving`, `detached`), `stream` the broker's entry,
`buf` and `closed` the channels.  `Send` is two actions, since it reads the channel
under the lock and uses it after: in between the channel may be closed, and
`SendPanics`; a panic in a handler is a 500 and in a bare goroutine the end of the
process.  `InOrderAtMostOnce` is `LossyFifo`'s specification with what `Send` accepted
as the messages sent and what the agent has read as the messages received.  Install jobs,
which `ServeAgent` takes from the queue, are in `InstallJobs`.

### SaveWatcher

The content of the save directories is a version number.  `timer`, `cause` and `fired`
are the game's timer: time to go, the event it was set for, callbacks that have fired
and wait for the lock.  `up` is the running upload with the table entry it was given:
`game` has five kinds of entry because the fields a lookup, a failed lookup and
`UPLOAD_SAVE` fill in differ, and each operation reads its own.  `since` is the time
since `SuppressUploads`.  Time passes in `Tick`s, of which `Debounce`, `Backoff` and
`Suppress` are multiples with the order of the code's 30, 10 and 120 s.  Everything that
is ready happens before a `Tick`; an upload or a download takes several only with
`slow_upload` or `slow_restore`.

Abstracted: one game, paths without globs, directories that exist.  Copying a snapshot
and archiving the directories are single steps; `TriggerUpload`, which asks the server
for paths first, is one.

### SaveSync

`store` is the snapshot directories.  An upload looks the latest one up
(`LookUpLatest`), makes its directory (`MakeDir`), whose content is `Torn` until it is
extracted, and then prunes and starts `postSnapshotSync` (`UploadDone`) or removes the
directory (`UploadFails`).  `syncs` are the `postSnapshotSync` goroutines: they publish
a conflict if the snapshot that was the latest was another device's, and otherwise ask
the other devices to restore.  A conflict is published once, to the browsers that are
connected and read, and is kept nowhere: `conflict` is what an open page shows, which may
be an older conflict or none, and `Dismiss` closes it.  `told` is history: the snapshots
for which a conflict was published, seen or not.  `Promote` settles a conflict that is
shown.  `PromoteFails` is the rest of that handler: a copy that breaks off leaves what it
has copied (`Half`) as the newest directory, which `findLatestSnapshotDir` serves from
then on, and a game that is not found after the copy leaves a whole copy that nobody is
asked to restore; both answer the browser with an error.  A device is a short form of
`SaveWatcher`: it plays, uploads if it is not suppressed, fetches what is the latest and
writes it over what it has.

Abstracted: the timestamps of directories are all different (the code's have seconds, so
two uploads of a device within one second share a directory, and a promotion within one
copies a directory onto itself); a promotion copies in one step and is only asked for by
the browser's conflict dialog, for one of the two devices it names (`frontend/`); a
deletion is of a complete snapshot.

### DownloadImport

`torrent` and `data` are the client's word and the files there are, `reachable` whether
`os.Stat` fails for another reason than that they are gone.  `processed`, `notFound` and
`links` are the monitor's memory; the files of the first and the last are written at every
change, so a `Crash` keeps them and forgets the rest.  `os.WriteFile` truncates before it
writes and nobody looks at its error: with `save_fail` a restart may find either file empty
(`Loaded`).  An import is `StartImport` (marked processed before its goroutine runs), `Begin`,
`Resolve` (the name), one of `SkipFile`, `CopyFile` and `CopyFails` per file, `EndCopy`,
`Match` (the game), `Save` (the row), `SetVersion` and `Finish`, with the errors that end it
earlier.  A file in the library is a name, a place, a file and the download it is a link to, if
it is one.  A single file goes to `gameDir/Base(src)` and a directory to one of its name, so
downloads may share a place (`same_file`, `same_dir`); `Truncates` is what `os.Create` does to a
link.  A file that cannot be linked nor copied is skipped, and the directory is listed all the
same if a game's file is there (`copy_fail`).  A link is found by info hash only (`HasLink`):
ids that are numbers (Transmission), NZBs, which have no hash, and hashes in base32 find none
(`no_hash`).  `wanted`, `listed`, `cut` and `failed` are history: where a download was asked
for, which imports wrote a row, which a crash or an error gave up, which files failed.

Abstracted: files are names, of which some are a game's and some junk; the search for a
name is one of three answers; directories within a download are left out.  A save that fails
loses the whole file and never leaves an older state of it.  When downloads share a place they
all do, and have the same kind.  `ImportGame` is asked for the path of a download and no other.

### GameLibrary

A title is also its directory.  `edit` is a handler between its read and its write, `scan`
the walks (`begun`, `root`, `walk`) with the directories left and the paths read at the
start, `cancelable` the one `StopScan` would cancel, which may have ended long since
(`Scan` never clears `cancelScan`), `clean`, `report` and `check` what the other writers
have read.  A scan ends early when it is cancelled or cannot read its folder; one that cannot
read the table (`db_fail`) knows no path and lists everything again, because the error of
`GetAllGames` is dropped.  A game is added with a path if the browser sends one (`add_path`).
A search of the checker may fail (`search_fail`), or its first ten results show less than
there is (`many`).  `parsed` is history: the version an import read out of a release
name.  `UpdateGame` writes all columns but the three of versions from a row read earlier,
as the statement does.

### DeviceGames

`script` is what `run.sh` (on Windows `run.bat`) of each game names (executable, arguments,
prefix), `vdf` the shortcuts by name, `known`, `scriptPaths` and `reported` the lists of the
client and the server.  A goroutine (`Procs`) goes through the steps of its command; reading
a file and writing it are two of them.  `dirty` is the watch's half second.  Without
`overlap` goroutines run one after the other, which is how a user who waits for one command
before the next sees them; with it a command is also given while goroutines of the watch are
under way (`Ready`).

A game stands for `safeName` of its title, the name of its directory; with `unsafe` the title
differs from it (`RawTitle`), and what installs and `changeGameExe` write is another entry
than the one scans write.  With `fold` a title is the name of the foreign shortcut but for
case (`Alike`), which some look-ups tell apart and some do not.  With `windows` there is no
`run.sh` to parse (`Parsed`), with `no_runner` no script is written and the shortcut starts
the game itself (`Direct`).  An entry of somebody else's has fields that
`parseShortcutsVDF` drops (`extra`) and another entry of its name (`twin`).  There is always
a Steam directory; without one nothing is written and all look-ups fail.

### DownloadClients

The adapters are data: what each takes, whether it passes a category on and shows it, what
ids and which path it reports, and its map of states.  An id is a pair of its form and a
release or a number: qBittorrent and Deluge report info hashes in lower case, Flood and
rTorrent in upper case, and `processed` takes the two for different (`IdOf`); Transmission
and NZBGet number their downloads from one whenever they start (`Renumber`); SABnzbd gives a
fresh id.  A path is the download's own (qBittorrent, NZBGet), the directory it is saved in
(Transmission, Deluge, Flood), or none.  Daemons take downloads through their states in any
order the daemon has; a client can be configured, disabled and deleted while the monitor
polls.  What the category filter, the state and the path let through is imported; `started`
is history, and keeps of each import whether one of that release had begun under the same
spelling.  A restart may find `download_processed.json` truncated (`NewDownloadMonitor`).

Abstracted: that an import starts, not what it does with the path: what lies beside a
download in a directory of others is imported too, which `DownloadImport` does not show
either, since its client reports a download's own path.

### The other services

`BrowserSessions` has time (`Tick`), since lifetimes and a sliding window are its subject;
each step is one lock or one operation of a `sync.Map`.  Attempts to sign in are a set, of
which the limiter keeps those of its window.  All of it is in memory and forgotten at a
restart, counted attempts too: the module is about the time between two.  Agents' sessions,
which let a caller in as well (`LetIn`), are in `AgentSessions` and taken as given.  `AgentSessions` splits a
registration into challenge, token and list entry, and a deletion into its two steps.
`BrowserEvents` numbers the states of the queue and of the list of agents, and keeps what
each browser shows.  `AgentRequests` has the channel under its number, the job, the result
and the time-out as separate steps.  The number is the time in nanoseconds; that two handlers
never read the same time is an assumption on the clock, which the code makes and does not check,
and its mutant shows what happens otherwise.  `AgentUpdate` has each file operation: a file is
absent, or has bytes of some versions and lacks those that a check has yet to write.
`ReleaseSearch` has one goroutine per source (Prowlarr and Jackett speak for many indexers),
the channel of ten and the loop that merges by title, size and the indexer's name; scores are computed as the scorer does from what
its parsers are given, and the sorted list is declared (`ScoreAll`: a permutation by
descending score that keeps the order of equals, as `sort.SliceStable` does).

## The runs

| run | asks | bounds | result |
|---|---|---|---|
| `install_network` | `TypeOK`, `CurrentIsTracked`, `HistoryMatchesDevice` | 2 agents, 1 archived game, 2 requests that may overlap, 1 file, history of 1; streams break, downloads and extractions fail, reports get lost | hold |
| `install_restart` | `JobsAreAccountedFor` | 1 agent, 2 games (1 archived), 2 requests, queue of 1; all of that, and server restarts, crashes of the agent, deletions | holds |
| `install_live` | `JobsEnd` | 1 agent, 2 games, 2 requests that may overlap, a channel of 1, failing downloads | holds |
| `install_shared_temp` | `TempDirServesItsJob` | 2 agents, 1 archived game, no fault | violated |
| `stream` | `TypeOK`, `LiveIsReachable`, `RegisteredIsServed`, `InOrderAtMostOnce`, `ForgottenReconnects` | 2 connections, 2 messages, buffer of 1; streams break and time out, the server restarts | hold |
| `saves` | `TypeOK`, `SavesAreUploaded`, `NoSpuriousUpload` | 2 restores, 2 versions, windows of 2, 1 and 3; three worlds: overlapping restores; manual, slow and failing uploads; failing lookups and downloads with uninstalls | hold |
| `sync_serial` | `LastSnapshotKept`, `ConflictsAreTold`, `RestoresWhole`, `DevicesAgree` | 3 devices, 2 versions, 5 directories, 1 kept; failing uploads and promotions, conflicts seen or not, deletions, play in the suppression window | hold |
| `import` | `TypeOK`, `SeedsSurvive`, `WholeWhenListed`, `ClickedGameGetsIt`, `ImportsSettle` | 2 downloads (a directory and a file), 2 imports at a time, 2 failed polls, 3 rows; eight worlds: overlapping imports with outages, crashes, removals, deleted games, services that are down, failing copies; manual imports; shared names, ids without a hash, files that are not saved | hold |
| `import_twice` | `SourceSurvives` | 1 download, imported again by hand | violated |
| `library` | `TypeOK`, `OneRowPerDirectory`, `ReleaseVersionWins`, `LibrarySettles` | 2 titles, 1 edit, 2 scans, versions up to 2, 2 rows; five worlds: scans, stops, deletions and cleaning; edits, refreshes, reports and imports; the checker; scans that cannot read the table, and games added with a path; searches that fail or hide | hold |
| `device` | `TypeOK`, `NoGhostShortcut`, `NothingLost`, `ServerShowsDevice`, `ShortcutsSettle` | 2 games, 2 goroutines, 2 arguments; twelve worlds, each of two to five kinds of command or trouble | hold |
| `services` | `ServicesTypeOK`, `ImportedOnceInPlace`, `SignInLimited`, `SessionsOfTheListed`, `AnswersMatch`, `BinaryIsWhole`, `SearchWhole`, `ServicesSettle` | see below | hold |

What the properties say is written above each of them in its module.  The bounds of
`services`: a torrent and an NZB, five setups of two clients, which between them have all
seven kinds, and two clients of the same and of different spellings of a hash, numbers up to 2; two browser
requests, 3 ticks, 2 attempts in a window of 2, one challenge and one password; two agents,
two deletions, 8 tokens, 3 faults; one browser and one handler, a channel of 2; two
requests with two questions, numbers up to 3; two `CHECK_UPDATE`s beside the check at the
connection, 3 versions, 3 faults; three sources with every combination of four answers
and a failure over a channel of 2, with a release that two sources have of one indexer and
that another indexer has too.

**Why the bounds are enough.**  Two requests are what a race in a dispatch needs, and with
two agents or two games they cover "same agent, other game" and "other agent, same game".
A queue of one is full after one job; a history of one drops its oldest entry with the
second job.  Two connections are the least for which a stream is replaced while the one
before it is leaving; two messages are the least that can be reordered, and a buffer of one
is full when the second comes.  The windows of the save watcher are all distinct and keep
the order of the code's, which is all the code compares.  Three devices are an uploader, the
holder of the latest snapshot and a bystander; two versions are a conflict, and five
directories let two promotions follow it, one of which fails; keeping one directory of
each device makes its second upload prune.  Two downloads of one title and two goroutines are a race for a row; a
file can also be missing at both of two polls, so the threshold is reached.  A scan that is
stopped while the next begins needs two.  A check for updates meets another one at every
step with three of them.  Three sources over a channel of two make one wait.

**Bounds in guards.**  `MaxVersion` (changes of saves, `SaveWatcher`, `SaveSync`; releases,
`GameLibrary`; deployments, `AgentUpdate`), `MaxStamp` (snapshot directories, `SaveSync`),
`MaxGame` (rows, `GameRows`' users), `MaxId` and `MaxClient` (`DownloadClients`,
`AgentRequests`), `MaxTime`, `MaxNonce` and `MaxCode` (`BrowserSessions`), `MaxToken`
(`AgentSessions`), `MaxFaults` (`AgentSessions`, `AgentUpdate`), `MaxChange` and `MaxLeave`
(`BrowserEvents`).  The requests, messages, restores and connections of the other constants
are each used as often as the actions allow (requests and messages once).

**What breaks what.**  Properties that hold only while the environment is restricted:

| property | holds without | why |
|---|---|---|
| `NoDuplicateDispatch` (in `JobsAreAccountedFor`) | `overlap` | `HasActiveJobForGame` and `TrackJob` are two lock acquisitions |
| `CurrentIsTracked`, `HistoryMatchesDevice` | `collide` | a job id is a game and a millisecond |
| `JobsEnd` | restarts, crashes, lost reports | a lost job stays in the index, and its game is refused from then on; so does one that found the channel full, which `GameIsReleased` excepts (`FoundFull`) |
| `LiveIsReachable` | `late_open` | `subscribe` of a dead stream replaces the entry of the next one |
| `NoSpuriousUpload` | `slow_restore` | the window begins before the body is downloaded |
| `SavesAreUploaded` | `slow_upload`, failures | a callback that finds an upload running gives up; nothing is tried again |
| `ConflictsAreTold`, `RestoresWhole`, `LastSnapshotKept` | `overlap` | the latest snapshot is looked up before, and visible during, the extraction; a promotion meanwhile makes a newer one, for which the upload is pruned |
| `DevicesAgree` | `offline`, `two_restores`, `delete_latest` | a `RESTORE_SAVE` is lost, two of them write in the wrong order, or what a device restored is deleted; of a latest snapshot about which a conflict was published, or whose promotion failed, it says nothing (`told`) |
| `SeedsSurvive` | `manual` | see `import_twice` |
| | `same_file`, `same_dir` | a second download of one name is copied into the link to the first |
| | `save_fail` with `crash` | marks that are lost let every download be imported again |
| `WholeWhenListed` | `delete_files`; `manual` with `overlap` or `crash`; `save_fail` with `crash`; `same_dir` | a directory that is half copied, or another's, is taken for the whole |
| | files that failed | `linkOrCopyFile`'s error is logged and the directory listed all the same |
| `ClickedGameGetsIt` | `late_link` | the client has the download before the link is recorded |
| | `no_hash`, `save_fail` with `crash` | the link is never found, or lost |
| `OneRowPerDirectory` | `edit`, `import`, `add_path` | all set a path without asking who has it |
| | `db_fail` | a scan that cannot read the table takes every directory for new |
| `UpdateAnnounced` (in `LibrarySettles`) | `search_fail`, `many` | what the ten results do not show is not compared |
| `ReleaseVersionWins` | `race` | a report checks for a version and writes one in two statements |
| `NoGhostShortcut`, `ServerShowsDevice` | `overlap`, `restart`, `offline` | the lists of the last scan the server answered are what a refresh works from |
| | another title than the directory's | only the entry by the name of the directory is removed (`unsafe`) |
| `ServerShowsDevice` | `no_runner` | `changeGameExe` makes a directory and does not scan |
| `NothingLost` | `overlap`, `restart` | scripts and shortcuts are read and written back whole |
| (its part on arguments) | `windows`, `no_runner` | `run.bat` is written, never parsed; without a runner no script is written |
| (its part on foreign entries) | `fold`; entries of one name, once a shortcut was removed | `==` in one look-up, `EqualFold` in the others; re-adding replaces by name |
| `ShortcutsSettle` | `fold` | the watch finds a foreign entry first, and writes again and again |
| `ImportedOnceInPlace` (its part on ids) | adapters with numbers or fresh ids | numbers start again when the daemon does, and a download added again has a new one |
| | clients that spell a hash in two ways; a saved set that was lost | ids are compared as strings; the saved set is truncated before it is written |
| `BinaryIsWhole` | the slips described below | two checks share the ".new" file |

**Fairness.**  Weak fairness of single goroutines, and nothing else: a handler that may
go on goes on; `executeJob` runs to its end; `Run` registers and connects again for
ever (`client.go`, the loop around `register` and `listenSSE`); a POST that is not lost
is served; timers fire and time passes; the monitor, the checker and the broadcaster are
tickers; `EventSource` connects again; the service manager starts an agent again that
ended; a source answers or runs into its timeout.  Nothing is assumed of browsers,
players, scans or faults: a stream never has to time out, a user never has to come.
`install_live` has no broken streams: with one, a job can be written to a connection that
is dead, and is lost for good.  `ForgottenReconnects` and `ShortcutsSettle` assume in the
property itself that restarts and interference come to an end.

**Deadlock** is checked for the streams.  The other systems really stop: every request is
served, every version made, every directory written.

## Disagreements

Two runs show the code do what a comment says it does not:

- `install_shared_temp`.  `installTempDirs` is keyed by game.  Two agents install the
  same archived game; the first to finish has the directory removed, and the next file
  the other asks for is a 404.  `internal/api/agents.go:415`: "The temp dir is cleaned up
  when the job finishes".
- `import_twice`.  A download that is imported again by hand is copied onto the link of
  itself that the first import made: `os.Link` fails, the fallback truncates the file, and
  the torrent has lost it.  `internal/monitor/post_processor.go:443`: "The source is never
  deleted so the torrent client can continue seeding".

Others met while modelling are in the models as actions or as the restrictions above, and
no run is kept for them:

- An agent reconnects before the server notices that its old stream is dead; the old
  handler then calls `SetOffline`, and the connected agent is shown offline until it
  reconnects (`agents.go:217`, against `registry.go:11`).
- `UPLOAD_SAVE` replaces the game's entry by one without `rawPaths`, the field the upload
  takes its directories from (`save_sync.go:517`), and so archives nothing, against the
  comment at `:491`.
- A promotion whose copy fails answers 500 and leaves the half-copied directory, which has
  the newest timestamp: the next device that asks for the latest save restores it
  (`saves.go:438`).  A conflict for which no game page is open is never shown, and the
  devices stay apart (`saves.go:482`).
- Two devices that upload at the same time each look the latest snapshot up before the
  other's directory exists; neither is found to conflict, and each is pushed over the
  other (`saves.go:138`, against `:470`).
- A metadata refresh or an edit writes back the row it read before asking IGDB; the path an
  import set meanwhile is lost.  Two imports of one title may insert two rows.  A report
  that falls into an import overwrites its version (`agents.go:511-514`).
- A scan that cannot read the table inserts every directory again (`scanner.go:107`, against
  `:106`), and so does a game that is added with the path of another (`games.go:81`).
- When the version installed is the newest, the flag of an earlier check is not taken back
  (`checker.go:125`).
- A download is marked processed before it is imported: a crash, or a library that cannot
  be reached, loses the import; a directory that was half copied looks complete to the next
  scan, and one of which files could not be copied is listed at once
  (`post_processor.go:289`).  Two single-file downloads of one name and title share a path: the
  copy of the second empties the first in the library, and the file that is seeded
  (`post_processor.go:333`, `:458`).  A stop in `saveProcessed` forgets what was processed
  (`download_monitor.go:74`).  What was clicked is not found for ids without an info hash
  (`download_links.go:44`).  A network share that is not mounted is an empty directory, so its downloads are
  given up after three polls, against the comment at `download_monitor.go:29-33`.
- qBittorrent's "moving" counts as completed; SABnzbd reports no path and rTorrent's
  adapter lists no downloads, so nothing of theirs is imported; ids of Transmission and
  NZBGet start again and may name a download that was processed long ago.  Transmission,
  Deluge and Flood report the directory a download is saved in, so that all of it is imported
  (`transmission.go:175`, `deluge.go:165`, `flood.go:180`).  A torrent that two clients seed is
  imported twice if one of them is Flood and the other is not, since only its hashes are in
  upper case.  Of several categories only the first is looked at (`misc.go:318`).
- A release that several indexers have is streamed once for each of them, against the comment
  "same release cross-posted across indexers is kept once" (`misc.go:120`): the key has the
  indexer's name (`misc.go:124`).  What is kept once is an indexer's release that comes through
  two sources.
- A refresh works from the script paths of the last scan that reached the server: a deleted
  game in them gets its shortcut back.  A changed executable writes a script for a game
  that was deleted meanwhile.  A script written for Wine loses its `STEAM_ID`.  Reading
  `shortcuts.vdf` while another goroutine has truncated it loses the shortcuts of others.
  An agent that stops between moving a prefix and rewriting the script leaves a script
  whose prefix is gone.
- An install writes the shortcut under the title (`client.go:549`), a scan under the name of
  the directory (`:1282`): a title with a colon gets two entries, and the one by the title
  survives the game.  Every write of `shortcuts.vdf` resets what `ShortcutEntry` has no field
  for (tags, hidden, last played), although it "mirrors the fields Steam stores"
  (`shortcut.go:12`), and removing a shortcut merges foreign entries of one name
  (`client.go:1938`).  A foreign shortcut that is named as a game but for case is found by
  `ShortcutEntryMatches` (`shortcut.go:144`) and not by `AddSteamShortcut` (`:110`): each
  write sets off the next, against `client.go:1474`.
- On Windows `regenerateScripts`, `changeGameExe` and `setRunScriptSettings` look for
  `run.sh`, and the script is `run.bat`: settings are never changed, and a new executable
  loses the arguments (`client.go:1745`, `:1771`).
- The self-test of a downloaded agent registers without a version, upon which the server
  sends `CHECK_UPDATE`; that check truncates the ".new" file, which the first one may then
  rename over the running binary.  Two checks that download before and after a deployment
  write two versions into one file, each at its own offset.  `BinaryIsWhole` excepts both
  (`slipped`).
- A refused dispatch leaves its extraction directory behind (`agents.go:422`).  Sessions
  outlive a change of the password (`auth.go:193`); challenges nobody answers stay
  (`auth.go:76`).  The stream of a deleted agent stays open (`agents.go:164`).  Two
  handlers that publish the list of agents may do so in the wrong order (`agents.go:874`).

## The proofs

tlapm checks every step.  Assumptions: the `ASSUME`s of the component modules (sizes are
natural numbers, names differ, `Env` is a subset of `EnvKinds`), plus what a theorem
names.

| theorem | states | needs |
|---|---|---|
| `InstallJobsProofs!TypeCorrect` | `Spec => []TypeOK` | - |
| `InstallJobsProofs!CurrentAlwaysTracked` | `Spec => []CurrentIsTracked` | `"collide" \notin Env` |
| `InstallJobsProofs!HistoryAlwaysMatchesDevice` | `Spec => []HistoryMatchesDevice` | `"collide" \notin Env` |
| `InstallJobsProofs!JobsAlwaysAccountedFor` | `Spec => []JobsAreAccountedFor` | neither `"collide"` nor `"overlap"` in `Env` |
| `AgentStreamProofs!TypeCorrect` | `Spec => []TypeOK` | - |
| `AgentStreamProofs!RegisteredAlwaysServed` | `Spec => []RegisteredIsServed` | - |
| `AgentStreamProofs!LiveAlwaysReachable` | `Spec => []LiveIsReachable` | `"late_open" \notin Env` |
| `AgentStreamProofs!RefinesLossyFifo` | `Spec => Fifo!Spec` | - |
| `SaveWatcherProofs!TypeCorrect` | `Spec => []TypeOK` | - |
| `SaveWatcherProofs!UploadsAreNeverSpurious` | `Spec => NoSpuriousUpload` | no `"slow_restore"` in `Envs` |
| `SaveSyncProofs!TypeCorrect` | `Spec => []TypeOK` | `"overlap" \notin Env` |
| `SaveSyncProofs!SnapshotsKept` | `Spec => []LastSnapshotKept` | `"overlap" \notin Env` |
| `SaveSyncProofs!ConflictsAlwaysTold` | `Spec => []ConflictsAreTold` | `"overlap" \notin Env` |
| `SaveSyncProofs!RestoresAlwaysWhole` | `Spec => []RestoresWhole` | `"overlap" \notin Env` |
| `SaveSyncProofs!DevicesAlwaysAgree` | `Spec => []DevicesAgree` | none of `"overlap"`, `"two_restores"`, `"offline"`, `"delete_latest"` in `Env` |
| `DownloadImportProofs!TypeCorrect` | `Spec => []TypeOK` | - |
| `DownloadImportProofs!ImportsKeepSeeding` | `Spec => []SeedsSurvive` | - (the property excludes `manual`, shared names, and lost marks) |
| `DownloadImportProofs!ListedIsWhole` | `Spec => WholeWhenListed` | - (the property excludes what is not `Considerate`, and files that failed) |
| `DownloadImportProofs!LinkIsFollowed` | `Spec => ClickedGameGetsIt` | - (the property excludes `late_link`, `no_hash`, and lost links) |
| `GameLibraryProofs!TypeCorrect` | `Spec => []TypeOK` | - |
| `GameLibraryProofs!DirectoriesOnce` | `Spec => []OneRowPerDirectory` | - (the property excludes `edit`, `import`, `add_path`, `db_fail`) |
| `GameLibraryProofs!ReleaseVersionStays` | `Spec => []ReleaseVersionWins` | - (the property excludes `race`) |
| `DeviceGamesProofs!TypeCorrect` | `Spec => []TypeOK` | - |
| `DeviceGamesProofs!NothingIsLost` | `Spec => NothingLost` | - (the property excludes `overlap`, `restart`; its parts also `windows`, `no_runner`, `fold`) |
| `DeviceGamesProofs!NoGhosts` | `Spec => []NoGhostShortcut` | - (it excludes `overlap`, `restart`, `offline`) |
| `DeviceGamesProofs!ServerIsTold` | `Spec => []ServerShowsDevice` | - (those and `no_runner`) |
| `ServicesProofs!TypeCorrect` | `Spec => []ServicesTypeOK` | - |
| `ServicesProofs!ImportsOnce` | `Spec => []ImportedOnceInPlace` | - |
| `ServicesProofs!SignInIsLimited` | `Spec => []SignInLimited` | - |
| `ServicesProofs!SessionsAreListed` | `Spec => []SessionsOfTheListed` | - |
| `ServicesProofs!AnswersAlwaysMatch` | `Spec => []AnswersMatch` | - |
| `ServicesProofs!BinaryStaysWhole` | `Spec => []BinaryIsWhole` | - |
| `ServicesProofs!SearchIsWhole` | `Spec => []SearchWhole` | - |

So every safety property of a passing run has a theorem, and the hypotheses are the
restrictions of the table of what breaks what.

*Install jobs.*  `TypeOK` is `Typed`, the ranges of the variables, and `Capped`, the
capacities.  It is not inductive: a report or a queue entry could name a request
without a job.  `TypeInv` adds `Shape`: handlers past their first step have a job, and
what is queued, runs, reports or waits for its cleanup was dispatched.  `CurrentIsTracked`
needs to know that a report that clears an index entry belongs to the agent whose
`CurrentJob` it clears: `IndexInv` adds that each job has a stamp of its own
(`OwnStamp`), that an id is not in the index before `TrackJob` (`NotYetTracked`), and
that the index holds ids under the agent their job was built for (`IndexIsOfJobs`).
`CappedStep` has the caps: a job enters a channel that had room, `Prepend` cuts after it has
prepended, and a restart takes histories that were cut when they were saved.

`HistoryInv` adds what is under way: a report of an end says what happened on the device
(`ReportsAreTrue`), a queued job waits once, for its agent, and has not run
(`QueuedOnce`), and every entry of a history, in memory or in `agents.json`, is of a job of
its agent, says how that ended and stands there once (`Truthful`).  A restart that falls
back to the file therefore shows nothing false, only less.  `EndedIsUntracked` keeps a
report that comes twice from adding a second entry.  `AccountedInv` joins to it that handlers
which run at one time are for different agents or games (`OneHandler`, which is what
`overlap` breaks) and that what `CheckDuplicate` found is still so at `TrackJob`
(`CheckedIsFree`).

*Streams.*  `LiveInv` joins `RegisteredIsServed` with two facts on phases: the agent
registers only between streams (`EnrolledIsOut`), and a handler that has not subscribed
yet serves the agent's own connection (`OpeningIsClient`, which is what `late_open`
breaks).  The refinement rests on `OrderInv`: accepted messages are distinct, channels
hold accepted messages in the order of acceptance, and what waits in the channel of the
agent's own stream is younger than everything the agent has received.  The last part is
why at-most-once in-order delivery survives reconnects: a new stream starts with an empty
channel, and an old one no longer reaches the agent.  It uses `TypeOK`, whose part on
capacities is kept because `SendPut` looks at the length under which it puts.

*Save watcher.*  `SuppressInv` is `TypeOK` with three facts.  A restore's files are written
in the instant its window begins (`WritesAreFresh`, which is what `slow_restore` breaks);
inside the window no timer runs (`SuppressedIsQuiet`); and after it, while the directories
hold what a restore wrote, neither an event nor a callback nor a timer is left that a change
of files caused (`ForeignIsForgotten`).  A callback that starts an upload for such a cause
therefore finds saves of this device.

*Snapshots.*  The theorems say what the server keeps while one request is served at a
time, which the code does not enforce: with `overlap` in `Env` TLC finds `LastSnapshotKept`,
`ConflictsAreTold` and `RestoresWhole` violated.  The
inductive invariant is `SyncInv`, at the end of `SaveSync`.  `OneAtATime` and
`LookedIsLatest` say that what an upload found to be the latest snapshot still is when it
makes its own directory, so that none of another device slips in between.  `JobsFollow`
keeps that true of the uploads that have ended and wait for `postSnapshotSync`, through
promotions (whose timestamps are newer, `StampsPast`), pruning and deletions (which only
remove); `ConflictsAreTold` follows.  `WritingIsNewest` makes a torn directory the one
its upload will complete or remove, and `StampsDiffer` that it is no other; so nothing
that is served is of an upload under way or broken off, nothing restored is (`SavesWhole`),
and an upload that fails removes nothing that was acknowledged (`LastSnapshotKept`).  What a
failed promotion leaves is not `Torn` but `Half`, and is served: the theorems on whole and
equal saves say so in their properties and are no more than that.

`DevicesAgree` is about all devices at rest, and needs to know who is on the way to what.
`AgreeInv` adds to `SyncInv` that a version is uploaded once, by the device that made it,
and is nowhere else before (`UploadsAreOwn`): so a device that holds something else than the
latest snapshot either holds what the server has yet to get, or follows.  `LatestIsFollowed`
says this of every device but the one that made the latest snapshot, while no conflict about
that snapshot has been published and no promotion has failed to make it: the device will be
asked to restore (`ToBeAsked`), or it has the snapshot, restores it, or has
newer saves (`FollowsOrLeads`).  A device that restores starts no upload (`RestoresAreQuiet`),
or it would send back an older version as the latest.

*Imports.*  `TypeInv` adds to `TypeOK` the forms of an import and of a row, and that an import
carries the id of its own download or none.  The other invariants are in layers, each of
which uses those before it.  `OnceInv`: what is polled is not marked, the monitor's imports
are of marked downloads and each has a download of its own, and only downloads that have
ended have files there or in the library.  `SeedInv`, while nobody imports by hand, files have
names of their own and no mark is lost (`Seeding`): what is in
the library is of a marked download, and an import has not brought what it has left to
bring; so `linkOrCopyFile` never meets the link it made, and never truncates it.  This
holds through crashes because the mark is saved before the goroutine starts: an import that
was cut off is not begun again.  `WholeInv`: until the row is written, every file of the
download is in the library, has failed (`There`) or is still to be brought (`Copied`,
`Brought`); a download that is a single file is only taken when it is a game's.  By hand, a directory that is found in the
library counts as brought, which is right only if it is whole (last part of `WholeInv`): not
while another import still copies it, nor after a stop in the middle.  `Considerate` excludes
these two, shared names, lost marks, and that a user deletes the directory between copy and
row.  `ClickInv`: the game that was clicked is in the request, then in the link, until `Match`
takes it; since a download that has not ended has no import and `late_link` is excluded, the
request is recorded before.

*Library.*  `TypeInv` adds to `TypeOK` the form of what is remembered between a read and a
write: a row that an edit or the checker has read, the version a report found, the paths a
scan has seen.  `OneRowPerDirectory` follows from `PathInv`: at most one scan is not idle,
and then, and only then, `scanning` is set (`OneScan`, which `TypeOK` needs too); what a refresh writes back has the path its row has,
or its row is gone and the id is not given again (`EditsKnowPaths`); and a scan on its walk
knows the path of every row, or has made the row itself (`WalkKnows`), although rows come,
change and go.  All actions but the scan's and `AddGame` keep the paths of the rows there
are (`PathsKept`); statements on columns are lemmas of their own.

`ReleaseVersionWins` follows from `VersionInv`: a report that is being written is for a row
that no import has given a version, unless the row is gone (`ReportIsLate`; `race` is an
import between the two statements), and ids are not given again, so that no new row inherits
what an import read for an old one (`NewIdsAreUnparsed`).  All other statements keep the
column (`VersionsKept`).

*Games of a device.*  `TypeInv` gives the phases of a goroutine their data: who writes a file
holds what it read.  `DeviceInv` then says what is so while goroutines run one after the
other: at most one is not idle (`OneRuns`), a command is given when nothing else waits
(`CommandsAlone`), and of the one that runs, `Kept`, `NoGhost` and `Told`.  These are about
the files as they will be when it has written what it holds (`ToCome`).  `Kept`: a script
that is rewritten is the one there; arguments a script has not are on their way to it; a
prefix a script does not find is being renamed; what is known of a foreign entry is in every
copy of it (`KeepsForeign`).
`NoGhost`: neither the files nor what is held is of a deleted game, and its script is
forgotten before shortcuts are made again.  `Told`: unless a scan is still to come, every
script has its shortcut and the server shows what is there, and a scan under way is right
about what it has seen.  At rest nothing is held, so the three properties follow.  That a
rewriting leaves no arguments out (`ArgumentsStay`) is about steps: it follows from `Kept` and
what each rewriting makes of a script (`RewrittenForm`).  With
`overlap` they fail: a goroutine writes back what another has changed, as the code does.

*Services.*  The parts share no variable, so the invariant is a conjunction, with one lemma per
part on its own steps and one that the others leave it alone.

- *Downloads*: `ImportInv` says that a daemon that goes by hashes has each release once, under
  its hash as it spells it, and that what was imported under a spelling is remembered under it,
  or all of that is lost together.  A poll then starts an import only for what is not
  remembered; that the state it starts in is one of a download in its
  place is `CompletedIsInPlace`, from the seven maps of states.  `NumbersInv` has the ids of
  the other daemons, for the forms.
- *Browser*: a challenge whose answer is looked at was taken by that request alone, and none
  that waits has been made a session (`NoncesAreTaken`); a used password is not the active one; and the
  attempts that are kept are those of one window, of which there are at most as many as the
  limit allows.
- *Agents*: `SessionsOfTheListed` is inductive with the forms: a session is of an agent on the
  list, or of one that is being registered, or one whose deletion is between its two steps.
- *Events*: each channel holds messages within its capacity, and none once it is closed.
- *Questions*: numbers are given once (`NumbersAreGiven`, `OneNumberEach`), jobs and results
  under way carry the question of their number (`OwnQuestion`), so that a late answer finds
  nobody or its own asker.
- *Updates*: what a check goes on to rename has passed the self-test and is whole
  (`TestedIsWhole`), unless another check has opened the file since; and the file has bytes of
  one version (`Pure`), that of every check that writes it, unless two versions met in it.
- *Search*: what a source has answered came or waits (`CameOrWaits`); what is streamed is
  what is seen (`StreamedIsSeen`, `SeenIsStreamed`); a batch is sorted, since `ScoreAll` is
  defined by the order and not by how it is made.

`ServicesTypeOK` and the seven properties follow from the conjunction.

Only model-checked: all liveness (`JobsEnd`, `ForgottenReconnects`, `SavesAreUploaded`,
`ImportsSettle`, `LibrarySettles`, `ShortcutsSettle`, `ServicesSettle`), which the prover does
not reach, and the runs that show a violation.  `TypeOK` of `SaveSync` is proved, and in no
run.  `ImportsSettle` says among other things that a completed download is listed; the
theorems on `DownloadImport` say what is so if it is.

## What is not modelled

`PROJECT.json` lists every component.  Left out:

- *Texts*: titles and what is parsed from them, version strings, executables' resources,
  path templates of the manifest, VDF and YAML.  They are functions of strings; a model would
  repeat them character by character.
- *Protocols*: logins and encodings of download clients, indexers and metadata services,
  serving of files and images, the installation script.  `DownloadClients` and
  `ReleaseSearch` take what they answer as given.
- *Configuration*: each setting is a file that is read, changed and written as a whole.  It
  is not written atomically, and a reader that meets it truncated takes defaults
  (`config.go:36`), a new token among them.  The models have settings as variables where a
  part depends on them.
- *Of modelled parts*: previews and other reads of one step, rules and profiles, uninstalling
  the agent, finding Steam, disks and Proton, glob paths of saves, files of games.

Hazards without a property are in `PROJECT.json` with the reason.  All nine are things that
the code gets wrong, so that a property would only say so: two dispatches of a game at one
time or within one millisecond, a full channel, a send on a closed channel, a restore over
directories that were empty, uploads that overlap, a promotion that fails, a file that cannot
be copied, a scan that cannot read the table.  The models have these steps; the properties
exclude them, as the tables above say, and are no evidence about them.  Where a property
covers a hazard in part, the hazard's note says which part it does not.

## The plan

Done: the install pipeline, streams, save watcher, snapshots, imports, the library, the
games of a device, and the services.  To do, in order of what could go wrong:

1. A restart of the server and equal timestamps in `SaveSync`.
2. A composition of `SaveWatcher` per device with `SaveSync`, which `SaveSync` now
   abbreviates; `SaveSync`'s device as its abstract specification.
3. `DownloadImport` over the daemons of `DownloadClients`.

Proofs, in order: the safety steps that the liveness properties rest on, each as an invariant or
an action property of its own (a job that is tracked is queued, sent, runs or has a report under
way; a completed download is polled, marked with an import, listed or cut off); `SaveSync` as an
implementation of a register of versions, once it has restarts; the deep properties of the
environments that are excluded now, with what still holds in them.
