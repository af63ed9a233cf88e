-------------------------- MODULE DownloadClients --------------------------
(***************************************************************************)
(* The download clients a user has configured (internal/api/               *)
(* download_clients.go), the adapters that speak to them (internal/        *)
(* download) and the poll of the DownloadMonitor over all of them, which   *)
(* remembers what it has done by the id an adapter reports.  What an       *)
(* import does is in DownloadImport; here a client is one daemon, and its  *)
(* downloads are complete or not, in place or not.                         *)
(***************************************************************************)
EXTENDS Naturals, FiniteSets, FiniteSetsExt, Functions

CONSTANTS
  Torrents, Nzbs,   \* what indexers offer
  Setups,           \* the clients of a behaviour: sets of kind, priority, category, enable
  MaxId,            \* bound on the numbers a daemon gives
  MaxClient,        \* bound on the numbers of clients
  NotFoundThreshold \* polls that find nothing before the monitor gives up (3)

Releases == Torrents \union Nzbs

-----------------------------------------------------------------------------
(* The adapters.  A daemon's download is "queued", "downloading",          *)
(* "checking", "moving" to its place, "seeding" there, "paused" before or  *)
(* "stopped" after it was complete.  An adapter                            *)
(*   takes   NZBs or torrents,                                             *)
(*   adds    passes the category on when it adds a download,               *)
(*   shows   reports the category,                                         *)
(*   ids     reports info hashes in lower or upper case, numbers that      *)
(*           start again, or a fresh id for every download,                *)
(*   path    reports the download's own path, the directory it is saved    *)
(*           in with others, or none,                                      *)
(* and maps what the daemon says to a DownloadState.                       *)

States == {"queued", "downloading", "checking", "moving", "seeding", "paused", "stopped"}

Qbittorrent ==
  [takes |-> "torrent", adds |-> TRUE, shows |-> TRUE, ids |-> "lower", path |-> "own"]
Transmission ==
  [takes |-> "torrent", adds |-> FALSE, shows |-> FALSE, ids |-> "number", path |-> "dir"]
Deluge ==
  [takes |-> "torrent", adds |-> FALSE, shows |-> TRUE, ids |-> "lower", path |-> "dir"]
Flood ==
  [takes |-> "torrent", adds |-> FALSE, shows |-> TRUE, ids |-> "upper", path |-> "dir"]
Sabnzbd ==
  [takes |-> "nzb", adds |-> TRUE, shows |-> TRUE, ids |-> "fresh", path |-> "none"]
Nzbget ==
  [takes |-> "nzb", adds |-> TRUE, shows |-> TRUE, ids |-> "number", path |-> "own"]
RTorrent ==
  [takes |-> "torrent", adds |-> FALSE, shows |-> FALSE, ids |-> "upper", path |-> "none"]

Kinds == {"qbittorrent", "transmission", "deluge", "flood", "sabnzbd", "nzbget", "rtorrent"}

NewClient(kind) ==
  CASE kind = "qbittorrent" -> Qbittorrent [] kind = "transmission" -> Transmission
    [] kind = "deluge" -> Deluge           [] kind = "flood" -> Flood
    [] kind = "sabnzbd" -> Sabnzbd         [] kind = "nzbget" -> Nzbget
    [] kind = "rtorrent" -> RTorrent

\* What a download is known by: its hash as the adapter spells it, or a number.
HashKinds == {k \in Kinds : NewClient(k).ids \in {"lower", "upper"}}
IdOf(k, r, n) == <<NewClient(k).ids, IF k \in HashKinds THEN r ELSE n>>
Ids == ({"lower", "upper"} \X Releases) \union ({"number", "fresh"} \X (1..MaxId))

\* The states each daemon has, and the one the adapter makes of each.
MapQBState == [queued |-> "queued", downloading |-> "downloading", checking |-> "checking",
  moving |-> "completed", seeding |-> "completed", paused |-> "paused", stopped |-> "completed"]
MapTransmissionState == [queued |-> "queued", downloading |-> "downloading",
  checking |-> "checking", seeding |-> "completed", paused |-> "paused", stopped |-> "paused"]
MapDelugeState == [queued |-> "queued", downloading |-> "downloading", checking |-> "checking",
  moving |-> "unknown", seeding |-> "completed", paused |-> "paused", stopped |-> "paused"]
\* Flood says several words; the first that is known counts.
MapFloodState == [queued |-> "unknown", downloading |-> "downloading", checking |-> "checking",
  seeding |-> "completed", paused |-> "paused", stopped |-> "paused"]
MapSABState == [queued |-> "queued", downloading |-> "downloading", checking |-> "unknown",
  moving |-> "completed", seeding |-> "completed", paused |-> "paused"]
MapNzbgetState == [queued |-> "queued", downloading |-> "downloading", checking |-> "unknown",
  moving |-> "unknown", seeding |-> "completed", paused |-> "paused"]

MapState(kind) ==
  CASE kind = "qbittorrent" -> MapQBState [] kind = "transmission" -> MapTransmissionState
    [] kind = "deluge" -> MapDelugeState  [] kind = "flood" -> MapFloodState
    [] kind = "sabnzbd" -> MapSABState    [] kind = "nzbget" -> MapNzbgetState
    [] kind = "rtorrent" -> MapTransmissionState

\* The adapters there are.
ASSUME SetupAssumption == \A S \in Setups : \A c \in S : c.kind \in Kinds

VARIABLES
  setup,      \* the clients the user may configure
  clients,    \* downloadclients.json: configurations by id
  queue,      \* each daemon's downloads: sets of records
  lastNumber, \* the last number each daemon gave
  done,       \* DownloadMonitor.processed, saved at every change
  missing,    \* DownloadMonitor.notFound
  started     \* history: imports since the saved set was last lost: daemon, release and
              \* state when they began, and whether an import of that release had begun

downloadVars == <<setup, clients, queue, lastNumber, done, missing, started>>

Init ==
  /\ setup \in Setups
  /\ clients = <<>>
  /\ queue = [k \in Kinds |-> {}] /\ lastNumber = [k \in Kinds |-> 0]
  /\ done = {} /\ missing = [x \in Ids |-> 0]
  /\ started = {}

-----------------------------------------------------------------------------
(* Configuration.                                                          *)

\* A new client gets the number after the greatest; here, one client speaks to a daemon.
CreateDownloadClient(c) ==
  LET id == Max(DOMAIN clients \union {0}) + 1 IN
  /\ \A i \in DOMAIN clients : clients[i].kind # c.kind
  /\ id <= MaxClient
  /\ clients' = [i \in DOMAIN clients \union {id} |-> IF i = id THEN c ELSE clients[i]]
  /\ UNCHANGED <<setup, queue, lastNumber, done, missing, started>>

\* UpdateDownloadClient, as far as it enables and disables.
UpdateDownloadClient(i) ==
  /\ clients' = [clients EXCEPT ![i].enable = ~@]
  /\ UNCHANGED <<setup, queue, lastNumber, done, missing, started>>

DeleteDownloadClient(i) ==
  /\ clients' = [j \in DOMAIN clients \ {i} |-> clients[j]]
  /\ UNCHANGED <<setup, queue, lastNumber, done, missing, started>>

-----------------------------------------------------------------------------
(* Requests.                                                               *)

\* The first of the least priority among those that take what is asked for.
Targets(r) ==
  LET fit == {i \in DOMAIN clients :
                /\ clients[i].enable
                /\ (clients[i].kind \in {"sabnzbd", "nzbget"}) = (r \in Nzbs)} IN
  {i \in fit : \A j \in fit : /\ clients[i].priority <= clients[j].priority
                              /\ clients[i].priority = clients[j].priority => i <= j}

\* An adapter refuses what its client does not take; a daemon knows a hash once, and
\* does not give a number twice until it starts again.
AddTorrent(r) ==
  /\ \E i \in Targets(r) :
       LET k == clients[i].kind
           n == lastNumber[k] + 1 IN
       /\ \A d \in queue[k] : d.release # r
       /\ (NewClient(k).takes = "nzb") = (r \in Nzbs)
       /\ n <= MaxId
       /\ queue' = [queue EXCEPT ![k] = @ \union
            {[release |-> r, id |-> IdOf(k, r, n), state |-> "queued",
              label |-> clients[i].category /\ NewClient(k).adds]}]
       /\ lastNumber' = [lastNumber EXCEPT ![k] = n]
  /\ UNCHANGED <<setup, clients, done, missing, started>>

\* A daemon goes on from one state of a download to another.
Change(k, from, s) ==
  /\ s \in DOMAIN MapState(k)
  /\ \E d \in queue[k] :
       /\ d.state \in from
       /\ queue' = [queue EXCEPT ![k] = (@ \ {d}) \union {[d EXCEPT !.state = s]}]
  /\ UNCHANGED <<setup, clients, lastNumber, done, missing, started>>

PauseDownload(k) ==
  \/ Change(k, {"queued", "downloading"}, "paused")
  \/ Change(k, {"seeding"}, "stopped")

ResumeDownload(k) ==
  \/ Change(k, {"paused"}, "downloading")
  \/ Change(k, {"stopped"}, "seeding")

Proceed(k) ==
  \/ Change(k, {"queued"}, "downloading")
  \/ Change(k, {"downloading"}, "checking")
  \/ Change(k, {"downloading", "checking"}, "moving")
  \/ Change(k, {"checking", "moving"}, "seeding")

RemoveDownload(k) ==
  /\ \E i \in DOMAIN clients : clients[i].kind = k
  /\ \E d \in queue[k] : queue' = [queue EXCEPT ![k] = @ \ {d}]
  /\ UNCHANGED <<setup, clients, lastNumber, done, missing, started>>

\* A daemon that starts again numbers what it still has, from one.
Renumber(k) ==
  /\ NewClient(k).ids = "number"
  /\ \E num \in Injection(queue[k], 1..Cardinality(queue[k])) :
       queue' = [queue EXCEPT ![k] = {[d EXCEPT !.id = <<"number", num[d]>>] : d \in @}]
  /\ lastNumber' = [lastNumber EXCEPT ![k] = Cardinality(queue[k])]
  /\ lastNumber' # lastNumber
  /\ UNCHANGED <<setup, clients, done, missing, started>>

-----------------------------------------------------------------------------
(* The monitor.                                                            *)

\* GetDownloads of an adapter, and the filter of checkClient.  RTorrent's is not
\* written yet and lists nothing.
GetDownloads(i) ==
  LET k == clients[i].kind IN
  {d \in queue[k] : /\ k # "rtorrent"
                    /\ clients[i].category => d.label /\ NewClient(k).shows}

\* Whether an import of a release began that has the id a daemon gives it.
StartedBefore(k, r) == \E x \in started : x[2] = r /\ NewClient(x[1]).ids = NewClient(k).ids

\* checkClient: a completed download is started once its path is there, or forgotten
\* when that has been missing for long.
Poll(i) ==
  LET k == clients[i].kind
      new == {d \in GetDownloads(i) : MapState(k)[d.state] = "completed" /\ d.id \notin done}
      there == {d \in new : NewClient(k).path # "none"}
      count(d) == missing[d.id] + 1
      gone == {d \in new \ there : count(d) >= NotFoundThreshold} IN
  /\ clients[i].enable
  /\ done' = done \union {d.id : d \in there \union gone}
  /\ started' = started \union {<<k, d.release, d.state, StartedBefore(k, d.release)>> : d \in there}
  /\ missing' = [x \in DOMAIN missing |->
                   IF \E d \in there \union gone : d.id = x THEN 0
                   ELSE missing[x] + Cardinality({d \in new : d.id = x})]
  /\ UNCHANGED <<setup, clients, queue, lastNumber>>

\* NewDownloadMonitor that does not load what was processed.
NewDownloadMonitor_Fresh ==
  /\ missing' = [x \in DOMAIN missing |-> 0] /\ done' = {}
  /\ UNCHANGED <<setup, clients, queue, lastNumber, started>>

\* What the server forgets when it starts again; everything, when a stop or an error in
\* saveProcessed left its file truncated.
NewDownloadMonitor ==
  /\ missing' = [x \in DOMAIN missing |-> 0]
  /\ \/ UNCHANGED <<done, started>>
     \/ done' = {} /\ started' = {}
  /\ UNCHANGED <<setup, clients, queue, lastNumber>>

Next ==
  \/ \E c \in setup : CreateDownloadClient(c)
  \/ \E i \in DOMAIN clients : UpdateDownloadClient(i) \/ DeleteDownloadClient(i) \/ Poll(i)
  \/ \E r \in Releases : AddTorrent(r)
  \/ \E k \in {c.kind : c \in setup} :
       PauseDownload(k) \/ ResumeDownload(k) \/ Proceed(k) \/ RemoveDownload(k) \/ Renumber(k)
  \/ NewDownloadMonitor

\* The monitor goes round its clients.
Fairness == \A i \in 1..MaxClient : WF_downloadVars(i \in DOMAIN clients /\ Poll(i))

-----------------------------------------------------------------------------
(* Properties.                                                             *)

\* Clients, downloads and what the monitor remembers have the form the code gives
\* them; no two downloads of a daemon have one id.
TypeOK ==
  /\ \A i \in DOMAIN clients : i \in 1..MaxClient /\ clients[i].kind \in Kinds
  /\ \A k \in Kinds : \A d, e \in queue[k] :
       /\ d.state \in DOMAIN MapState(k) /\ (d.id = e.id => d = e)
  /\ done \subseteq Ids
  /\ \A x \in DOMAIN missing : missing[x] < NotFoundThreshold

\* An import does not begin before the download is complete and in its place; but
\* qBittorrent's "moving" counts as completed (qbittorrent.go:253), while the files
\* are still on their way.  What is imported is the path an adapter reports: where that
\* is a directory others are saved in, nothing is known of those.
ImportedInPlace ==
  \A x \in started : x[3] \in {"seeding", "stopped"} \/ (x[1] = "qbittorrent" /\ x[3] = "moving")

\* While the saved set is kept, a torrent is imported for one of the clients that report its
\* hash in one spelling, however often it is removed and added, to one or the other, and
\* the server starts again: ids are remembered for all of them.
OneImportPerHash ==
  \A x, y \in started :
    (/\ x[2] = y[2] /\ NewClient(x[1]).ids = NewClient(y[1]).ids
     /\ x[1] \in HashKinds) => x = y /\ ~x[4]

\* Whatever a daemon lists, and wherever: an import is of what is complete, and for each
\* spelling of a hash there is one.
ImportedOnceInPlace == ImportedInPlace /\ OneImportPerHash

\* What a client lists as completed, and goes on to list, has been or comes to be
\* imported, if the adapter reports a hash and a path (download_monitor.go:116-188); also when
\* another client has, or had, the same.  Followed is the client that a request goes to last.
Followed == CHOOSE c \in setup : \A e \in setup : e.priority <= c.priority
Listed(r) ==
  \E i \in DOMAIN clients :
    /\ clients[i].kind = Followed.kind /\ clients[i].enable
    /\ NewClient(Followed.kind).path # "none" /\ Followed.kind \in HashKinds
    /\ \E d \in GetDownloads(i) : d.release = r /\ MapState(Followed.kind)[d.state] = "completed"
ListedIsImported ==
  \A r \in Torrents : <>[]Listed(r) => <>(\E x \in started : x[2] = r)
=============================================================================
