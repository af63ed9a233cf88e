---------------------------- MODULE InstallJobs ----------------------------
(***************************************************************************)
(* The life of an install job: DispatchInstall on the server, the per-agent*)
(* queue, delivery over the agent's event stream, executeJob on the device,*)
(* the progress reports it posts back, and the registry that remembers     *)
(* which job runs where.  internal/agent/registry.go, internal/agent/      *)
(* jobs.go, internal/api/agents.go, internal/api/fileserve.go and          *)
(* cmd/agent/internal/agentclient/client.go.                               *)
(*                                                                         *)
(* A member of Requests is one POST /agent/{id}/install and the goroutine  *)
(* that serves it; it is also the name of the one job, of the one temp     *)
(* directory and of the one millisecond that the request may produce.      *)
(***************************************************************************)
EXTENDS Naturals, Sequences, FiniteSets

CONSTANTS
  Agents,      \* agent ids
  Games,       \* game ids
  Archived,    \* the games whose library files are archives
  Requests,    \* install requests from the browser
  QueueCap,    \* buffer of an agent's job channel (32 in the code)
  MaxRecent,   \* length of RecentJobs (10 in the code)
  Files,       \* files a job downloads
  Env,         \* what the environment may do, a subset of EnvKinds
  NoAgent, NoJob, NoDir

EnvKinds ==
  { "overlap",       \* two requests for one agent and game run at the same time
    "collide",       \* two requests compute their job id in the same millisecond
    "extract_fail",  \* 7z is missing or fails
    "download_fail", \* a mkdir or a transfer fails on the device
    "lose_report",   \* a progress POST never reaches the server
    "disconnect",    \* an event stream breaks
    "agent_crash", "server_restart", "delete_agent" }

ASSUME EnvAssumption == Env \subseteq EnvKinds
ASSUME BoundsAssumption ==
  /\ QueueCap \in Nat \ {0}
  /\ MaxRecent \in Nat \ {0}
  /\ Files \in Nat
ASSUME NamesAssumption ==
  /\ Archived \subseteq Games
  /\ NoAgent \notin Agents
  /\ NoDir \notin Requests
  /\ NoJob \notin Games \X Requests
  /\ NoJob \notin [agent: Agents, game: Games, stamp: Requests, temp: BOOLEAN]

VARIABLES
  pc,          \* where each request's handler is
  job,         \* the InstallJob the handler has built
  jobIndex,    \* Registry.jobIndex: job id -> agent (the game is part of the id)
  registered,  \* DOMAIN Registry.agents
  current,     \* AgentInfo.CurrentJob
  recent,      \* AgentInfo.RecentJobs, newest first
  saved,       \* agents.json
  session,     \* agents that hold a session token the server knows
  queue,       \* JobQueue.queues
  tempDir,     \* Handler.installTempDirs
  disk,        \* extraction directories that exist on the server's disk
  loop,        \* where each agent's Run loop is
  stale,       \* agents with a dead stream the server still serves
  exec,        \* executeJob on the device, per request
  left,        \* files still to download
  net,         \* progress POSTs in flight
  cleaning     \* AgentProgress handlers between UpdateJobProgress and cleanup

handlerVars  == <<pc, job>>
registryVars == <<jobIndex, registered, current, recent, saved>>
tempVars     == <<tempDir, disk, cleaning>>
linkVars     == <<session, loop, stale>>
deviceVars   == <<exec, left, net>>
vars == <<handlerVars, registryVars, tempVars, linkVars, deviceVars, queue>>

JobId  == Games \X Requests
Job    == [agent: Agents, game: Games, stamp: Requests, temp: BOOLEAN]
Entry  == [id: JobId, status: {"done", "failed"}]
Report == [req: Requests, status: {"progress", "done", "failed"}]
Disk   == [agents: SUBSET Agents, recent: [Agents -> Seq(Entry)]]

Untracked == {"idle", "accepted", "extracted", "checked", "refused"}
Handling  == {"accepted", "extracted", "checked", "tracked"}

\* "%d-%d" of the game and the millisecond.
IdOf(r) == <<job[r].game, job[r].stamp>>

\* The milliseconds request r may read from the clock.
Stamps(r) == IF "collide" \in Env THEN Requests ELSE {r}

HasActiveJobForGame(a, g) == \E id \in JobId : id[1] = g /\ jobIndex[id] = a

Init ==
  /\ pc         = [r \in Requests |-> "idle"]
  /\ job        = [r \in Requests |-> NoJob]
  /\ jobIndex   = [id \in JobId |-> NoAgent]
  /\ registered = {}
  /\ current    = [a \in Agents |-> NoJob]
  /\ recent     = [a \in Agents |-> <<>>]
  /\ saved      = [agents |-> {}, recent |-> [a \in Agents |-> <<>>]]
  /\ session    = {}
  /\ queue      = [a \in Agents |-> <<>>]
  /\ tempDir    = [g \in Games |-> NoDir]
  /\ disk       = {}
  /\ loop       = [a \in Agents |-> "out"]
  /\ stale      = {}
  /\ exec       = [r \in Requests |-> "none"]
  /\ left       = [r \in Requests |-> Files]
  /\ net        = {}
  /\ cleaning   = {}

-----------------------------------------------------------------------------
(* The server: DispatchInstall, one action per access to shared state.     *)

\* The agent and the game are found and the game has files.
DispatchBegin(r, a, g) ==
  /\ pc[r] = "idle"
  /\ a \in registered
  /\ "overlap" \in Env \/ \A q \in Requests :
       pc[q] \in Handling => <<job[q].agent, job[q].game>> # <<a, g>>
  /\ pc' = [pc EXCEPT ![r] = "accepted"]
  /\ job' = [job EXCEPT ![r] = [agent |-> a, game |-> g, stamp |-> r, temp |-> FALSE]]
  /\ UNCHANGED <<registryVars, tempVars, linkVars, deviceVars, queue>>

\* Archives are extracted to a fresh directory, which replaces the one the
\* game had; the directory it replaces stays on disk.
ExtractOnServer(r) ==
  /\ pc[r] = "accepted"
  /\ job[r].game \in Archived
  /\ tempDir' = [tempDir EXCEPT ![job[r].game] = r]
  /\ disk' = disk \union {r}
  /\ job' = [job EXCEPT ![r].temp = TRUE]
  /\ pc' = [pc EXCEPT ![r] = "extracted"]
  /\ UNCHANGED <<registryVars, cleaning, linkVars, deviceVars, queue>>

\* No archives, or their extraction failed: the library's own files are sent.
SendLibraryFiles(r) ==
  /\ pc[r] = "accepted"
  /\ job[r].game \notin Archived \/ "extract_fail" \in Env
  /\ pc' = [pc EXCEPT ![r] = "extracted"]
  /\ UNCHANGED <<job, registryVars, tempVars, linkVars, deviceVars, queue>>

\* A dispatch that forgets to ask (NoDuplicateDispatch catches it).
CheckDuplicate_NotAsked(r) ==
  /\ pc[r] = "extracted"
  /\ pc' = [pc EXCEPT ![r] = "checked"]
  /\ UNCHANGED <<job, registryVars, tempVars, linkVars, deviceVars, queue>>

\* The job id is stamped, then the registry is asked for a job of the same
\* agent and game: 409 if there is one.
CheckDuplicate(r) ==
  /\ pc[r] = "extracted"
  /\ \E ms \in Stamps(r) : job' = [job EXCEPT ![r].stamp = ms]
  /\ pc' = [pc EXCEPT ![r] =
       IF HasActiveJobForGame(job[r].agent, job[r].game) THEN "refused" ELSE "checked"]
  /\ UNCHANGED <<registryVars, tempVars, linkVars, deviceVars, queue>>

TrackJob(r) ==
  LET a == job[r].agent IN
  /\ pc[r] = "checked"
  /\ jobIndex' = [jobIndex EXCEPT ![IdOf(r)] = a]
  /\ current' = IF a \in registered THEN [current EXCEPT ![a] = IdOf(r)] ELSE current
  /\ pc' = [pc EXCEPT ![r] = "tracked"]
  /\ UNCHANGED <<job, registered, recent, saved, tempVars, linkVars, deviceVars, queue>>

\* A full channel answers 503 and leaves the job tracked.
Enqueue(r) ==
  LET a == job[r].agent IN
  /\ pc[r] = "tracked"
  /\ \/ /\ Len(queue[a]) < QueueCap
        /\ queue' = [queue EXCEPT ![a] = Append(@, r)]
        /\ pc' = [pc EXCEPT ![r] = "dispatched"]
     \/ /\ Len(queue[a]) >= QueueCap
        /\ pc' = [pc EXCEPT ![r] = "full"]
        /\ UNCHANGED queue
  /\ UNCHANGED <<job, registryVars, tempVars, linkVars, deviceVars>>

-----------------------------------------------------------------------------
(* The server: agents come, go and are deleted.                            *)

Snapshot(agents, history) == [agents |-> agents, recent |-> history]

\* RegisterAgent: a new session; the entry keeps its jobs and is saved.
RegisterAgent(a) ==
  /\ loop[a] = "out"
  /\ loop' = [loop EXCEPT ![a] = "enrolled"]
  /\ session' = session \union {a}
  /\ registered' = registered \union {a}
  /\ saved' = Snapshot(registered', recent)
  /\ UNCHANGED <<handlerVars, jobIndex, current, recent, tempVars, stale, deviceVars, queue>>

\* AgentEvents: 401 without a session, 404 when the agent was deleted.
OpenStream(a) ==
  /\ loop[a] = "enrolled"
  /\ loop' = [loop EXCEPT ![a] = IF a \in session \cap registered THEN "up" ELSE "out"]
  /\ UNCHANGED <<handlerVars, registryVars, tempVars, session, stale, deviceVars, queue>>

\* The connection breaks; the server goes on serving it until it notices.
Disconnect(a) ==
  /\ "disconnect" \in Env
  /\ loop[a] = "up"
  /\ loop' = [loop EXCEPT ![a] = "out"]
  /\ stale' = stale \union {a}
  /\ UNCHANGED <<handlerVars, registryVars, tempVars, session, deviceVars, queue>>

\* ServeAgent of a dead connection returns: unsubscribe closes whatever stream
\* the agent has by then, SetOffline saves the registry.
ReapStream(a) ==
  /\ a \in stale
  /\ stale' = stale \ {a}
  /\ loop' = [loop EXCEPT ![a] = IF @ = "up" THEN "out" ELSE @]
  /\ saved' = IF a \in registered THEN Snapshot(registered, recent) ELSE saved
  /\ UNCHANGED <<handlerVars, jobIndex, registered, current, recent, tempVars, session,
                 deviceVars, queue>>

\* DeleteAgent: the entry and its sessions go; the job index, the queue and the
\* open stream stay.
DeleteAgent(a) ==
  /\ "delete_agent" \in Env
  /\ a \in registered
  /\ registered' = registered \ {a}
  /\ current' = [current EXCEPT ![a] = NoJob]
  /\ recent' = [recent EXCEPT ![a] = <<>>]
  /\ saved' = Snapshot(registered', recent')
  /\ session' = session \ {a}
  /\ UNCHANGED <<handlerVars, jobIndex, tempVars, loop, stale, deviceVars, queue>>

\* Only agents.json and the extraction directories survive a restart.
ServerRestart ==
  /\ "server_restart" \in Env
  /\ pc' = [r \in Requests |-> IF pc[r] \in Handling THEN "aborted" ELSE pc[r]]
  /\ jobIndex' = [id \in JobId |-> NoAgent]
  /\ registered' = saved.agents
  /\ recent' = saved.recent
  /\ current' = [a \in Agents |-> NoJob]
  /\ session' = {}
  /\ queue' = [a \in Agents |-> <<>>]
  /\ tempDir' = [g \in Games |-> NoDir]
  /\ cleaning' = {}
  /\ loop' = [a \in Agents |-> IF loop[a] = "up" THEN "out" ELSE loop[a]]
  /\ stale' = {}
  /\ net' = {}
  /\ UNCHANGED <<job, saved, disk, exec, left>>

-----------------------------------------------------------------------------
(* Delivery: ServeAgent takes a job off the channel and writes it.         *)

Deliver(a) ==
  /\ loop[a] = "up"
  /\ queue[a] # <<>>
  /\ queue' = [queue EXCEPT ![a] = Tail(@)]
  /\ exec' = [exec EXCEPT ![Head(queue[a])] = "received"]
  /\ UNCHANGED <<handlerVars, registryVars, tempVars, linkVars, left, net>>

\* The loop of a dead connection shares the channel; its write error is ignored.
DeliverToDeadStream(a) ==
  /\ a \in stale
  /\ queue[a] # <<>>
  /\ queue' = [queue EXCEPT ![a] = Tail(@)]
  /\ exec' = [exec EXCEPT ![Head(queue[a])] = "lost"]
  /\ UNCHANGED <<handlerVars, registryVars, tempVars, linkVars, left, net>>

-----------------------------------------------------------------------------
(* The device: executeJob.  reportProgress ignores every error, so a step  *)
(* never waits for the report it posts.                                    *)

Post(r, status) == net' = net \union {[req |-> r, status |-> status]}

JobFails(r) ==
  /\ exec' = [exec EXCEPT ![r] = "failed"]
  /\ Post(r, "failed")
  /\ UNCHANGED left

\* ServeGameFile answers 200: the reporter is known, and the root it picks
\* holds the files that were listed for this job.
Servable(r) ==
  /\ job[r].agent \in session
  /\ job[r].temp = (tempDir[job[r].game] # NoDir)

StartDownload(r) ==
  /\ exec[r] = "received"
  /\ exec' = [exec EXCEPT ![r] = "downloading"]
  /\ Post(r, "progress")
  /\ UNCHANGED <<handlerVars, registryVars, tempVars, linkVars, left, queue>>

DownloadFile(r) ==
  /\ exec[r] = "downloading" /\ left[r] > 0
  /\ \/ /\ Servable(r)
        /\ left' = [left EXCEPT ![r] = @ - 1]
        /\ Post(r, "progress")
        /\ UNCHANGED exec
     \/ ~Servable(r) /\ JobFails(r)
  /\ UNCHANGED <<handlerVars, registryVars, tempVars, linkVars, queue>>

\* mkdir fails, the disk is full, the transfer breaks off.
DeviceError(r) ==
  /\ "download_fail" \in Env
  /\ exec[r] \in {"received", "downloading"}
  /\ JobFails(r)
  /\ UNCHANGED <<handlerVars, registryVars, tempVars, linkVars, queue>>

\* Extraction and installer errors are logged and never end the job.
Install(r) ==
  /\ exec[r] = "downloading" /\ left[r] = 0
  /\ exec' = [exec EXCEPT ![r] = "installing"]
  /\ Post(r, "progress")
  /\ UNCHANGED <<handlerVars, registryVars, tempVars, linkVars, left, queue>>

Finish(r) ==
  /\ exec[r] = "installing"
  /\ exec' = [exec EXCEPT ![r] = "done"]
  /\ Post(r, "done")
  /\ UNCHANGED <<handlerVars, registryVars, tempVars, linkVars, left, queue>>

\* The agent process dies, with every job it was running.
AgentCrash(a) ==
  /\ "agent_crash" \in Env
  /\ exec' = [r \in Requests |->
       IF exec[r] \in {"received", "downloading", "installing"} /\ job[r].agent = a
         THEN "lost" ELSE exec[r]]
  /\ stale' = IF loop[a] = "up" THEN stale \union {a} ELSE stale
  /\ loop' = [loop EXCEPT ![a] = "out"]
  /\ UNCHANGED <<handlerVars, registryVars, tempVars, session, left, net, queue>>

-----------------------------------------------------------------------------
(* Progress reports: AgentProgress.                                        *)

LoseReport(m) ==
  /\ "lose_report" \in Env
  /\ m \in net
  /\ net' = net \ {m}
  /\ UNCHANGED <<handlerVars, registryVars, tempVars, linkVars, exec, left, queue>>

\* A history that is cut before the new entry comes in.
Prepend_CutFirst(entry, history) ==
  <<entry>> \o SubSeq(history, 1, IF Len(history) > MaxRecent THEN MaxRecent ELSE Len(history))

Prepend(entry, history) ==
  LET longer == <<entry>> \o history
  IN  SubSeq(longer, 1, IF Len(longer) > MaxRecent THEN MaxRecent ELSE Len(longer))

\* Plausible slips in UpdateJobProgress: the index entry is not deleted, CurrentJob
\* is not cleared, the history records CurrentJob instead of the reported job.
UpdateJobProgress_KeepsIndex(id, status) ==
  LET a == jobIndex[id] IN
  IF a \notin registered
    THEN UNCHANGED <<jobIndex, current, recent>>
  ELSE IF status = "progress"
    THEN /\ current' = [current EXCEPT ![a] = id]
         /\ UNCHANGED <<jobIndex, recent>>
  ELSE /\ recent' = [recent EXCEPT ![a] = Prepend([id |-> id, status |-> status], @)]
       /\ current' = [current EXCEPT ![a] = NoJob]
       /\ UNCHANGED jobIndex

UpdateJobProgress_KeepsCurrent(id, status) ==
  LET a == jobIndex[id] IN
  IF a \notin registered
    THEN UNCHANGED <<jobIndex, current, recent>>
  ELSE IF status = "progress"
    THEN /\ current' = [current EXCEPT ![a] = id]
         /\ UNCHANGED <<jobIndex, recent>>
  ELSE /\ recent' = [recent EXCEPT ![a] = Prepend([id |-> id, status |-> status], @)]
       /\ jobIndex' = [jobIndex EXCEPT ![id] = NoAgent]
       /\ UNCHANGED current

UpdateJobProgress_RecordsCurrent(id, status) ==
  LET a == jobIndex[id]
      shown == IF current[a] = NoJob THEN id ELSE current[a]
  IN
  IF a \notin registered
    THEN UNCHANGED <<jobIndex, current, recent>>
  ELSE IF status = "progress"
    THEN /\ current' = [current EXCEPT ![a] = id]
         /\ UNCHANGED <<jobIndex, recent>>
  ELSE /\ recent' = [recent EXCEPT ![a] = Prepend([id |-> shown, status |-> status], @)]
       /\ current' = [current EXCEPT ![a] = NoJob]
       /\ jobIndex' = [jobIndex EXCEPT ![id] = NoAgent]

\* UpdateJobProgress of a job that has an entry in the index.
UpdateJobProgress(id, status) ==
  LET a == jobIndex[id] IN
  IF a \notin registered
    THEN UNCHANGED <<jobIndex, current, recent>>
  ELSE IF status = "progress"
    THEN /\ current' = [current EXCEPT ![a] = id]
         /\ UNCHANGED <<jobIndex, recent>>
  ELSE /\ recent' = [recent EXCEPT ![a] = Prepend([id |-> id, status |-> status], @)]
       /\ current' = [current EXCEPT ![a] = NoJob]
       /\ jobIndex' = [jobIndex EXCEPT ![id] = NoAgent]

\* GetJobGameID and UpdateJobProgress; a report without a session gets 401, a
\* report of a job the index does not know changes nothing.
AgentProgress(m) ==
  LET r == m.req
      known == job[r].agent \in session /\ jobIndex[IdOf(r)] # NoAgent
  IN
  /\ m \in net
  /\ net' = net \ {m}
  /\ \/ /\ known
        /\ UpdateJobProgress(IdOf(r), m.status)
        /\ cleaning' = IF m.status = "progress" THEN cleaning ELSE cleaning \union {r}
     \/ ~known /\ UNCHANGED <<jobIndex, current, recent, cleaning>>
  /\ UNCHANGED <<handlerVars, registered, saved, tempDir, disk, linkVars, exec, left, queue>>

\* takeInstallTempDir and RemoveAll: whatever directory the game has by now.
CleanUp(r) ==
  LET g == job[r].game IN
  /\ r \in cleaning
  /\ cleaning' = cleaning \ {r}
  /\ tempDir' = [tempDir EXCEPT ![g] = NoDir]
  /\ disk' = disk \ {tempDir[g]}
  /\ UNCHANGED <<handlerVars, registryVars, linkVars, deviceVars, queue>>

-----------------------------------------------------------------------------
Dispatch(r) ==
  \/ \E a \in Agents, g \in Games : DispatchBegin(r, a, g)
  \/ ExtractOnServer(r) \/ SendLibraryFiles(r)
  \/ CheckDuplicate(r) \/ TrackJob(r) \/ Enqueue(r)

Connection(a) ==
  \/ RegisterAgent(a) \/ OpenStream(a) \/ Disconnect(a) \/ ReapStream(a)
  \/ DeleteAgent(a) \/ AgentCrash(a)
  \/ Deliver(a) \/ DeliverToDeadStream(a)

Device(r) ==
  StartDownload(r) \/ DownloadFile(r) \/ DeviceError(r) \/ Install(r) \/ Finish(r)

Next ==
  \/ \E r \in Requests : Dispatch(r) \/ Device(r) \/ CleanUp(r)
  \/ \E a \in Agents : Connection(a)
  \/ \E m \in net : AgentProgress(m) \/ LoseReport(m)
  \/ ServerRestart

Spec == Init /\ [][Next]_vars
-----------------------------------------------------------------------------
(* What the scheduling justifies: a handler's goroutine and the agent's    *)
(* process keep running, Run reconnects for ever, and a POST that is not   *)
(* lost is served.  Nothing is assumed of the browser or of faults.        *)

Fairness ==
  /\ \A r \in Requests :
       /\ WF_vars(ExtractOnServer(r) \/ SendLibraryFiles(r))
       /\ WF_vars(CheckDuplicate(r)) /\ WF_vars(TrackJob(r)) /\ WF_vars(Enqueue(r))
       /\ WF_vars(StartDownload(r)) /\ WF_vars(DownloadFile(r))
       /\ WF_vars(Install(r)) /\ WF_vars(Finish(r)) /\ WF_vars(CleanUp(r))
  /\ \A a \in Agents :
       WF_vars(RegisterAgent(a)) /\ WF_vars(OpenStream(a)) /\ WF_vars(Deliver(a))
  /\ \A m \in Report : WF_vars(AgentProgress(m))

FairSpec == Spec /\ Fairness

-----------------------------------------------------------------------------
(* Properties                                                              *)

\* Every variable ranges over the states the code's types allow.
Typed ==
  /\ pc \in [Requests -> Untracked \union {"tracked", "dispatched", "full", "aborted"}]
  /\ job \in [Requests -> Job \union {NoJob}]
  /\ jobIndex \in [JobId -> Agents \union {NoAgent}]
  /\ registered \subseteq Agents
  /\ current \in [Agents -> JobId \union {NoJob}]
  /\ recent \in [Agents -> Seq(Entry)]
  /\ saved \in Disk
  /\ session \subseteq Agents
  /\ queue \in [Agents -> Seq(Requests)]
  /\ tempDir \in [Games -> Requests \union {NoDir}]
  /\ disk \subseteq Requests
  /\ loop \in [Agents -> {"out", "enrolled", "up"}]
  /\ stale \subseteq Agents
  /\ exec \in [Requests -> {"none", "received", "downloading", "installing",
                            "done", "failed", "lost"}]
  /\ left \in [Requests -> 0..Files]
  /\ net \subseteq Report
  /\ cleaning \subseteq Requests

\* An agent's channel holds no more jobs than its buffer, and a history no more
\* entries than RecentJobs keeps, in memory and in agents.json.
Capped ==
  \A a \in Agents :
    /\ Len(queue[a]) <= QueueCap
    /\ Len(recent[a]) <= MaxRecent
    /\ Len(saved.recent[a]) <= MaxRecent

\* The types of the pipeline, with queues and histories within their caps.
TypeOK == Typed /\ Capped

\* A device that shows a job as current shows one the registry still tracks, for
\* that very agent: no report, however late, and no re-registration brings back
\* a job that has ended (registry.go, UpdateJobProgress).
CurrentIsTracked ==
  \A a \in Agents : current[a] # NoJob => jobIndex[current[a]] = a

\* A job that waits in an agent's channel is tracked for that agent, so that the
\* duplicate check of the next dispatch sees it, whatever is deleted meanwhile.
QueuedIsTracked ==
  \A a \in Agents : \A i \in 1..Len(queue[a]) : jobIndex[IdOf(queue[a][i])] = a

\* A job is either tracked or in the history, and in the history once: neither
\* late reports nor a restart that falls back to agents.json record it twice.
EndsOnce ==
  \A a \in Agents : \A i \in 1..Len(recent[a]) :
    /\ jobIndex[recent[a][i].id] = NoAgent
    /\ \A b \in Agents : \A k \in 1..Len(recent[b]) :
         recent[a][i].id = recent[b][k].id => a = b /\ i = k

\* What the history says of a job is what happened on the device it was sent to.
HistoryMatchesDevice ==
  \A a \in Agents : \A i \in 1..Len(recent[a]) : \A r \in Requests :
    (job[r] # NoJob /\ recent[a][i].id = IdOf(r)) =>
      job[r].agent = a /\ exec[r] = recent[a][i].status

\* "preventing duplicate dispatches": at most one job per agent and game.
NoDuplicateDispatch ==
  \A id, other \in JobId :
    (id[1] = other[1] /\ jobIndex[id] = jobIndex[other] /\ jobIndex[id] # NoAgent)
      => id = other

\* Whatever is deleted, reported late or restarted, and however many jobs a game has had:
\* what waits is tracked, a job ends once, and a game has one job per agent.
JobsAreAccountedFor == QueuedIsTracked /\ EndsOnce /\ NoDuplicateDispatch

\* "The temp dir is cleaned up when the job finishes", not before: a job with
\* files left to fetch from an extraction finds an extraction of its game.
TempDirServesItsJob ==
  \A r \in Requests :
    (exec[r] = "downloading" /\ left[r] > 0 /\ job[r].temp) => tempDir[job[r].game] # NoDir

\* Without faults every job that was accepted runs to an end the server records,
\* and its game may be dispatched to the agent again.
AcceptedJobEnds ==
  \A r \in Requests :
    pc[r] = "dispatched" ~> (exec[r] \in {"done", "failed"} /\ jobIndex[IdOf(r)] = NoAgent)

\* An agent for which a game is refused ("a queued or in-progress job") comes to accept it
\* again, whoever gave up dispatching it; but not after a dispatch that found the agent's
\* channel full, which answers 503 and leaves the job in the index.
Refused(a, g) == \E id \in JobId : id[1] = g /\ jobIndex[id] = a
FoundFull(a, g) == \E r \in Requests : pc[r] = "full" /\ job[r].agent = a /\ job[r].game = g
GameIsReleased ==
  \A a \in Agents, g \in Games : Refused(a, g) ~> (~Refused(a, g) \/ FoundFull(a, g))

\* While no report is lost every job that was accepted ends, and leaves its game free.
JobsEnd == AcceptedJobEnds /\ GameIsReleased
-----------------------------------------------------------------------------
(* The inductive invariants of InstallJobsProofs, in named parts.          *)

\* A handler past its first step has built a job, and whatever is queued, runs,
\* reports or waits for its cleanup was dispatched.
Shape ==
  /\ \A r \in Requests : pc[r] # "idle" => job[r] \in Job
  /\ \A a \in Agents : \A i \in 1..Len(queue[a]) : pc[queue[a][i]] = "dispatched"
  /\ \A r \in Requests : exec[r] # "none" => pc[r] = "dispatched"
  /\ \A m \in net : pc[m.req] = "dispatched"
  /\ \A r \in cleaning : pc[r] = "dispatched"

TypeInv == Typed /\ Shape

\* Every request stamps its job with a millisecond of its own.
OwnStamp == \A r \in Requests : pc[r] # "idle" => job[r].stamp = r

\* No id of a request that has not reached TrackJob is in the index.
NotYetTracked ==
  \A r \in Requests : pc[r] \in Untracked => \A g \in Games : jobIndex[<<g, r>>] = NoAgent

\* The index holds the ids of dispatched jobs, under the agent they were built for.
IndexIsOfJobs ==
  \A id \in JobId : jobIndex[id] # NoAgent =>
    IdOf(id[2]) = id /\ jobIndex[id] = job[id[2]].agent

IndexInv == TypeInv /\ OwnStamp /\ NotYetTracked /\ IndexIsOfJobs /\ CurrentIsTracked

\* A report of the end of a job says how it ended on the device.
ReportsAreTrue == \A m \in net : m.status # "progress" => exec[m.req] = m.status

\* A job that waits in a channel waits there once, for its agent, and has not run.
QueuedOnce ==
  \A a \in Agents : \A i \in 1..Len(queue[a]) :
    /\ job[queue[a][i]].agent = a /\ exec[queue[a][i]] = "none"
    /\ \A k \in 1..Len(queue[a]) : queue[a][k] = queue[a][i] => k = i

\* Entry e of the history of agent a is of a job of a, and says how that ended.
TrueOf(a, e) ==
  LET r == e.id[2] IN
  pc[r] = "dispatched" /\ IdOf(r) = e.id /\ job[r].agent = a /\ exec[r] = e.status

\* Histories in memory and in agents.json name each job once.
Truthful(history) ==
  \A a \in Agents : \A i \in 1..Len(history[a]) :
    /\ TrueOf(a, history[a][i])
    /\ \A k \in 1..Len(history[a]) : history[a][i].id = history[a][k].id => i = k

\* A job that has ended is not in the index any more.
EndedIsUntracked ==
  \A a \in Agents : \A i \in 1..Len(recent[a]) : jobIndex[recent[a][i].id] = NoAgent

\* A handler between TrackJob and Enqueue has its job in the index.
TrackedIsIndexed == \A r \in Requests : pc[r] = "tracked" => jobIndex[IdOf(r)] = job[r].agent

\* Before its first step a handler has built nothing.
NothingBuilt == \A r \in Requests : pc[r] = "idle" => job[r] = NoJob

HistoryInv ==
  /\ IndexInv /\ NothingBuilt /\ ReportsAreTrue /\ QueuedOnce
  /\ Truthful(recent) /\ Truthful(saved.recent)
  /\ EndedIsUntracked /\ TrackedIsIndexed /\ QueuedIsTracked

\* Handlers that run at one time are for different agents or games.
OneHandler ==
  \A r, q \in Requests :
    pc[r] \in Handling /\ pc[q] \in Handling /\ r # q =>
      job[r].agent # job[q].agent \/ job[r].game # job[q].game

\* A handler that has passed the check is still right: nobody has tracked a job of its
\* agent and game meanwhile.
CheckedIsFree ==
  \A r \in Requests : pc[r] = "checked" => ~HasActiveJobForGame(job[r].agent, job[r].game)

AccountedInv == HistoryInv /\ OneHandler /\ CheckedIsFree /\ NoDuplicateDispatch
=============================================================================
