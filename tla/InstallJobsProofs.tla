------------------------- MODULE InstallJobsProofs -------------------------
(***************************************************************************)
(* What InstallJobs keeps for every set of agents, games and requests,     *)
(* every queue capacity and every combination of faults.                   *)
(***************************************************************************)
EXTENDS InstallJobs, SequenceTheorems, TLAPS

(***************************************************************************)
(* RecentJobs: the new entry comes first, older ones move down, the list   *)
(* is cut at MaxRecent.                                                    *)
(***************************************************************************)
LEMMA PrependProperties ==
  ASSUME NEW e \in Entry, NEW h \in Seq(Entry)
  PROVE  /\ Prepend(e, h) \in Seq(Entry)
         /\ Len(Prepend(e, h)) \in 1..(Len(h) + 1)
         /\ Len(Prepend(e, h)) <= MaxRecent
         /\ Prepend(e, h)[1] = e
         /\ \A i \in 2..Len(Prepend(e, h)) : Prepend(e, h)[i] = h[i - 1]
<1> DEFINE longer == <<e>> \o h
           n == IF Len(longer) > MaxRecent THEN MaxRecent ELSE Len(longer)
<1>1. /\ longer \in Seq(Entry)
      /\ Len(longer) = Len(h) + 1
      /\ \A i \in 1..Len(longer) : longer[i] = IF i = 1 THEN e ELSE h[i - 1]
  <2>1. /\ <<e>> \in Seq(Entry)
        /\ Len(<<e>>) = 1
        /\ <<e>>[1] = e
    OBVIOUS
  <2>2. Len(h) \in Nat
    BY LenProperties
  <2> QED BY <2>1, <2>2, ConcatProperties, Z3
<1>2. n \in 1..Len(longer) /\ n <= Len(h) + 1 /\ n <= MaxRecent
  BY <1>1, LenProperties, BoundsAssumption
<1>3. \A i \in 1..n : longer[i] \in Entry
  BY <1>1, <1>2, ElementOfSeq
<1> HIDE DEF longer, n
<1>4. /\ SubSeq(longer, 1, n) \in Seq(Entry)
      /\ Len(SubSeq(longer, 1, n)) = n
      /\ \A i \in 1..n : SubSeq(longer, 1, n)[i] = longer[i]
  BY <1>2, <1>3, SubSeqProperties
<1>5. Prepend(e, h) = SubSeq(longer, 1, n)
  BY DEF Prepend, longer, n
<1> QED BY <1>1, <1>2, <1>4, <1>5

-----------------------------------------------------------------------------
(* Types and shape.                                                        *)

LEMMA TypeInvInit == Init => TypeInv
<1> SUFFICES ASSUME Init PROVE TypeInv OBVIOUS
<1>1. Typed
  BY BoundsAssumption DEF Init, Typed, Untracked, Disk, JobId
<1>2. Shape
  BY DEF Init, Shape
<1> QED BY <1>1, <1>2 DEF TypeInv

LEMMA IdIsJobId ==
  ASSUME TypeInv, NEW r \in Requests, pc[r] # "idle"
  PROVE  job[r] \in Job /\ IdOf(r) \in JobId
BY DEF TypeInv, Shape, IdOf, Job, JobId

LEMMA TypeInvDispatch ==
  ASSUME TypeInv, NEW r \in Requests, Dispatch(r)
  PROVE  TypeInv'
<1> USE DEF TypeInv, Untracked
<1>1. ASSUME NEW a \in Agents, NEW g \in Games, DispatchBegin(r, a, g)
      PROVE  TypeInv'
  <2>1. [agent |-> a, game |-> g, stamp |-> r, temp |-> FALSE] \in Job
    BY DEF Job
  <2>2. Typed'
    BY <1>1, <2>1 DEF DispatchBegin, Typed, registryVars, tempVars, linkVars, deviceVars
  <2>3. Shape'
    BY <1>1, <2>1 DEF DispatchBegin, Shape, Typed, registryVars, tempVars, linkVars, deviceVars
  <2> QED BY <2>2, <2>3
<1>2. CASE ExtractOnServer(r)
  <2>1. [job[r] EXCEPT !.temp = TRUE] \in Job
    BY <1>2 DEF ExtractOnServer, Shape, Job
  <2>2. Typed'
    BY <1>2, <2>1 DEF ExtractOnServer, Typed, registryVars, linkVars, deviceVars
  <2>3. Shape'
    BY <1>2, <2>1 DEF ExtractOnServer, Shape, Typed, registryVars, linkVars, deviceVars
  <2> QED BY <2>2, <2>3
<1>3. CASE SendLibraryFiles(r)
  <2>1. Typed'
    BY <1>3 DEF SendLibraryFiles, Typed, registryVars, tempVars, linkVars, deviceVars
  <2>2. Shape'
    BY <1>3 DEF SendLibraryFiles, Shape, Typed, registryVars, tempVars, linkVars, deviceVars
  <2> QED BY <2>1, <2>2
<1>4. CASE CheckDuplicate(r)
  <2>1. PICK ms \in Stamps(r) : job' = [job EXCEPT ![r].stamp = ms]
    BY <1>4 DEF CheckDuplicate
  <2>2. ms \in Requests
    BY DEF Stamps
  <2>3. [job[r] EXCEPT !.stamp = ms] \in Job
    BY <1>4, <2>2 DEF CheckDuplicate, Shape, Job
  <2>4. Typed'
    BY <1>4, <2>1, <2>3 DEF CheckDuplicate, Typed, registryVars, tempVars, linkVars, deviceVars
  <2>5. /\ pc[r] = "extracted" /\ pc'[r] # "dispatched"
        /\ \A q \in Requests : q # r => pc'[q] = pc[q] /\ job'[q] = job[q]
        /\ job'[r] \in Job
        /\ UNCHANGED <<queue, exec, net, cleaning>>
    BY <1>4, <2>1, <2>3 DEF CheckDuplicate, Typed, tempVars, deviceVars
  <2>6. \A q \in Requests : pc[q] = "dispatched" => pc'[q] = "dispatched"
    BY <2>5
  <2>7. Shape'
    <3>1. \A q \in Requests : pc'[q] # "idle" => job'[q] \in Job
      BY <2>5 DEF Shape
    <3>2. ASSUME NEW b \in Agents, NEW i \in 1..Len(queue[b]) PROVE pc'[queue[b][i]] = "dispatched"
      <4>1. queue[b] \in Seq(Requests)
        BY DEF Typed
      <4>2. queue[b][i] \in Requests
        BY <4>1, ElementOfSeq
      <4> QED BY <2>6, <4>2 DEF Shape
    <3>3. \A m \in net : pc'[m.req] = "dispatched"
      BY <2>6 DEF Shape, Typed, Report
    <3>4. /\ \A q \in cleaning : pc'[q] = "dispatched"
          /\ \A q \in Requests : exec[q] # "none" => pc'[q] = "dispatched"
      BY <2>6 DEF Shape, Typed
    <3> QED BY <2>5, <3>1, <3>2, <3>3, <3>4 DEF Shape
  <2> QED BY <2>4, <2>7
<1>5. CASE TrackJob(r)
  <2>1. job[r].agent \in Agents /\ IdOf(r) \in JobId
    BY <1>5, IdIsJobId DEF TrackJob, Job
  <2>2. Typed'
    BY <1>5, <2>1 DEF TrackJob, Typed, tempVars, linkVars, deviceVars
  <2>3. Shape'
    BY <1>5 DEF TrackJob, Shape, Typed, tempVars, linkVars, deviceVars
  <2> QED BY <2>2, <2>3
<1>6. CASE Enqueue(r)
  <2> DEFINE a == job[r].agent
  <2>1. a \in Agents /\ queue[a] \in Seq(Requests)
    BY <1>6, IdIsJobId DEF Enqueue, Job, Typed
  <2>2. /\ Append(queue[a], r) \in Seq(Requests)
        /\ Len(Append(queue[a], r)) = Len(queue[a]) + 1
        /\ \A i \in 1..Len(Append(queue[a], r)) :
             Append(queue[a], r)[i] = IF i <= Len(queue[a]) THEN queue[a][i] ELSE r
    BY <2>1, AppendProperties
  <2>3. Typed'
    <3>1. /\ pc' = [pc EXCEPT ![r] = "dispatched"] \/ pc' = [pc EXCEPT ![r] = "full"]
          /\ queue' = queue \/ queue' = [queue EXCEPT ![a] = Append(queue[a], r)]
      BY <1>6 DEF Enqueue
    <3>2. /\ pc' \in [Requests -> Untracked \union {"tracked", "dispatched", "full", "aborted"}]
          /\ queue' \in [Agents -> Seq(Requests)]
      BY <2>1, <2>2, <3>1 DEF Typed
    <3> QED BY <1>6, <3>2 DEF Enqueue, Typed, registryVars, tempVars, linkVars, deviceVars
  <2>4. Shape'
    <3>1. CASE Len(queue[a]) < QueueCap
      <4>1. /\ queue' = [queue EXCEPT ![a] = Append(@, r)]
            /\ pc' = [pc EXCEPT ![r] = "dispatched"]
            /\ UNCHANGED <<job, exec, net, cleaning>>
        BY <1>6, <3>1, <2>1, LenProperties, BoundsAssumption
        DEF Enqueue, tempVars, deviceVars
      <4>2. \A b \in Agents : \A i \in 1..Len(queue'[b]) : pc'[queue'[b][i]] = "dispatched"
        <5> SUFFICES ASSUME NEW b \in Agents, NEW i \in 1..Len(queue'[b])
                     PROVE  pc'[queue'[b][i]] = "dispatched"
          OBVIOUS
        <5>1. CASE b = a
          <6>1. /\ queue'[b] = Append(queue[a], r)
                /\ Len(queue[a]) \in Nat
            BY <5>1, <4>1, <2>1, LenProperties DEF Typed
          <6>2. CASE i = Len(queue[a]) + 1
            BY <6>1, <6>2, <4>1, <2>2 DEF Typed
          <6>3. CASE i \in 1..Len(queue[a])
            <7>1. /\ queue'[b][i] = queue[a][i]
                  /\ queue[a][i] \in Requests
                  /\ pc[queue[a][i]] = "dispatched"
              BY <6>1, <6>3, <2>1, <2>2, ElementOfSeq DEF Shape
            <7> QED BY <7>1, <4>1 DEF Typed
          <6> QED BY <6>1, <6>2, <6>3, <2>2
        <5>2. CASE b # a
          BY <5>2, <4>1, <2>1, ElementOfSeq DEF Shape, Typed
        <5> QED BY <5>1, <5>2
      <4>3. \A q \in Requests : /\ pc[q] = "dispatched" => pc'[q] = "dispatched"
                                /\ pc'[q] # "idle" => pc[q] # "idle"
        BY <1>6, <4>1 DEF Typed, Enqueue
      <4>4. \A m \in net : m.req \in Requests
        BY DEF Typed, Report
      <4>5. cleaning \subseteq Requests
        BY DEF Typed
      <4>6. /\ \A q \in Requests : pc'[q] # "idle" => job'[q] \in Job
            /\ \A q \in Requests : exec'[q] # "none" => pc'[q] = "dispatched"
        BY <4>1, <4>3 DEF Shape
      <4>7. /\ \A m \in net' : pc'[m.req] = "dispatched"
            /\ \A q \in cleaning' : pc'[q] = "dispatched"
        BY <4>1, <4>3, <4>4, <4>5 DEF Shape
      <4> QED BY <4>2, <4>6, <4>7 DEF Shape
    <3>2. CASE ~(Len(queue[a]) < QueueCap)
      <4>1. UNCHANGED <<queue, job, exec, net, cleaning>> /\ pc' = [pc EXCEPT ![r] = "full"]
        BY <1>6, <3>2 DEF Enqueue, tempVars, deviceVars
      <4> QED BY <1>6, <4>1 DEF Enqueue, Shape, Typed
    <3> QED BY <3>1, <3>2
  <2> QED BY <2>3, <2>4
<1> QED BY <1>1, <1>2, <1>3, <1>4, <1>5, <1>6 DEF Dispatch

LEMMA TypeInvConnection ==
  ASSUME TypeInv, NEW a \in Agents, Connection(a)
  PROVE  TypeInv'
<1> USE DEF TypeInv
<1>1. CASE RegisterAgent(a)
  <2>1. Typed'
    BY <1>1 DEF RegisterAgent, Snapshot, Typed, Disk, handlerVars, tempVars, deviceVars
  <2>2. Shape'
    BY <1>1 DEF RegisterAgent, Shape, handlerVars, tempVars, deviceVars
  <2> QED BY <2>1, <2>2
<1>2. CASE OpenStream(a)
  <2>1. Typed'
    BY <1>2 DEF OpenStream, Typed, handlerVars, registryVars, tempVars, deviceVars
  <2>2. Shape'
    BY <1>2 DEF OpenStream, Shape, handlerVars, tempVars, deviceVars
  <2> QED BY <2>1, <2>2
<1>3. CASE Disconnect(a)
  <2>1. Typed'
    BY <1>3 DEF Disconnect, Typed, handlerVars, registryVars, tempVars, deviceVars
  <2>2. Shape'
    BY <1>3 DEF Disconnect, Shape, handlerVars, tempVars, deviceVars
  <2> QED BY <2>1, <2>2
<1>4. CASE ReapStream(a)
  <2>1. saved' \in Disk
    BY <1>4 DEF ReapStream, Snapshot, Typed, Disk
  <2>2. Typed'
    BY <1>4, <2>1 DEF ReapStream, Typed, handlerVars, tempVars, deviceVars
  <2>3. Shape'
    BY <1>4 DEF ReapStream, Shape, handlerVars, tempVars, deviceVars
  <2> QED BY <2>2, <2>3
<1>5. CASE DeleteAgent(a)
  <2>1. recent' \in [Agents -> Seq(Entry)] /\ registered' \subseteq Agents
    BY <1>5 DEF DeleteAgent, Typed
  <2>2. saved' \in Disk
    BY <1>5, <2>1 DEF DeleteAgent, Snapshot, Disk
  <2>3. Typed'
    BY <1>5, <2>1, <2>2 DEF DeleteAgent, Typed, handlerVars, tempVars, deviceVars
  <2>4. Shape'
    BY <1>5 DEF DeleteAgent, Shape, handlerVars, tempVars, deviceVars
  <2> QED BY <2>3, <2>4
<1>6. CASE AgentCrash(a)
  <2>1. Typed'
    BY <1>6 DEF AgentCrash, Typed, handlerVars, registryVars, tempVars
  <2>2. Shape'
    BY <1>6 DEF AgentCrash, Shape, Typed, handlerVars, tempVars
  <2> QED BY <2>1, <2>2
<1>7. ASSUME Deliver(a) \/ DeliverToDeadStream(a)
      PROVE  TypeInv'
  <2> DEFINE r == Head(queue[a])
  <2>1. /\ queue[a] # <<>>
        /\ queue' = [queue EXCEPT ![a] = Tail(@)]
        /\ exec' = [exec EXCEPT ![r] = "received"] \/ exec' = [exec EXCEPT ![r] = "lost"]
        /\ UNCHANGED <<handlerVars, registryVars, tempVars, linkVars, left, net>>
    BY <1>7 DEF Deliver, DeliverToDeadStream
  <2>2. queue[a] \in Seq(Requests) /\ r = queue[a][1] /\ Len(queue[a]) \in Nat \ {0}
    BY <2>1, EmptySeq DEF Typed
  <2>3. /\ r \in Requests
        /\ Tail(queue[a]) \in Seq(Requests)
        /\ Len(Tail(queue[a])) = Len(queue[a]) - 1
        /\ \A i \in 1..Len(Tail(queue[a])) : Tail(queue[a])[i] = queue[a][i + 1]
    BY <2>1, <2>2, HeadTailProperties
  <2>4. Typed'
    BY <2>1, <2>3 DEF Typed, handlerVars, registryVars, tempVars, linkVars
  <2>5. pc[r] = "dispatched"
    BY <2>2 DEF Shape
  <2>6. \A b \in Agents : \A i \in 1..Len(queue'[b]) : pc[queue'[b][i]] = "dispatched"
    <3> SUFFICES ASSUME NEW b \in Agents, NEW i \in 1..Len(queue'[b])
                 PROVE  pc[queue'[b][i]] = "dispatched"
      OBVIOUS
    <3>1. CASE b = a
      <4>1. i \in 1..Len(Tail(queue[a])) /\ queue'[b] = Tail(queue[a])
        BY <3>1, <2>1 DEF Typed
      <4>2. i + 1 \in 1..Len(queue[a])
        BY <4>1, <2>2, <2>3
      <4> QED BY <4>1, <4>2, <2>3 DEF Shape
    <3>2. CASE b # a
      BY <3>2, <2>1 DEF Shape, Typed
    <3> QED BY <3>1, <3>2
  <2>7. \A q \in Requests : exec'[q] # "none" => pc[q] = "dispatched"
    BY <2>1, <2>3, <2>5 DEF Shape, Typed
  <2>8. Shape'
    BY <2>1, <2>6, <2>7 DEF Shape, handlerVars, tempVars
  <2> QED BY <2>4, <2>8
<1> QED BY <1>1, <1>2, <1>3, <1>4, <1>5, <1>6, <1>7 DEF Connection

LEMMA TypeInvDevice ==
  ASSUME TypeInv, NEW r \in Requests, Device(r)
  PROVE  TypeInv'
<1> USE DEF TypeInv
<1>1. /\ exec[r] \in {"received", "downloading", "installing"}
      /\ \/ exec' = exec
         \/ \E e \in {"downloading", "installing", "done", "failed"} :
              exec' = [exec EXCEPT ![r] = e]
      /\ \E st \in {"progress", "done", "failed"} :
           net' = net \union {[req |-> r, status |-> st]}
      /\ left' = left \/ (left[r] > 0 /\ left' = [left EXCEPT ![r] = @ - 1])
      /\ UNCHANGED <<handlerVars, registryVars, tempVars, linkVars, queue>>
  BY DEF Device, StartDownload, DownloadFile, DeviceError, Install, Finish, Post, JobFails
<1>2. left' \in [Requests -> 0..Files]
  <2>1. left \in [Requests -> 0..Files] /\ left[r] \in 0..Files /\ Files \in Nat
    BY BoundsAssumption DEF Typed
  <2>2. CASE left[r] > 0 /\ left' = [left EXCEPT ![r] = left[r] - 1]
    <3>1. left[r] - 1 \in 0..Files
      BY <2>1, <2>2
    <3> QED BY <2>1, <2>2, <3>1
  <2> QED BY <1>1, <2>1, <2>2
<1>3. exec' \in [Requests -> {"none", "received", "downloading", "installing",
                            "done", "failed", "lost"}]
  BY <1>1 DEF Typed
<1>4. net' \subseteq Report
  BY <1>1 DEF Typed, Report
<1>5. Typed'
  BY <1>1, <1>2, <1>3, <1>4 DEF Typed, handlerVars, registryVars, tempVars, linkVars
<1>6. pc[r] = "dispatched"
  BY <1>1 DEF Shape
<1>7. Shape'
  BY <1>1, <1>6 DEF Shape, Typed, handlerVars, tempVars
<1> QED BY <1>5, <1>7

LEMMA TypeInvReport ==
  ASSUME TypeInv, NEW m \in net, AgentProgress(m) \/ LoseReport(m)
  PROVE  TypeInv'
<1> USE DEF TypeInv
<1> DEFINE r  == m.req
           id == IdOf(r)
<1>1. /\ r \in Requests /\ m.status \in {"progress", "done", "failed"}
      /\ pc[r] = "dispatched"
  BY DEF Typed, Report, Shape
<1>2. job[r] \in Job /\ id \in JobId
  BY <1>1, IdIsJobId
<1>3. CASE LoseReport(m)
  <2>1. Typed'
    BY <1>3 DEF LoseReport, Typed, handlerVars, registryVars, tempVars, linkVars
  <2>2. Shape'
    BY <1>3 DEF LoseReport, Shape, handlerVars, tempVars
  <2> QED BY <2>1, <2>2
<1>4. CASE AgentProgress(m)
  <2>1. /\ net' = net \ {m}
        /\ cleaning' = cleaning \/ cleaning' = cleaning \union {r}
        /\ UNCHANGED <<handlerVars, registered, saved, tempDir, disk, linkVars, exec, left, queue>>
    BY <1>4 DEF AgentProgress
  <2>2. /\ jobIndex' \in [JobId -> Agents \union {NoAgent}]
        /\ current' \in [Agents -> JobId \union {NoJob}]
        /\ recent' \in [Agents -> Seq(Entry)]
    <3>1. CASE UNCHANGED <<jobIndex, current, recent>>
      BY <3>1 DEF Typed
    <3>2. CASE UpdateJobProgress(id, m.status) /\ jobIndex[id] \in registered
      <4> DEFINE b == jobIndex[id]
      <4>1. b \in Agents
        BY <3>2 DEF Typed
      <4>2. CASE m.status = "progress"
        BY <3>2, <4>1, <4>2, <1>2 DEF UpdateJobProgress, Typed
      <4>3. CASE m.status # "progress"
        <5>1. [id |-> id, status |-> m.status] \in Entry
          BY <1>1, <1>2, <4>3 DEF Entry
        <5>2. recent[b] \in Seq(Entry)
          BY <4>1 DEF Typed
        <5>3. Prepend([id |-> id, status |-> m.status], recent[b]) \in Seq(Entry)
          BY <5>1, <5>2, PrependProperties
        <5> QED BY <3>2, <4>1, <4>3, <5>3 DEF UpdateJobProgress, Typed
      <4> QED BY <4>2, <4>3
    <3> QED BY <1>4, <3>1, <3>2 DEF AgentProgress, UpdateJobProgress
  <2>3. Typed'
    BY <2>1, <2>2, <1>1 DEF Typed, handlerVars, linkVars
  <2>4. Shape'
    BY <2>1, <1>1 DEF Shape, Typed, handlerVars
  <2> QED BY <2>3, <2>4
<1> QED BY <1>3, <1>4

LEMMA TypeInvServer ==
  ASSUME TypeInv, ServerRestart \/ \E r \in Requests : CleanUp(r)
  PROVE  TypeInv'
<1> USE DEF TypeInv
<1>1. CASE ServerRestart
  <2>1. /\ saved.agents \subseteq Agents
        /\ saved.recent \in [Agents -> Seq(Entry)]
    BY DEF Typed, Disk
  <2>2. Typed'
    BY <1>1, <2>1, EmptySeq DEF ServerRestart, Typed
  <2>3. Shape'
    BY <1>1, EmptySeq DEF ServerRestart, Shape, Typed, Handling
  <2> QED BY <2>2, <2>3
<1>2. ASSUME NEW r \in Requests, CleanUp(r)
      PROVE  TypeInv'
  <2>1. Typed'
    BY <1>2 DEF CleanUp, Typed, handlerVars, registryVars, linkVars, deviceVars
  <2>2. Shape'
    BY <1>2 DEF CleanUp, Shape, handlerVars, deviceVars
  <2> QED BY <2>1, <2>2
<1> QED BY <1>1, <1>2

LEMMA TypeInvStep == TypeInv /\ [Next]_vars => TypeInv'
<1> SUFFICES ASSUME TypeInv, [Next]_vars PROVE TypeInv' OBVIOUS
<1>1. CASE Next
  <2>1. ASSUME NEW r \in Requests, CleanUp(r)
        PROVE  TypeInv'
    BY <2>1, TypeInvServer
  <2> QED BY <1>1, <2>1, TypeInvDispatch, TypeInvConnection, TypeInvDevice, TypeInvReport,
             TypeInvServer DEF Next
<1>2. CASE UNCHANGED vars
  BY <1>2 DEF vars, TypeInv, Typed, Shape, handlerVars, registryVars, tempVars, linkVars,
              deviceVars
<1> QED BY <1>1, <1>2

LEMMA CappedInit == Init => Capped
<1> SUFFICES ASSUME Init, NEW a \in Agents
             PROVE  Len(queue[a]) = 0 /\ Len(recent[a]) = 0 /\ Len(saved.recent[a]) = 0
  BY BoundsAssumption DEF Capped
<1> QED BY DEF Init

\* A channel grows by a job it had room for; a history grows by Prepend; agents.json takes
\* the histories of memory, and a restart those of agents.json.
LEMMA CappedStep == TypeInv /\ Capped /\ [Next]_vars => Capped'
<1> SUFFICES ASSUME TypeInv, Capped, [Next]_vars PROVE Capped' OBVIOUS
<1>1. ASSUME NEW r \in Requests, Enqueue(r)
      PROVE  Capped'
  <2> DEFINE a == job[r].agent
  <2>1. a \in Agents /\ queue[a] \in Seq(Requests) /\ Len(queue[a]) \in Nat
    BY <1>1, IdIsJobId, LenProperties DEF Enqueue, Job, TypeInv, Typed
  <2>2. Len(Append(queue[a], r)) = Len(queue[a]) + 1
    BY <2>1, AppendProperties
  <2>3. UNCHANGED <<recent, saved>>
    BY <1>1 DEF Enqueue, registryVars
  <2>4. CASE UNCHANGED queue
    BY <2>3, <2>4 DEF Capped
  <2>5. CASE Len(queue[a]) < QueueCap /\ queue' = [queue EXCEPT ![a] = Append(@, r)]
    <3>1. Len(queue[a]) + 1 <= QueueCap
      BY <2>1, <2>5, BoundsAssumption
    <3>2. \A b \in Agents : Len(queue'[b]) <= QueueCap
      BY <2>1, <2>2, <2>5, <3>1 DEF Capped, TypeInv, Typed
    <3> QED BY <2>3, <3>2 DEF Capped
  <2> QED BY <1>1, <2>4, <2>5 DEF Enqueue
<1>2. ASSUME NEW r \in Requests, \/ Device(r) \/ CleanUp(r) \/ ExtractOnServer(r)
             \/ SendLibraryFiles(r) \/ CheckDuplicate(r) \/ TrackJob(r)
             \/ \E a \in Agents, g \in Games : DispatchBegin(r, a, g)
      PROVE  Capped'
  <2>1. UNCHANGED <<queue, recent, saved>>
    BY <1>2 DEF Device, StartDownload, DownloadFile, DeviceError, Install, Finish, CleanUp,
                ExtractOnServer, SendLibraryFiles, CheckDuplicate, TrackJob, DispatchBegin,
                registryVars
  <2> QED BY <2>1 DEF Capped
<1>3. ASSUME NEW a \in Agents, Connection(a)
      PROVE  Capped'
  <2>1. CASE Deliver(a) \/ DeliverToDeadStream(a)
    <3>1. /\ queue[a] # <<>> /\ queue' = [queue EXCEPT ![a] = Tail(@)]
          /\ UNCHANGED <<recent, saved>>
      BY <2>1 DEF Deliver, DeliverToDeadStream, registryVars
    <3>2. /\ queue[a] \in Seq(Requests) /\ Len(queue[a]) \in Nat
          /\ Len(Tail(queue[a])) = Len(queue[a]) - 1
      BY <3>1, HeadTailProperties, LenProperties DEF TypeInv, Typed
    <3>3. \A b \in Agents : Len(queue'[b]) <= QueueCap
      BY <3>1, <3>2, BoundsAssumption DEF Capped, TypeInv, Typed
    <3> QED BY <3>1, <3>3 DEF Capped
  <2>2. CASE DeleteAgent(a)
    <3>1. /\ queue' = queue /\ recent' = [recent EXCEPT ![a] = <<>>]
          /\ saved'.recent = recent'
      BY <2>2 DEF DeleteAgent, Snapshot
    <3>2. \A b \in Agents : Len(recent'[b]) <= MaxRecent
      <4>1. Len(<<>>) <= MaxRecent
        BY BoundsAssumption
      <4> QED BY <3>1, <4>1 DEF Capped, TypeInv, Typed
    <3> QED BY <3>1, <3>2 DEF Capped
  <2>3. CASE RegisterAgent(a) \/ ReapStream(a)
    <3>1. UNCHANGED <<queue, recent>> /\ (saved' = saved \/ saved'.recent = recent)
      BY <2>3 DEF RegisterAgent, ReapStream, Snapshot
    <3> QED BY <3>1 DEF Capped
  <2>4. CASE OpenStream(a) \/ Disconnect(a) \/ AgentCrash(a)
    BY <2>4 DEF OpenStream, Disconnect, AgentCrash, registryVars, Capped
  <2> QED BY <1>3, <2>1, <2>2, <2>3, <2>4 DEF Connection
<1>4. ASSUME NEW m \in net, AgentProgress(m)
      PROVE  Capped'
  <2> DEFINE id == IdOf(m.req)
             a  == jobIndex[id]
  <2>1. m.req \in Requests /\ pc[m.req] = "dispatched" /\ m.status \in {"progress", "done", "failed"}
    BY DEF TypeInv, Typed, Report, Shape
  <2>2. id \in JobId
    BY <2>1, IdIsJobId
  <2>3. UNCHANGED <<queue, saved>>
    BY <1>4 DEF AgentProgress
  <2>4. CASE UNCHANGED recent
    BY <2>3, <2>4 DEF Capped
  <2>5. CASE /\ a \in registered /\ m.status # "progress"
             /\ recent' = [recent EXCEPT ![a] = Prepend([id |-> id, status |-> m.status], @)]
    <3>1. /\ a \in Agents /\ recent[a] \in Seq(Entry)
          /\ [id |-> id, status |-> m.status] \in Entry
      BY <2>1, <2>2, <2>5 DEF TypeInv, Typed, Entry
    <3>2. Len(Prepend([id |-> id, status |-> m.status], recent[a])) <= MaxRecent
      BY <3>1, PrependProperties
    <3>3. \A b \in Agents : Len(recent'[b]) <= MaxRecent
      BY <2>5, <3>1, <3>2 DEF Capped, TypeInv, Typed
    <3> QED BY <2>3, <3>3 DEF Capped
  <2> QED BY <1>4, <2>4, <2>5 DEF AgentProgress, UpdateJobProgress
<1>5. ASSUME NEW m \in net, LoseReport(m)
      PROVE  Capped'
  BY <1>5 DEF LoseReport, registryVars, Capped
<1>6. CASE ServerRestart
  <2>1. recent' = saved.recent /\ saved' = saved /\ \A b \in Agents : Len(queue'[b]) = 0
    BY <1>6 DEF ServerRestart
  <2> QED BY <2>1, BoundsAssumption DEF Capped
<1>7. CASE UNCHANGED vars
  BY <1>7 DEF vars, registryVars, Capped
<1> QED BY <1>1, <1>2, <1>3, <1>4, <1>5, <1>6, <1>7 DEF Next, Dispatch

\* Every state the system reaches is well-typed, whatever faults the environment may
\* produce, and no channel and no history, in memory or in agents.json, outgrows its cap.
THEOREM TypeCorrect == Spec => []TypeOK
<1>1. TypeInv /\ Capped => TypeOK
  BY DEF TypeInv, TypeOK
<1> QED BY <1>1, TypeInvInit, TypeInvStep, CappedInit, CappedStep, PTL DEF Spec

-----------------------------------------------------------------------------
(* The job index.  As long as no two dispatches of a game share a          *)
(* millisecond, an id belongs to one request, and CurrentIsTracked follows *)
(* from knowing whose ids the index holds.                                 *)

IndexParts == OwnStamp /\ NotYetTracked /\ IndexIsOfJobs /\ CurrentIsTracked

LEMMA IndexInvInit == Init => IndexInv
<1> SUFFICES ASSUME Init PROVE IndexInv OBVIOUS
<1>1. TypeInv
  BY TypeInvInit
<1>2. OwnStamp /\ NotYetTracked
  BY DEF Init, OwnStamp, NotYetTracked, JobId
<1>3. IndexIsOfJobs /\ CurrentIsTracked
  BY DEF Init, IndexIsOfJobs, CurrentIsTracked, JobId
<1> QED BY <1>1, <1>2, <1>3 DEF IndexInv

LEMMA IndexUnchanged ==
  ASSUME IndexInv, UNCHANGED <<pc, job, jobIndex, current>>
  PROVE  IndexParts'
BY DEF IndexInv, IndexParts, OwnStamp, NotYetTracked, IndexIsOfJobs, CurrentIsTracked, IdOf

LEMMA IndexDispatch ==
  ASSUME "collide" \notin Env, IndexInv, NEW r \in Requests, Dispatch(r)
  PROVE  IndexParts'
<1> USE DEF IndexInv
<1>0. /\ pc \in [Requests -> Untracked \union {"tracked", "dispatched", "full", "aborted"}]
      /\ job \in [Requests -> Job \union {NoJob}]
      /\ jobIndex \in [JobId -> Agents \union {NoAgent}]
      /\ current \in [Agents -> JobId \union {NoJob}]
  BY DEF TypeInv, Typed
\* The steps before TrackJob only touch r's own handler and job.
<1>1. ASSUME pc[r] \in {"idle", "accepted", "extracted"},
             UNCHANGED <<jobIndex, current>>,
             job'[r] \in Job, job'[r].stamp = r,
             \A q \in Requests : q # r => job'[q] = job[q] /\ pc'[q] = pc[q]
      PROVE  IndexParts'
  <2>1. pc[r] \in Untracked
    BY <1>1 DEF Untracked
  <2>2. OwnStamp'
    BY <1>1 DEF OwnStamp
  <2>3. NotYetTracked'
    BY <1>1, <2>1 DEF NotYetTracked
  <2>4. IndexIsOfJobs'
    <3> SUFFICES ASSUME NEW id \in JobId, jobIndex[id] # NoAgent
                 PROVE  IdOf(id[2])' = id /\ jobIndex[id] = job'[id[2]].agent
      BY <1>1 DEF IndexIsOfJobs
    <3>1. id = <<id[1], id[2]>> /\ id[1] \in Games /\ id[2] \in Requests
      BY DEF JobId
    <3>2. id[2] # r
      BY <2>1, <3>1 DEF NotYetTracked
    <3> QED BY <1>1, <3>1, <3>2 DEF IndexIsOfJobs, IdOf
  <2>5. CurrentIsTracked'
    BY <1>1 DEF CurrentIsTracked
  <2> QED BY <2>2, <2>3, <2>4, <2>5 DEF IndexParts
<1>2. ASSUME NEW a \in Agents, NEW g \in Games, DispatchBegin(r, a, g)
      PROVE  IndexParts'
  <2>1. job'[r] = [agent |-> a, game |-> g, stamp |-> r, temp |-> FALSE]
    BY <1>0, <1>2 DEF DispatchBegin
  <2>2. job'[r] \in Job /\ job'[r].stamp = r
    BY <2>1 DEF Job
  <2>3. \A q \in Requests : q # r => job'[q] = job[q] /\ pc'[q] = pc[q]
    BY <1>0, <1>2 DEF DispatchBegin
  <2> QED BY <1>1, <1>2, <2>2, <2>3 DEF DispatchBegin, registryVars
<1>3. CASE ExtractOnServer(r)
  <2>1. job[r] \in Job /\ job[r].stamp = r
    BY <1>3 DEF ExtractOnServer, TypeInv, Shape, OwnStamp
  <2>2. job'[r] = [job[r] EXCEPT !.temp = TRUE]
    BY <1>0, <1>3 DEF ExtractOnServer
  <2>3. job'[r] \in Job /\ job'[r].stamp = r
    BY <2>1, <2>2 DEF Job
  <2>4. \A q \in Requests : q # r => job'[q] = job[q] /\ pc'[q] = pc[q]
    BY <1>0, <1>3 DEF ExtractOnServer
  <2> QED BY <1>1, <1>3, <2>3, <2>4 DEF ExtractOnServer, registryVars
<1>4. CASE SendLibraryFiles(r)
  <2>1. job'[r] \in Job /\ job'[r].stamp = r
    BY <1>4 DEF SendLibraryFiles, TypeInv, Shape, OwnStamp
  <2>2. \A q \in Requests : q # r => job'[q] = job[q] /\ pc'[q] = pc[q]
    BY <1>0, <1>4 DEF SendLibraryFiles
  <2> QED BY <1>1, <1>4, <2>1, <2>2 DEF SendLibraryFiles, registryVars
<1>5. CASE CheckDuplicate(r)
  <2>1. job' = [job EXCEPT ![r].stamp = r]
    BY <1>5 DEF CheckDuplicate, Stamps
  <2>2. job[r] \in Job
    BY <1>5 DEF CheckDuplicate, TypeInv, Shape
  <2>3. job'[r] = [job[r] EXCEPT !.stamp = r]
    BY <1>0, <2>1
  <2>4. job'[r] \in Job /\ job'[r].stamp = r
    BY <2>2, <2>3 DEF Job
  <2>5. \A q \in Requests : q # r => job'[q] = job[q] /\ pc'[q] = pc[q]
    BY <1>0, <1>5, <2>1 DEF CheckDuplicate
  <2> QED BY <1>1, <1>5, <2>4, <2>5 DEF CheckDuplicate, registryVars
<1>6. CASE TrackJob(r)
  <2> DEFINE a == job[r].agent
             g == job[r].game
  <2>1. /\ pc[r] = "checked"
        /\ job[r] \in Job /\ a \in Agents /\ g \in Games
        /\ IdOf(r) = <<g, r>> /\ IdOf(r) \in JobId
    BY <1>6 DEF TrackJob, TypeInv, Shape, OwnStamp, Job, IdOf, JobId
  <2>2. /\ jobIndex' = [jobIndex EXCEPT ![<<g, r>>] = a]
        /\ current' = current \/ current' = [current EXCEPT ![a] = <<g, r>>]
        /\ pc' = [pc EXCEPT ![r] = "tracked"]
        /\ job' = job
    BY <1>6, <2>1 DEF TrackJob
  <2>3. OwnStamp'
    BY <1>0, <2>1, <2>2 DEF OwnStamp
  <2>4. NotYetTracked'
    <3> SUFFICES ASSUME NEW q \in Requests, pc'[q] \in Untracked, NEW h \in Games
                 PROVE  jobIndex'[<<h, q>>] = NoAgent
      BY DEF NotYetTracked
    <3>1. q # r /\ pc'[q] = pc[q]
      BY <1>0, <2>2 DEF Untracked
    <3> QED BY <1>0, <2>2, <3>1 DEF NotYetTracked, JobId
  <2>5. IndexIsOfJobs'
    <3> SUFFICES ASSUME NEW id \in JobId, jobIndex'[id] # NoAgent
                 PROVE  IdOf(id[2]) = id /\ jobIndex'[id] = job[id[2]].agent
      BY <2>2 DEF IndexIsOfJobs, IdOf
    <3>1. CASE id = <<g, r>>
      BY <1>0, <2>1, <2>2, <3>1
    <3>2. CASE id # <<g, r>>
      BY <1>0, <2>2, <3>2 DEF IndexIsOfJobs
    <3> QED BY <3>1, <3>2
  <2>6. CurrentIsTracked'
    <3> SUFFICES ASSUME NEW b \in Agents, current'[b] # NoJob
                 PROVE  jobIndex'[current'[b]] = b
      BY DEF CurrentIsTracked
    <3>1. CASE b = a /\ current' # current
      BY <1>0, <2>1, <2>2, <3>1
    <3>2. CASE b # a \/ current' = current
      <4>1. /\ current'[b] = current[b]
            /\ current[b] \in JobId
            /\ jobIndex[current[b]] = b
        BY <1>0, <2>2, <3>2 DEF CurrentIsTracked
      <4>2. jobIndex[<<g, r>>] = NoAgent
        BY <2>1 DEF NotYetTracked, Untracked
      <4> QED BY <1>0, <2>2, <4>1, <4>2, NamesAssumption
    <3> QED BY <3>1, <3>2
  <2> QED BY <2>3, <2>4, <2>5, <2>6 DEF IndexParts
<1>7. CASE Enqueue(r)
  <2>1. /\ pc[r] = "tracked"
        /\ pc' = [pc EXCEPT ![r] = "dispatched"] \/ pc' = [pc EXCEPT ![r] = "full"]
        /\ UNCHANGED <<job, jobIndex, current>>
    BY <1>7 DEF Enqueue, registryVars
  <2>2. OwnStamp'
    BY <1>0, <2>1 DEF OwnStamp
  <2>3. NotYetTracked'
    BY <1>0, <2>1 DEF NotYetTracked, Untracked
  <2>4. IndexIsOfJobs' /\ CurrentIsTracked'
    BY <2>1 DEF IndexIsOfJobs, CurrentIsTracked, IdOf
  <2> QED BY <2>2, <2>3, <2>4 DEF IndexParts
<1> QED BY <1>2, <1>3, <1>4, <1>5, <1>6, <1>7 DEF Dispatch

LEMMA IndexConnection ==
  ASSUME IndexInv, NEW a \in Agents, Connection(a)
  PROVE  IndexParts'
<1>1. CASE DeleteAgent(a)
  <2>1. /\ current' = [current EXCEPT ![a] = NoJob]
        /\ UNCHANGED <<pc, job, jobIndex>>
    BY <1>1 DEF DeleteAgent, handlerVars
  <2>2. CurrentIsTracked'
    BY <2>1 DEF IndexInv, TypeInv, Typed, CurrentIsTracked
  <2>3. OwnStamp' /\ NotYetTracked' /\ IndexIsOfJobs'
    BY <2>1 DEF IndexInv, OwnStamp, NotYetTracked, IndexIsOfJobs, IdOf
  <2> QED BY <2>2, <2>3 DEF IndexParts
<1>2. CASE ~DeleteAgent(a)
  <2>1. UNCHANGED <<pc, job, jobIndex, current>>
    BY <1>2 DEF Connection, RegisterAgent, OpenStream, Disconnect, ReapStream, AgentCrash,
       Deliver, DeliverToDeadStream, handlerVars, registryVars
  <2> QED BY <2>1, IndexUnchanged
<1> QED BY <1>1, <1>2

LEMMA IndexReport ==
  ASSUME IndexInv, NEW m \in net, AgentProgress(m)
  PROVE  IndexParts'
<1> DEFINE r  == m.req
           id == IdOf(r)
           b  == jobIndex[id]
<1>1. /\ r \in Requests /\ pc[r] = "dispatched" /\ id \in JobId
  BY IdIsJobId DEF IndexInv, TypeInv, Typed, Report, Shape
<1>2. /\ jobIndex \in [JobId -> Agents \union {NoAgent}]
      /\ current \in [Agents -> JobId \union {NoJob}]
  BY DEF IndexInv, TypeInv, Typed
<1>3. UNCHANGED <<pc, job>>
  BY DEF AgentProgress, handlerVars
<1>4. CASE UNCHANGED <<jobIndex, current>>
  BY <1>3, <1>4, IndexUnchanged
<1>5. CASE b # NoAgent /\ current' = [current EXCEPT ![b] = id] /\ jobIndex' = jobIndex
  <2>1. CurrentIsTracked'
    BY <1>1, <1>2, <1>5 DEF IndexInv, CurrentIsTracked
  <2>2. OwnStamp' /\ NotYetTracked' /\ IndexIsOfJobs'
    BY <1>3, <1>5 DEF IndexInv, OwnStamp, NotYetTracked, IndexIsOfJobs, IdOf
  <2> QED BY <2>1, <2>2 DEF IndexParts
<1>6. CASE /\ b # NoAgent
           /\ current' = [current EXCEPT ![b] = NoJob]
           /\ jobIndex' = [jobIndex EXCEPT ![id] = NoAgent]
  <2>1. CurrentIsTracked'
    <3> SUFFICES ASSUME NEW c \in Agents, current'[c] # NoJob
                 PROVE  jobIndex'[current'[c]] = c
      BY DEF CurrentIsTracked
    <3>1. c # b /\ current'[c] = current[c]
      BY <1>1, <1>2, <1>6
    <3>2. current[c] \in JobId /\ jobIndex[current[c]] = c
      BY <1>2, <3>1 DEF IndexInv, CurrentIsTracked
    <3> QED BY <1>1, <1>2, <1>6, <3>1, <3>2
  <2>2. OwnStamp'
    BY <1>3 DEF IndexInv, OwnStamp
  <2>3. NotYetTracked'
    BY <1>1, <1>2, <1>3, <1>6 DEF IndexInv, NotYetTracked, JobId
  <2>4. IndexIsOfJobs'
    BY <1>1, <1>2, <1>3, <1>6 DEF IndexInv, IndexIsOfJobs, IdOf
  <2> QED BY <2>1, <2>2, <2>3, <2>4 DEF IndexParts
<1> QED BY <1>4, <1>5, <1>6 DEF AgentProgress, UpdateJobProgress

LEMMA IndexRestart ==
  ASSUME IndexInv, ServerRestart
  PROVE  IndexParts'
<1>1. /\ jobIndex' = [id \in JobId |-> NoAgent]
      /\ current' = [a \in Agents |-> NoJob]
      /\ job' = job
      /\ pc' = [r \in Requests |-> IF pc[r] \in Handling THEN "aborted" ELSE pc[r]]
  BY DEF ServerRestart
<1>2. OwnStamp'
  BY <1>1 DEF IndexInv, OwnStamp, Handling
<1>3. NotYetTracked' /\ IndexIsOfJobs' /\ CurrentIsTracked'
  BY <1>1 DEF NotYetTracked, IndexIsOfJobs, CurrentIsTracked, JobId
<1> QED BY <1>2, <1>3 DEF IndexParts

LEMMA IndexInvStep ==
  ASSUME "collide" \notin Env
  PROVE  IndexInv /\ [Next]_vars => IndexInv'
<1> SUFFICES ASSUME IndexInv, [Next]_vars PROVE IndexInv' OBVIOUS
<1>1. TypeInv'
  BY TypeInvStep DEF IndexInv
<1>2. IndexParts'
  <2>1. CASE UNCHANGED vars
    BY <2>1, IndexUnchanged DEF vars, handlerVars, registryVars
  <2>2. CASE Next
    <3>1. ASSUME NEW r \in Requests, Device(r) \/ CleanUp(r)
          PROVE  IndexParts'
      <4>1. UNCHANGED <<pc, job, jobIndex, current>>
        BY <3>1 DEF Device, StartDownload, DownloadFile, DeviceError, Install, Finish, CleanUp,
           handlerVars, registryVars
      <4> QED BY <4>1, IndexUnchanged
    <3>2. ASSUME NEW m \in net, LoseReport(m)
          PROVE  IndexParts'
      BY <3>2, IndexUnchanged DEF LoseReport, handlerVars, registryVars
    <3> QED BY <2>2, <3>1, <3>2, IndexDispatch, IndexConnection, IndexReport, IndexRestart
        DEF Next
  <2> QED BY <2>1, <2>2
<1> QED BY <1>1, <1>2 DEF IndexInv, IndexParts

\* If no two dispatches of one game read the same millisecond, the job a device
\* shows as current is always one the registry tracks for that device, through
\* late and lost reports, crashes, restarts and deletions.
THEOREM CurrentAlwaysTracked ==
  ASSUME "collide" \notin Env
  PROVE  Spec => []CurrentIsTracked
<1>1. IndexInv => CurrentIsTracked
  BY DEF IndexInv
<1> QED BY <1>1, IndexInvInit, IndexInvStep, PTL DEF Spec

-----------------------------------------------------------------------------
(* The history.  What it says of a job is what the last report said, which *)
(* is what executeJob came to; that does not change any more, since a job  *)
(* is delivered once.                                                      *)

HistoryParts ==
  /\ NothingBuilt /\ ReportsAreTrue /\ QueuedOnce /\ Truthful(recent) /\ Truthful(saved.recent)
  /\ EndedIsUntracked /\ TrackedIsIndexed /\ QueuedIsTracked

LEMMA HistoryInvInit == Init => HistoryInv
<1> SUFFICES ASSUME Init PROVE HistoryInv OBVIOUS
<1>1. IndexInv
  BY IndexInvInit
<1>2. /\ recent = [a \in Agents |-> <<>>] /\ saved.recent = [a \in Agents |-> <<>>]
      /\ queue = [a \in Agents |-> <<>>]
  BY DEF Init
<1>3. Truthful(recent) /\ Truthful(saved.recent) /\ EndedIsUntracked
  BY <1>2 DEF Truthful, EndedIsUntracked
<1>4. QueuedOnce /\ QueuedIsTracked
  BY <1>2 DEF QueuedOnce, QueuedIsTracked
<1>5. NothingBuilt /\ ReportsAreTrue /\ TrackedIsIndexed
  BY DEF Init, NothingBuilt, ReportsAreTrue, TrackedIsIndexed
<1> QED BY <1>1, <1>3, <1>4, <1>5 DEF HistoryInv

\* What is known of dispatched jobs, of the entries of a history and of a channel.
LEMMA DispatchedJob ==
  ASSUME IndexInv, NEW r \in Requests, pc[r] = "dispatched"
  PROVE  job[r] \in Job /\ IdOf(r) = <<job[r].game, r>> /\ IdOf(r) \in JobId
BY IdIsJobId DEF IndexInv, TypeInv, Shape, OwnStamp, IdOf

LEMMA QueuedJob ==
  ASSUME IndexInv, NEW a \in Agents, NEW i \in 1..Len(queue[a])
  PROVE  queue[a][i] \in Requests /\ pc[queue[a][i]] = "dispatched"
<1>1. queue[a] \in Seq(Requests)
  BY DEF IndexInv, TypeInv, Typed
<1> QED BY <1>1, ElementOfSeq DEF IndexInv, TypeInv, Shape

LEMMA HistoryTypes ==
  ASSUME IndexInv
  PROVE  recent \in [Agents -> Seq(Entry)] /\ saved.recent \in [Agents -> Seq(Entry)]
BY DEF IndexInv, TypeInv, Typed, Disk

LEMMA RecordedJob ==
  ASSUME NEW h \in [Agents -> Seq(Entry)], NEW a \in Agents, NEW i \in 1..Len(h[a])
  PROVE  /\ h[a][i] \in Entry /\ h[a][i].id \in JobId /\ h[a][i].id[2] \in Requests
         /\ h[a][i].status \in {"done", "failed"}
<1>1. h[a] \in Seq(Entry)
  OBVIOUS
<1>2. h[a][i] \in Entry
  BY <1>1, ElementOfSeq
<1> QED BY <1>2 DEF Entry, JobId

\* A step that leaves dispatched jobs alone, and how they ended.
KeepsEnded ==
  \A r \in Requests : pc[r] = "dispatched" =>
    /\ pc'[r] = "dispatched" /\ job'[r] = job[r]
    /\ exec[r] \in {"done", "failed"} => exec'[r] = exec[r]

\* Such a step keeps every entry of a history true.
LEMMA EntryStep ==
  ASSUME NEW a \in Agents, NEW e \in Entry, TrueOf(a, e), KeepsEnded
  PROVE  /\ pc'[e.id[2]] = "dispatched" /\ exec'[e.id[2]] = e.status
         /\ job'[e.id[2]].agent = a /\ <<job'[e.id[2]].game, job'[e.id[2]].stamp>> = e.id
<1>1. e.id[2] \in Requests /\ e.status \in {"done", "failed"}
  BY DEF Entry, JobId
<1> QED BY <1>1 DEF TrueOf, IdOf, KeepsEnded

\* The same of every entry of a history, in the words of the next state.
LEMMA EntriesAfter ==
  ASSUME NEW h \in [Agents -> Seq(Entry)], Truthful(h), KeepsEnded,
         NEW a \in Agents, NEW i \in 1..Len(h[a])
  PROVE  /\ pc'[h[a][i].id[2]] = "dispatched" /\ exec'[h[a][i].id[2]] = h[a][i].status
         /\ job'[h[a][i].id[2]].agent = a
         /\ <<job'[h[a][i].id[2]].game, job'[h[a][i].id[2]].stamp>> = h[a][i].id
         /\ \A k \in 1..Len(h[a]) : h[a][i].id = h[a][k].id => i = k
<1> DEFINE e == h[a][i]
<1>1. e \in Entry
  BY RecordedJob
<1>2. TrueOf(a, e) /\ \A k \in 1..Len(h[a]) : h[a][i].id = h[a][k].id => i = k
  BY DEF Truthful
<1>3. /\ pc'[e.id[2]] = "dispatched" /\ exec'[e.id[2]] = e.status
      /\ job'[e.id[2]].agent = a /\ <<job'[e.id[2]].game, job'[e.id[2]].stamp>> = e.id
  <2> HIDE DEF e
  <2> QED BY <1>1, <1>2, EntryStep
<1> QED BY <1>2, <1>3

\* The entries of history h are true in the next state.
StaysTrue(h) ==
  \A a \in Agents : \A i \in 1..Len(h[a]) :
    /\ /\ pc'[h[a][i].id[2]] = "dispatched"
       /\ <<job'[h[a][i].id[2]].game, job'[h[a][i].id[2]].stamp>> = h[a][i].id
       /\ job'[h[a][i].id[2]].agent = a
       /\ exec'[h[a][i].id[2]] = h[a][i].status
    /\ \A k \in 1..Len(h[a]) : h[a][i].id = h[a][k].id => i = k

LEMMA TruthfulNext ==
  /\ StaysTrue(recent') => Truthful(recent)'
  /\ StaysTrue(saved'.recent) => Truthful(saved.recent)'
<1>1. ASSUME StaysTrue(recent') PROVE Truthful(recent)'
  <2> SUFFICES ASSUME NEW a \in Agents, NEW i \in 1..Len(recent'[a])
               PROVE  /\ TrueOf(a, recent[a][i])'
                      /\ \A k \in 1..Len(recent'[a]) :
                           recent'[a][i].id = recent'[a][k].id => i = k
    BY DEF Truthful
  <2> QED BY SMTT(40), <1>1 DEF StaysTrue, TrueOf, IdOf
<1>2. ASSUME StaysTrue(saved'.recent) PROVE Truthful(saved.recent)'
  <2> SUFFICES ASSUME NEW a \in Agents, NEW i \in 1..Len(saved'.recent[a])
               PROVE  /\ TrueOf(a, saved.recent[a][i])'
                      /\ \A k \in 1..Len(saved'.recent[a]) :
                           saved'.recent[a][i].id = saved'.recent[a][k].id => i = k
    BY DEF Truthful
  <2> QED BY <1>2 DEF StaysTrue, TrueOf, IdOf
<1> QED BY <1>1, <1>2

LEMMA TruthfulAfter ==
  ASSUME IndexInv, Truthful(recent), Truthful(saved.recent), KeepsEnded
  PROVE  /\ recent' = recent => Truthful(recent)'
         /\ saved'.recent = saved.recent => Truthful(saved.recent)'
         /\ saved'.recent = recent => Truthful(saved.recent)'
<1>1. recent \in [Agents -> Seq(Entry)] /\ saved.recent \in [Agents -> Seq(Entry)]
  BY HistoryTypes
<1>2. ASSUME NEW h \in [Agents -> Seq(Entry)], Truthful(h) PROVE StaysTrue(h)
  BY <1>2, EntriesAfter DEF StaysTrue
<1>3. StaysTrue(recent) /\ StaysTrue(saved.recent)
  BY <1>1, <1>2
<1>4. ASSUME NEW h, NEW g, h = g, StaysTrue(g) PROVE StaysTrue(h)
  BY <1>4
<1> QED BY Zenon, <1>3, <1>4, TruthfulNext

\* Steps that at most write agents.json.
LEMMA HistoryQuiet ==
  ASSUME HistoryInv, UNCHANGED <<pc, job, jobIndex, queue, exec, net, recent>>,
         saved'.recent = saved.recent \/ saved'.recent = recent
  PROVE  HistoryParts'
<1>1. KeepsEnded
  BY DEF KeepsEnded
<1>2. Truthful(recent)' /\ Truthful(saved.recent)'
  BY <1>1, TruthfulAfter DEF HistoryInv
<1>3. NothingBuilt' /\ ReportsAreTrue' /\ EndedIsUntracked'
  BY DEF HistoryInv, NothingBuilt, ReportsAreTrue, EndedIsUntracked
<1>4. QueuedOnce' /\ QueuedIsTracked' /\ TrackedIsIndexed'
  BY DEF HistoryInv, QueuedOnce, QueuedIsTracked, TrackedIsIndexed, IdOf
<1> QED BY <1>2, <1>3, <1>4 DEF HistoryParts

LEMMA HistoryDispatch ==
  ASSUME HistoryInv, "collide" \notin Env, NEW r \in Requests, Dispatch(r)
  PROVE  HistoryParts'
<1>0. /\ pc \in [Requests -> Untracked \union {"tracked", "dispatched", "full", "aborted"}]
      /\ job \in [Requests -> Job \union {NoJob}]
      /\ jobIndex \in [JobId -> Agents \union {NoAgent}]
      /\ queue \in [Agents -> Seq(Requests)]
      /\ IndexInv /\ TypeInv
  BY DEF HistoryInv, IndexInv, TypeInv, Typed
<1>1. /\ pc[r] # "dispatched"
      /\ UNCHANGED <<exec, net, recent, saved>>
      /\ \A q \in Requests : q # r => pc'[q] = pc[q] /\ job'[q] = job[q]
  BY <1>0 DEF Dispatch, DispatchBegin, ExtractOnServer, SendLibraryFiles, CheckDuplicate, TrackJob,
     Enqueue, registryVars, deviceVars
<1>2. KeepsEnded
  BY <1>1 DEF KeepsEnded
<1>3. Truthful(recent)' /\ Truthful(saved.recent)'
  BY <1>0, <1>1, <1>2, TruthfulAfter DEF HistoryInv
<1>4. NothingBuilt' /\ ReportsAreTrue'
  <2>1. pc'[r] # "idle"
    BY <1>0 DEF Dispatch, DispatchBegin, ExtractOnServer, SendLibraryFiles, CheckDuplicate, TrackJob,
       Enqueue
  <2> QED BY <1>1, <2>1 DEF HistoryInv, NothingBuilt, ReportsAreTrue
<1>5. \A a \in Agents : \A i \in 1..Len(queue[a]) :
        /\ queue[a][i] \in Requests /\ queue[a][i] # r
        /\ job'[queue[a][i]] = job[queue[a][i]]
  <2> SUFFICES ASSUME NEW a \in Agents, NEW i \in 1..Len(queue[a])
               PROVE  queue[a][i] \in Requests /\ queue[a][i] # r
    BY <1>1
  <2> QED BY <1>0, <1>1, QueuedJob
<1>6. \A a \in Agents : \A i \in 1..Len(recent[a]) :
        recent[a][i].id \in JobId /\ recent[a][i].id[2] # r
  <2> SUFFICES ASSUME NEW a \in Agents, NEW i \in 1..Len(recent[a])
               PROVE  recent[a][i].id \in JobId /\ recent[a][i].id[2] # r
    OBVIOUS
  <2>1. recent[a][i].id \in JobId
    BY <1>0, HistoryTypes, RecordedJob
  <2> QED BY <1>1, <2>1 DEF HistoryInv, Truthful, TrueOf
<1>7. CASE UNCHANGED <<jobIndex, queue>> /\ pc'[r] # "tracked"
  <2>1. EndedIsUntracked'
    BY <1>1, <1>7 DEF HistoryInv, EndedIsUntracked
  <2>2. QueuedOnce' /\ QueuedIsTracked'
    BY <1>1, <1>5, <1>7 DEF HistoryInv, QueuedOnce, QueuedIsTracked, IdOf
  <2>3. TrackedIsIndexed'
    BY <1>1, <1>7 DEF HistoryInv, TrackedIsIndexed, IdOf
  <2> QED BY <1>3, <1>4, <2>1, <2>2, <2>3 DEF HistoryParts
<1>8. CASE TrackJob(r)
  <2> DEFINE a == job[r].agent
             g == job[r].game
  <2>1. /\ pc[r] = "checked" /\ job[r] \in Job /\ a \in Agents /\ g \in Games
        /\ IdOf(r) = <<g, r>> /\ <<g, r>> \in JobId
    BY <1>0, <1>8 DEF TrackJob, TypeInv, Shape, IndexInv, OwnStamp, Job, IdOf, JobId
  <2>2. /\ jobIndex' = [jobIndex EXCEPT ![<<g, r>>] = a]
        /\ pc' = [pc EXCEPT ![r] = "tracked"]
        /\ UNCHANGED <<job, queue>>
    BY <1>8, <2>1 DEF TrackJob
  <2>3. EndedIsUntracked'
    <3> SUFFICES ASSUME NEW b \in Agents, NEW i \in 1..Len(recent[b])
                 PROVE  jobIndex'[recent[b][i].id] = NoAgent
      BY <1>1 DEF EndedIsUntracked
    <3>1. /\ recent[b][i].id \in JobId /\ recent[b][i].id # <<g, r>>
          /\ jobIndex[recent[b][i].id] = NoAgent
      BY <1>6 DEF HistoryInv, EndedIsUntracked
    <3> QED BY <1>0, <2>2, <3>1
  <2>4. QueuedOnce'
    BY <1>1, <2>2 DEF HistoryInv, QueuedOnce
  <2>5. QueuedIsTracked'
    <3> SUFFICES ASSUME NEW b \in Agents, NEW i \in 1..Len(queue[b])
                 PROVE  jobIndex'[IdOf(queue[b][i])] = b
      BY <2>2 DEF QueuedIsTracked, IdOf
    <3>1. IdOf(queue[b][i]) = <<job[queue[b][i]].game, queue[b][i]>> /\ queue[b][i] # r
      BY <1>0, <1>5, QueuedJob, DispatchedJob
    <3>2. IdOf(queue[b][i]) \in JobId /\ jobIndex[IdOf(queue[b][i])] = b
      BY <1>0, QueuedJob, DispatchedJob DEF HistoryInv, QueuedIsTracked
    <3> QED BY <1>0, <2>2, <3>1, <3>2
  <2>6. TrackedIsIndexed'
    <3> SUFFICES ASSUME NEW q \in Requests, pc'[q] = "tracked"
                 PROVE  jobIndex'[IdOf(q)] = job[q].agent
      BY <2>2 DEF TrackedIsIndexed, IdOf
    <3>1. CASE q = r
      BY <1>0, <2>1, <2>2, <3>1
    <3>2. CASE q # r
      <4>1. pc[q] = "tracked" /\ IdOf(q) = <<job[q].game, q>> /\ IdOf(q) \in JobId
        BY <1>0, <1>1, <3>2, IdIsJobId DEF IndexInv, OwnStamp, IdOf
      <4> QED BY <1>0, <2>2, <3>2, <4>1 DEF HistoryInv, TrackedIsIndexed
    <3> QED BY <3>1, <3>2
  <2> QED BY <1>3, <1>4, <2>3, <2>4, <2>5, <2>6 DEF HistoryParts
<1>9. CASE Enqueue(r) /\ queue' # queue
  <2> DEFINE a == job[r].agent
  <2>1. /\ pc[r] = "tracked" /\ job[r] \in Job /\ a \in Agents /\ IdOf(r) \in JobId
        /\ queue' = [queue EXCEPT ![a] = Append(@, r)]
        /\ pc' = [pc EXCEPT ![r] = "dispatched"]
        /\ UNCHANGED <<job, jobIndex>>
    BY <1>0, <1>9, IdIsJobId DEF Enqueue, Job, registryVars
  <2>2. /\ Len(queue'[a]) = Len(queue[a]) + 1 /\ Len(queue[a]) \in Nat
        /\ \A i \in 1..Len(queue'[a]) :
             queue'[a][i] = IF i <= Len(queue[a]) THEN queue[a][i] ELSE r
        /\ \A b \in Agents : b # a => queue'[b] = queue[b]
    <3>1. queue[a] \in Seq(Requests) /\ queue'[a] = Append(queue[a], r)
      BY <1>0, <2>1
    <3> QED BY <1>0, <2>1, <3>1, AppendProperties, LenProperties
  <2>3. exec[r] = "none"
    BY <1>0, <2>1 DEF TypeInv, Shape
  <2>4. jobIndex[IdOf(r)] = a
    BY <2>1 DEF HistoryInv, TrackedIsIndexed
  <2>5. ASSUME NEW b \in Agents, NEW i \in 1..Len(queue'[b])
        PROVE  /\ job[queue'[b][i]].agent = b /\ exec[queue'[b][i]] = "none"
               /\ jobIndex[IdOf(queue'[b][i])] = b
               /\ \A k \in 1..Len(queue'[b]) : queue'[b][k] = queue'[b][i] => k = i
    <3>1. CASE b # a
      <4>1. queue'[b] = queue[b] /\ i \in 1..Len(queue[b])
        BY <2>2, <3>1
      <4>2. /\ job[queue[b][i]].agent = b /\ exec[queue[b][i]] = "none"
            /\ jobIndex[IdOf(queue[b][i])] = b
            /\ \A k \in 1..Len(queue[b]) : queue[b][k] = queue[b][i] => k = i
        BY <4>1 DEF HistoryInv, QueuedOnce, QueuedIsTracked
      <4> QED BY <4>1, <4>2
    <3>2. CASE b = a /\ i = Len(queue[a]) + 1
      <4>1. queue'[b][i] = r /\ job[r].agent = b
        BY <2>2, <3>2
      <4>2. ASSUME NEW k \in 1..Len(queue'[b]), queue'[b][k] = r PROVE k = i
        <5>1. ASSUME k \in 1..Len(queue[a]) PROVE FALSE
          <6>1. queue[a][k] = r
            BY <2>2, <3>2, <4>2, <5>1
          <6> QED BY <1>5, <2>1, <5>1, <6>1
        <5> QED BY <2>2, <3>2, <5>1
      <4> QED BY <2>3, <2>4, <3>2, <4>1, <4>2
    <3>3. CASE b = a /\ i \in 1..Len(queue[a])
      <4>1. queue'[b][i] = queue[a][i] /\ queue[a][i] # r
        BY <1>5, <2>2, <3>3
      <4>2. /\ job[queue[a][i]].agent = a /\ exec[queue[a][i]] = "none"
            /\ \A k \in 1..Len(queue[a]) : queue[a][k] = queue[a][i] => k = i
            /\ jobIndex[IdOf(queue[a][i])] = a
        BY <3>3 DEF HistoryInv, QueuedOnce, QueuedIsTracked
      <4> QED BY <2>2, <3>3, <4>1, <4>2
    <3> QED BY <2>2, <3>1, <3>2, <3>3
  <2>6. QueuedOnce' /\ QueuedIsTracked'
    <3> HIDE DEF a
    <3>1. QueuedOnce'
      BY <1>1, <2>1, <2>5 DEF QueuedOnce
    <3>2. QueuedIsTracked'
      <4> SUFFICES ASSUME NEW b \in Agents, NEW i \in 1..Len(queue'[b])
                   PROVE  jobIndex'[<<job'[queue'[b][i]].game, job'[queue'[b][i]].stamp>>] = b
        BY DEF QueuedIsTracked, IdOf
      <4>1. jobIndex[IdOf(queue'[b][i])] = b /\ job' = job /\ jobIndex' = jobIndex
        BY <2>1, <2>5
      <4> QED BY <4>1 DEF IdOf
    <3> QED BY <3>1, <3>2
  <2>7. EndedIsUntracked'
    BY <1>1, <2>1 DEF HistoryInv, EndedIsUntracked
  <2>8. TrackedIsIndexed'
    BY <1>0, <1>1, <2>1 DEF HistoryInv, TrackedIsIndexed, IdOf
  <2> QED BY <1>3, <1>4, <2>6, <2>7, <2>8 DEF HistoryParts
<1>10. CASE ~TrackJob(r) /\ ~(Enqueue(r) /\ queue' # queue)
  <2>1. UNCHANGED <<jobIndex, queue>> /\ pc'[r] # "tracked"
    BY <1>0, <1>10 DEF Dispatch, DispatchBegin, ExtractOnServer, SendLibraryFiles, CheckDuplicate,
       Enqueue, registryVars
  <2> QED BY <1>7, <2>1
<1> QED BY <1>8, <1>9, <1>10

LEMMA HistoryConnection ==
  ASSUME HistoryInv, NEW a \in Agents, Connection(a)
  PROVE  HistoryParts'
<1>0. /\ IndexInv /\ recent \in [Agents -> Seq(Entry)]
      /\ exec \in [Requests -> {"none", "received", "downloading", "installing", "done",
                                "failed", "lost"}]
      /\ queue \in [Agents -> Seq(Requests)]
  BY HistoryTypes DEF HistoryInv, IndexInv, TypeInv, Typed
<1>1. UNCHANGED <<pc, job, jobIndex, net>>
  BY DEF Connection, RegisterAgent, OpenStream, Disconnect, ReapStream, DeleteAgent, AgentCrash,
     Deliver, DeliverToDeadStream, handlerVars, registryVars, deviceVars
<1>a. NothingBuilt'
  BY <1>1 DEF HistoryInv, NothingBuilt
<1>2. CASE RegisterAgent(a) \/ OpenStream(a) \/ Disconnect(a) \/ ReapStream(a)
  <2>1. UNCHANGED <<queue, exec, recent>> /\ (saved'.recent = saved.recent \/ saved'.recent = recent)
    BY <1>2 DEF RegisterAgent, OpenStream, Disconnect, ReapStream, Snapshot, registryVars, deviceVars
  <2> QED BY <1>1, <2>1, HistoryQuiet
<1>3. CASE DeleteAgent(a)
  <2>1. /\ recent' = [recent EXCEPT ![a] = <<>>] /\ saved'.recent = recent'
        /\ UNCHANGED <<queue, exec>>
    BY <1>3 DEF DeleteAgent, Snapshot, deviceVars
  <2>2. ASSUME NEW b \in Agents PROVE recent'[b] = recent[b] \/ Len(recent'[b]) = 0
    <3>1. CASE b = a
      <4>1. recent'[b] = <<>>
        BY ONLY SMTT(40), <1>0, <2>1, <3>1
      <4> QED BY <4>1
    <3>2. CASE b # a
      BY ONLY SMTT(40), <1>0, <2>1, <3>2
    <3> QED BY <3>1, <3>2
  <2>3. Truthful(recent)'
    <3>1. KeepsEnded /\ Truthful(recent)
      BY <1>1, <2>1 DEF KeepsEnded, HistoryInv
    <3>2. ASSUME NEW b \in Agents, NEW i \in 1..Len(recent'[b])
          PROVE  /\ pc'[recent'[b][i].id[2]] = "dispatched"
                 /\ <<job'[recent'[b][i].id[2]].game, job'[recent'[b][i].id[2]].stamp>>
                      = recent'[b][i].id
                 /\ job'[recent'[b][i].id[2]].agent = b
                 /\ exec'[recent'[b][i].id[2]] = recent'[b][i].status
                 /\ \A k \in 1..Len(recent'[b]) : recent'[b][i].id = recent'[b][k].id => i = k
      <4>1. recent'[b] = recent[b] /\ i \in 1..Len(recent[b])
        BY <2>2
      <4>2. recent \in [Agents -> Seq(Entry)]
        BY <1>0
      <4>3. /\ pc'[recent[b][i].id[2]] = "dispatched"
            /\ <<job'[recent[b][i].id[2]].game, job'[recent[b][i].id[2]].stamp>>
                 = recent[b][i].id
            /\ job'[recent[b][i].id[2]].agent = b
            /\ exec'[recent[b][i].id[2]] = recent[b][i].status
            /\ \A k \in 1..Len(recent[b]) : recent[b][i].id = recent[b][k].id => i = k
        BY <3>1, <4>1, <4>2, EntriesAfter
      <4> QED BY <4>1, <4>3
    <3> QED BY <3>2, TruthfulNext DEF StaysTrue
  <2>4. Truthful(saved.recent)'
    BY <2>1, <2>3, TruthfulNext
  <2>5. EndedIsUntracked'
    <3> SUFFICES ASSUME NEW b \in Agents, NEW i \in 1..Len(recent'[b])
                 PROVE  jobIndex'[recent'[b][i].id] = NoAgent
      BY DEF EndedIsUntracked
    <3>1. recent'[b] = recent[b] /\ i \in 1..Len(recent[b])
      BY <2>2
    <3> QED BY <1>1, <3>1 DEF HistoryInv, EndedIsUntracked
  <2>6. ReportsAreTrue' /\ QueuedOnce' /\ QueuedIsTracked' /\ TrackedIsIndexed'
    BY <1>1, <2>1 DEF HistoryInv, ReportsAreTrue, QueuedOnce, QueuedIsTracked, TrackedIsIndexed, IdOf
  <2> QED BY <1>a, <2>3, <2>4, <2>5, <2>6 DEF HistoryParts
<1>4. CASE AgentCrash(a)
  <2>1. /\ UNCHANGED <<queue, recent, saved>>
        /\ \A r \in Requests : exec[r] \in {"none", "done", "failed"} => exec'[r] = exec[r]
    BY <1>4 DEF AgentCrash, registryVars
  <2>2. KeepsEnded
    BY <1>1, <2>1 DEF KeepsEnded
  <2>3. Truthful(recent)' /\ Truthful(saved.recent)'
    BY <1>0, <2>1, <2>2, TruthfulAfter DEF HistoryInv
  <2>4. ReportsAreTrue'
    BY <1>0, <1>1, <2>1 DEF HistoryInv, ReportsAreTrue, IndexInv, TypeInv, Typed, Report
  <2>5. QueuedOnce'
    <3>1. \A b \in Agents : \A i \in 1..Len(queue[b]) : exec'[queue[b][i]] = "none"
      BY <1>0, <2>1, QueuedJob DEF HistoryInv, QueuedOnce
    <3> QED BY <1>1, <2>1, <3>1 DEF HistoryInv, QueuedOnce
  <2>6. QueuedIsTracked' /\ TrackedIsIndexed' /\ EndedIsUntracked'
    BY <1>1, <2>1 DEF HistoryInv, QueuedIsTracked, TrackedIsIndexed, EndedIsUntracked, IdOf
  <2> QED BY <1>a, <2>3, <2>4, <2>5, <2>6 DEF HistoryParts
<1>5. CASE Deliver(a) \/ DeliverToDeadStream(a)
  <2> DEFINE r == Head(queue[a])
  <2>1. /\ queue[a] # <<>> /\ queue' = [queue EXCEPT ![a] = Tail(@)]
        /\ exec' = [exec EXCEPT ![r] = "received"] \/ exec' = [exec EXCEPT ![r] = "lost"]
        /\ UNCHANGED <<recent, saved>>
    BY <1>5 DEF Deliver, DeliverToDeadStream, registryVars
  <2>2. queue[a] \in Seq(Requests) /\ r = queue[a][1] /\ Len(queue[a]) \in Nat \ {0}
    BY <1>0, <2>1, EmptySeq
  <2>3. /\ Len(Tail(queue[a])) = Len(queue[a]) - 1
        /\ \A i \in 1..Len(Tail(queue[a])) : Tail(queue[a])[i] = queue[a][i + 1]
    BY <2>1, <2>2, HeadTailProperties
  <2>4. /\ r \in Requests /\ pc[r] = "dispatched" /\ exec[r] = "none" /\ job[r].agent = a
        /\ \A k \in 1..Len(queue[a]) : queue[a][k] = r => k = 1
    <3>1. 1 \in 1..Len(queue[a])
      BY <2>2
    <3>2. queue[a][1] \in Requests /\ pc[queue[a][1]] = "dispatched"
      BY <1>0, <3>1, QueuedJob
    <3>3. /\ exec[queue[a][1]] = "none" /\ job[queue[a][1]].agent = a
          /\ \A k \in 1..Len(queue[a]) : queue[a][k] = queue[a][1] => k = 1
      BY <3>1 DEF HistoryInv, QueuedOnce
    <3> HIDE DEF r
    <3> QED BY <2>2, <3>2, <3>3
  <2>5. \A q \in Requests : q # r => exec'[q] = exec[q]
    BY <1>0, <2>1
  <2>6. KeepsEnded
    BY <1>1, <2>4, <2>5 DEF KeepsEnded
  <2>7. Truthful(recent)' /\ Truthful(saved.recent)'
    BY <1>0, <2>1, <2>6, TruthfulAfter DEF HistoryInv
  <2>8. ReportsAreTrue'
    <3> SUFFICES ASSUME NEW m \in net, m.status # "progress" PROVE exec'[m.req] = m.status
      BY <1>1 DEF ReportsAreTrue
    <3>1. m.req \in Requests /\ exec[m.req] = m.status /\ m.status # "none"
      BY DEF HistoryInv, ReportsAreTrue, IndexInv, TypeInv, Typed, Report
    <3> QED BY <2>4, <2>5, <3>1
  <2>9. ASSUME NEW b \in Agents, NEW i \in 1..Len(queue'[b])
        PROVE  /\ queue'[b][i] \in Requests /\ queue'[b][i] # r
               /\ job[queue'[b][i]].agent = b /\ exec[queue'[b][i]] = "none"
               /\ jobIndex[IdOf(queue'[b][i])] = b
               /\ \A k \in 1..Len(queue'[b]) : queue'[b][k] = queue'[b][i] => k = i
    <3>1. CASE b # a
      <4>1. queue'[b] = queue[b] /\ i \in 1..Len(queue[b])
        BY <1>0, <2>1, <3>1
      <4>2. /\ queue[b][i] \in Requests /\ job[queue[b][i]].agent = b
        BY <1>0, <4>1, QueuedJob DEF HistoryInv, QueuedOnce
      <4> QED BY <2>4, <3>1, <4>1, <4>2 DEF HistoryInv, QueuedOnce, QueuedIsTracked
    <3>2. CASE b = a
      <4>1. queue'[b] = Tail(queue[a]) /\ i + 1 \in 1..Len(queue[a]) /\ i + 1 # 1
        BY <1>0, <2>1, <2>2, <2>3, <3>2
      <4>2. /\ queue'[b][i] = queue[a][i + 1] /\ queue[a][i + 1] \in Requests
            /\ job[queue[a][i + 1]].agent = a /\ exec[queue[a][i + 1]] = "none"
            /\ jobIndex[IdOf(queue[a][i + 1])] = a
            /\ \A k \in 1..Len(queue[a]) : queue[a][k] = queue[a][i + 1] => k = i + 1
        <5>1. queue[a][i + 1] \in Requests
          BY <1>0, <4>1, QueuedJob
        <5>2. /\ job[queue[a][i + 1]].agent = a /\ exec[queue[a][i + 1]] = "none"
              /\ jobIndex[IdOf(queue[a][i + 1])] = a
              /\ \A k \in 1..Len(queue[a]) : queue[a][k] = queue[a][i + 1] => k = i + 1
          BY <4>1 DEF HistoryInv, QueuedOnce, QueuedIsTracked
        <5>3. queue'[b][i] = queue[a][i + 1]
          BY <2>3, <3>2, <4>1
        <5> QED BY <5>1, <5>2, <5>3
      <4>3. ASSUME NEW k \in 1..Len(queue'[b]), queue'[b][k] = queue'[b][i] PROVE k = i
        <5>1. k + 1 \in 1..Len(queue[a]) /\ queue[a][k + 1] = queue[a][i + 1]
          BY <2>2, <2>3, <4>1, <4>2, <4>3
        <5>2. k + 1 = i + 1
          BY <4>2, <5>1
        <5> QED BY <5>2, <2>2, <2>3, <4>1
      <4> QED BY <2>4, <3>2, <4>1, <4>2, <4>3
    <3> QED BY <3>1, <3>2
  <2>10. QueuedOnce' /\ QueuedIsTracked'
    <3> HIDE DEF r
    <3>1. QueuedOnce'
      <4> SUFFICES ASSUME NEW b \in Agents, NEW i \in 1..Len(queue'[b])
                   PROVE  /\ job[queue'[b][i]].agent = b /\ exec'[queue'[b][i]] = "none"
                          /\ \A k \in 1..Len(queue'[b]) : queue'[b][k] = queue'[b][i] => k = i
        BY <1>1 DEF QueuedOnce
      <4>1. queue'[b][i] \in Requests /\ queue'[b][i] # r /\ exec[queue'[b][i]] = "none"
        BY <2>9
      <4>2. exec'[queue'[b][i]] = "none"
        BY <2>5, <4>1
      <4> QED BY <2>9, <4>2
    <3>2. QueuedIsTracked'
      BY <1>1, <2>9 DEF QueuedIsTracked, IdOf
    <3> QED BY <3>1, <3>2
  <2>11. TrackedIsIndexed' /\ EndedIsUntracked'
    BY <1>1, <2>1 DEF HistoryInv, TrackedIsIndexed, EndedIsUntracked, IdOf
  <2> QED BY <1>a, <2>7, <2>8, <2>10, <2>11 DEF HistoryParts
<1> QED BY <1>2, <1>3, <1>4, <1>5 DEF Connection

LEMMA HistoryDevice ==
  ASSUME HistoryInv, NEW r \in Requests, Device(r)
  PROVE  HistoryParts'
<1>0. /\ IndexInv /\ TypeInv /\ r \in Requests
      /\ exec \in [Requests -> {"none", "received", "downloading", "installing", "done",
                                "failed", "lost"}]
  BY DEF HistoryInv, IndexInv, TypeInv, Typed
<1>1. /\ exec[r] \in {"received", "downloading", "installing"}
      /\ \E st \in {"progress", "done", "failed"} :
           /\ net' = net \union {[req |-> r, status |-> st]}
           /\ st = "progress" \/ exec' = [exec EXCEPT ![r] = st]
      /\ \E e \in {"received", "downloading", "installing", "done", "failed"} :
           exec' = [exec EXCEPT ![r] = e]
      /\ UNCHANGED <<pc, job, jobIndex, recent, saved, queue>>
  BY <1>0 DEF Device, StartDownload, DownloadFile, DeviceError, Install, Finish, Post, JobFails,
     handlerVars, registryVars
<1>2. \A q \in Requests : exec[q] \in {"none", "done", "failed"} => exec'[q] = exec[q]
  BY <1>0, <1>1
<1>3. KeepsEnded
  BY <1>1, <1>2 DEF KeepsEnded
<1>4. Truthful(recent)' /\ Truthful(saved.recent)'
  BY <1>0, <1>1, <1>3, TruthfulAfter DEF HistoryInv
<1>5. ReportsAreTrue'
  <2> SUFFICES ASSUME NEW m \in net', m.status # "progress" PROVE exec'[m.req] = m.status
    BY DEF ReportsAreTrue
  <2>1. CASE m \in net
    <3>1. m.req \in Requests /\ m.status \in {"done", "failed"} /\ exec[m.req] = m.status
      BY <1>0, <2>1 DEF HistoryInv, ReportsAreTrue, TypeInv, Typed, Report
    <3> QED BY <1>2, <3>1
  <2>2. CASE m \notin net
    BY <1>0, <1>1, <2>2
  <2> QED BY <2>1, <2>2
<1>6. QueuedOnce'
  <2>1. \A b \in Agents : \A i \in 1..Len(queue[b]) : exec'[queue[b][i]] = "none"
    BY <1>0, <1>2, QueuedJob DEF HistoryInv, QueuedOnce
  <2> QED BY <1>1, <2>1 DEF HistoryInv, QueuedOnce
<1>7. QueuedIsTracked' /\ TrackedIsIndexed' /\ EndedIsUntracked' /\ NothingBuilt'
  BY <1>1 DEF HistoryInv, QueuedIsTracked, TrackedIsIndexed, EndedIsUntracked, NothingBuilt, IdOf
<1> QED BY <1>4, <1>5, <1>6, <1>7 DEF HistoryParts

LEMMA HistoryReport ==
  ASSUME HistoryInv, NEW m \in net, AgentProgress(m) \/ LoseReport(m)
  PROVE  HistoryParts'
<1> DEFINE r  == m.req
           id == IdOf(r)
           b  == jobIndex[id]
<1>0. /\ IndexInv /\ TypeInv
      /\ jobIndex \in [JobId -> Agents \union {NoAgent}]
      /\ recent \in [Agents -> Seq(Entry)]
  BY HistoryTypes DEF HistoryInv, IndexInv, TypeInv, Typed
<1>1. /\ r \in Requests /\ m.status \in {"progress", "done", "failed"} /\ pc[r] = "dispatched"
      /\ m.status # "progress" => exec[r] = m.status
  BY <1>0 DEF TypeInv, Typed, Report, Shape, HistoryInv, ReportsAreTrue
<1>2. job[r] \in Job /\ id = <<job[r].game, r>> /\ id \in JobId
  BY <1>0, <1>1, DispatchedJob
<1>3. /\ net' \subseteq net
      /\ UNCHANGED <<pc, job, exec, saved, queue>>
  BY DEF AgentProgress, LoseReport, handlerVars, registryVars
<1>4. KeepsEnded
  BY <1>3 DEF KeepsEnded
<1>5. ReportsAreTrue' /\ QueuedOnce' /\ NothingBuilt'
  BY <1>3 DEF HistoryInv, ReportsAreTrue, QueuedOnce, NothingBuilt
<1>6. Truthful(saved.recent)' /\ (recent' = recent => Truthful(recent)')
  BY <1>0, <1>3, <1>4, TruthfulAfter DEF HistoryInv
<1>7. CASE UNCHANGED <<jobIndex, recent>>
  <2>1. QueuedIsTracked' /\ TrackedIsIndexed' /\ EndedIsUntracked'
    BY <1>3, <1>7 DEF HistoryInv, QueuedIsTracked, TrackedIsIndexed, EndedIsUntracked, IdOf
  <2> QED BY <1>5, <1>6, <1>7, <2>1 DEF HistoryParts
<1>8. CASE /\ b # NoAgent /\ b \in registered /\ m.status # "progress"
           /\ recent' = [recent EXCEPT ![b] = Prepend([id |-> id, status |-> m.status], @)]
           /\ jobIndex' = [jobIndex EXCEPT ![id] = NoAgent]
  <2> DEFINE e == [id |-> id, status |-> m.status]
  <2>1. b \in Agents /\ job[r].agent = b
    BY <1>0, <1>2, <1>8 DEF IndexInv, IndexIsOfJobs
  <2>2. e \in Entry /\ recent[b] \in Seq(Entry)
    BY <1>0, <1>1, <1>2, <1>8, <2>1 DEF Entry
  <2>3. /\ recent'[b] = Prepend(e, recent[b])
        /\ Len(recent[b]) \in Nat
        /\ Len(recent'[b]) \in 1..(Len(recent[b]) + 1)
        /\ recent'[b][1] = e
        /\ \A i \in 2..Len(recent'[b]) : recent'[b][i] = recent[b][i - 1]
        /\ \A c \in Agents : c # b => recent'[c] = recent[c]
    <3>1. recent'[b] = Prepend(e, recent[b]) /\ \A c \in Agents : c # b => recent'[c] = recent[c]
      BY <1>0, <1>8, <2>1
    <3> HIDE DEF e, b
    <3>2. Len(recent[b]) \in Nat
      BY <2>2, LenProperties
    <3> QED BY <2>2, <3>1, <3>2, PrependProperties
  \* An entry that was there is of a job that is no longer tracked, hence not of r.
  <2>4. ASSUME NEW c \in Agents, NEW i \in 1..Len(recent[c])
        PROVE  /\ TrueOf(c, recent[c][i]) /\ recent[c][i].id # id
               /\ recent[c][i].id \in JobId
               /\ jobIndex[recent[c][i].id] = NoAgent
               /\ \A k \in 1..Len(recent[c]) : recent[c][i].id = recent[c][k].id => i = k
    <3>1. jobIndex[id] # NoAgent
      BY <1>8
    <3> HIDE DEF id
    <3>2. recent[c][i].id \in JobId
      BY <1>0, RecordedJob
    <3>3. jobIndex[recent[c][i].id] = NoAgent
      BY DEF HistoryInv, EndedIsUntracked
    <3>4. /\ TrueOf(c, recent[c][i])
          /\ \A k \in 1..Len(recent[c]) : recent[c][i].id = recent[c][k].id => i = k
      BY DEF HistoryInv, Truthful
    <3> QED BY <3>1, <3>2, <3>3, <3>4
  <2>5. TrueOf(b, e)
    BY <1>1, <1>2, <1>8, <2>1 DEF TrueOf
  <2>6. ASSUME NEW c \in Agents, NEW i \in 1..Len(recent'[c])
        PROVE  /\ TrueOf(c, recent'[c][i])
               /\ jobIndex'[recent'[c][i].id] = NoAgent
               /\ \A k \in 1..Len(recent'[c]) : recent'[c][i].id = recent'[c][k].id => i = k
    <3>1. e.id = id /\ jobIndex' = [jobIndex EXCEPT ![id] = NoAgent]
      BY <1>8
    <3> HIDE DEF e, b, id, r
    <3>2. ASSUME NEW x \in JobId, jobIndex[x] = NoAgent PROVE jobIndex'[x] = NoAgent
      BY <1>0, <3>1, <3>2
    <3>3. CASE c # b
      <4>1. recent'[c] = recent[c]
        BY <2>3, <3>3
      <4> QED BY <2>4, <3>2, <4>1
    <3>4. CASE c = b /\ i = 1
      <4>1. ASSUME NEW k \in 1..Len(recent'[b]), k # 1 PROVE recent'[b][k].id # id
        <5>1. k - 1 \in 1..Len(recent[b]) /\ recent'[b][k] = recent[b][k - 1]
          BY <2>3, <4>1
        <5> QED BY <2>1, <2>4, <5>1
      <4>2. recent'[c][i] = e /\ jobIndex'[id] = NoAgent
        BY <1>0, <1>2, <2>3, <3>1, <3>4
      <4> QED BY <2>5, <3>1, <3>4, <4>1, <4>2
    <3>5. CASE c = b /\ i # 1
      <4>1. i - 1 \in 1..Len(recent[b]) /\ recent'[b][i] = recent[b][i - 1]
        BY <2>3, <3>5
      <4>2. ASSUME NEW k \in 1..Len(recent'[b]), recent'[b][i].id = recent'[b][k].id PROVE i = k
        <5>1. recent'[b][i].id # id
          BY <2>1, <2>4, <4>1
        <5>2. k # 1
          BY <2>3, <3>1, <4>2, <5>1
        <5>3. k - 1 \in 1..Len(recent[b]) /\ recent'[b][k] = recent[b][k - 1]
          BY <2>3, <5>2
        <5>4. i - 1 = k - 1
          BY <2>1, <2>4, <4>1, <4>2, <5>3
        <5> QED BY <2>3, <3>5, <5>4
      <4>3. TrueOf(b, recent'[b][i]) /\ jobIndex'[recent'[b][i].id] = NoAgent
        BY <2>1, <2>4, <3>2, <4>1
      <4> QED BY <3>5, <4>2, <4>3
    <3> QED BY <3>3, <3>4, <3>5
  <2>7. Truthful(recent)' /\ EndedIsUntracked'
    BY <1>3, <2>6 DEF Truthful, TrueOf, IdOf, EndedIsUntracked
  <2>8. QueuedIsTracked'
    <3> SUFFICES ASSUME NEW a \in Agents, NEW i \in 1..Len(queue[a])
                 PROVE  jobIndex'[IdOf(queue[a][i])] = a
      BY <1>3 DEF QueuedIsTracked, IdOf
    <3>1. /\ queue[a][i] \in Requests /\ exec[queue[a][i]] = "none"
          /\ IdOf(queue[a][i]) = <<job[queue[a][i]].game, queue[a][i]>> /\ IdOf(queue[a][i]) \in JobId
          /\ jobIndex[IdOf(queue[a][i])] = a
      BY <1>0, QueuedJob, DispatchedJob DEF HistoryInv, QueuedOnce, QueuedIsTracked
    <3>2. queue[a][i] # r
      BY <1>1, <1>8, <3>1
    <3> QED BY <1>0, <1>2, <1>8, <3>1, <3>2
  <2>9. TrackedIsIndexed'
    <3> SUFFICES ASSUME NEW q \in Requests, pc[q] = "tracked"
                 PROVE  jobIndex'[IdOf(q)] = job[q].agent
      BY <1>3 DEF TrackedIsIndexed, IdOf
    <3>1. q # r /\ IdOf(q) = <<job[q].game, q>> /\ IdOf(q) \in JobId /\ jobIndex[IdOf(q)] = job[q].agent
      BY <1>0, <1>1, IdIsJobId DEF IndexInv, OwnStamp, IdOf, HistoryInv, TrackedIsIndexed
    <3> QED BY <1>0, <1>2, <1>8, <3>1
  <2> QED BY <1>5, <1>6, <2>7, <2>8, <2>9 DEF HistoryParts
<1> QED BY <1>7, <1>8 DEF AgentProgress, LoseReport, UpdateJobProgress, registryVars

LEMMA HistoryRestart ==
  ASSUME HistoryInv, ServerRestart
  PROVE  HistoryParts'
<1>0. IndexInv /\ TypeInv
  BY DEF HistoryInv, IndexInv
<1>1. /\ jobIndex' = [id \in JobId |-> NoAgent] /\ recent' = saved.recent
      /\ queue' = [a \in Agents |-> <<>>] /\ net' = {}
      /\ UNCHANGED <<job, saved, exec>>
      /\ \A r \in Requests : pc'[r] = IF pc[r] \in Handling THEN "aborted" ELSE pc[r]
  BY DEF ServerRestart
<1>2. KeepsEnded
  BY <1>1 DEF KeepsEnded, Handling
<1>3. Truthful(saved.recent)'
  BY <1>0, <1>1, <1>2, TruthfulAfter DEF HistoryInv
<1>4. Truthful(recent)'
  BY SMTT(40), <1>1, <1>3 DEF Truthful, TrueOf, IdOf
<1>5. EndedIsUntracked'
  BY <1>0, <1>1, HistoryTypes, RecordedJob DEF EndedIsUntracked
<1>6. ReportsAreTrue' /\ QueuedOnce' /\ QueuedIsTracked'
  BY <1>1 DEF ReportsAreTrue, QueuedOnce, QueuedIsTracked
<1>7. TrackedIsIndexed'
  BY <1>1 DEF TrackedIsIndexed, Handling
<1>8. NothingBuilt'
  BY <1>1 DEF HistoryInv, NothingBuilt
<1> QED BY <1>3, <1>4, <1>5, <1>6, <1>7, <1>8 DEF HistoryParts

LEMMA HistoryInvStep ==
  ASSUME "collide" \notin Env
  PROVE  HistoryInv /\ [Next]_vars => HistoryInv'
<1> SUFFICES ASSUME HistoryInv, [Next]_vars PROVE HistoryInv' OBVIOUS
<1>1. IndexInv'
  BY IndexInvStep DEF HistoryInv
<1>2. HistoryParts'
  <2>1. CASE UNCHANGED vars
    BY <2>1, HistoryQuiet DEF vars, handlerVars, registryVars, deviceVars
  <2>2. CASE Next
    <3>1. ASSUME NEW r \in Requests, CleanUp(r) PROVE HistoryParts'
      BY <3>1, HistoryQuiet DEF CleanUp, handlerVars, registryVars, deviceVars
    <3> QED BY <2>2, <3>1, HistoryDispatch, HistoryConnection, HistoryDevice, HistoryReport,
               HistoryRestart DEF Next
  <2> QED BY <2>1, <2>2
<1> QED BY <1>1, <1>2 DEF HistoryInv, HistoryParts

\* What the registry's history says of a job is how it ended on the device it was sent
\* to: through reports that come late, twice or never, streams that drop jobs, crashes,
\* deletions of agents and restarts that fall back to agents.json (registry.go:
\* UpdateJobProgress, save, load).
THEOREM HistoryAlwaysMatchesDevice ==
  ASSUME "collide" \notin Env
  PROVE  Spec => []HistoryMatchesDevice
<1>1. ASSUME HistoryInv PROVE HistoryMatchesDevice
  <2> SUFFICES ASSUME NEW a \in Agents, NEW i \in 1..Len(recent[a]), NEW r \in Requests,
                      job[r] # NoJob, recent[a][i].id = IdOf(r)
               PROVE  job[r].agent = a /\ exec[r] = recent[a][i].status
    BY DEF HistoryMatchesDevice
  <2>1. TrueOf(a, recent[a][i]) /\ recent[a][i].id[2] \in Requests
    BY <1>1, HistoryTypes, RecordedJob DEF HistoryInv, Truthful
  <2>2. pc[r] # "idle" /\ job[r].stamp = r
    BY <1>1 DEF HistoryInv, NothingBuilt, IndexInv, OwnStamp
  <2>3. recent[a][i].id[2] = r
    BY <2>2 DEF IdOf
  <2> QED BY <2>1, <2>3 DEF TrueOf
<1> QED BY <1>1, HistoryInvInit, HistoryInvStep, PTL DEF Spec

-----------------------------------------------------------------------------
(* One job per agent and game.  The check and TrackJob are two steps; what *)
(* makes them one is that no second request for that agent and game runs   *)
(* between them.                                                           *)

AccountedParts == OneHandler /\ CheckedIsFree /\ NoDuplicateDispatch

LEMMA AccountedInvInit == Init => AccountedInv
<1> SUFFICES ASSUME Init PROVE AccountedInv OBVIOUS
<1>1. HistoryInv
  BY HistoryInvInit
<1>2. OneHandler /\ CheckedIsFree /\ NoDuplicateDispatch
  BY DEF Init, OneHandler, CheckedIsFree, NoDuplicateDispatch, Handling
<1> QED BY <1>1, <1>2 DEF AccountedInv

\* A step that starts no handler and adds nothing to the index.
LEMMA AccountedQuiet ==
  ASSUME AccountedInv,
         \A r \in Requests : pc'[r] \in Handling =>
           pc[r] \in Handling /\ job'[r].agent = job[r].agent /\ job'[r].game = job[r].game,
         \A r \in Requests : pc'[r] = "checked" => pc[r] = "checked",
         \A id \in JobId : jobIndex'[id] = jobIndex[id] \/ jobIndex'[id] = NoAgent
  PROVE  AccountedParts'
<1>1. OneHandler'
  BY DEF AccountedInv, OneHandler
<1>2. CheckedIsFree'
  <2> SUFFICES ASSUME NEW r \in Requests, pc'[r] = "checked", NEW id \in JobId,
                      id[1] = job'[r].game, jobIndex'[id] = job'[r].agent
               PROVE  FALSE
    BY DEF CheckedIsFree, HasActiveJobForGame
  <2>1. /\ pc[r] = "checked" /\ job'[r].agent = job[r].agent /\ job'[r].game = job[r].game
    BY DEF Handling
  <2>2. job[r].agent \in Agents
    BY <2>1 DEF AccountedInv, HistoryInv, IndexInv, TypeInv, Shape, Job
  <2> QED BY <2>1, <2>2, NamesAssumption DEF AccountedInv, CheckedIsFree, HasActiveJobForGame
<1>3. NoDuplicateDispatch'
  BY DEF AccountedInv, NoDuplicateDispatch
<1> QED BY <1>1, <1>2, <1>3 DEF AccountedParts

LEMMA AccountedDispatch ==
  ASSUME AccountedInv, "collide" \notin Env, "overlap" \notin Env, NEW r \in Requests, Dispatch(r)
  PROVE  AccountedParts'
<1>0. /\ pc \in [Requests -> Untracked \union {"tracked", "dispatched", "full", "aborted"}]
      /\ job \in [Requests -> Job \union {NoJob}]
      /\ jobIndex \in [JobId -> Agents \union {NoAgent}]
      /\ HistoryInv /\ IndexInv /\ TypeInv
  BY DEF AccountedInv, HistoryInv, IndexInv, TypeInv, Typed
<1>1. \A q \in Requests : q # r => pc'[q] = pc[q] /\ job'[q] = job[q]
  BY <1>0 DEF Dispatch, DispatchBegin, ExtractOnServer, SendLibraryFiles, CheckDuplicate, TrackJob,
     Enqueue
<1>2. ASSUME NEW a \in Agents, NEW g \in Games, DispatchBegin(r, a, g)
      PROVE  AccountedParts'
  <2>1. /\ job'[r].agent = a /\ job'[r].game = g /\ pc'[r] = "accepted"
        /\ jobIndex' = jobIndex
        /\ \A q \in Requests : pc[q] \in Handling => job[q].agent # a \/ job[q].game # g
    BY <1>0, <1>2 DEF DispatchBegin, registryVars
  <2>2. OneHandler'
    BY <1>1, <2>1 DEF AccountedInv, OneHandler
  <2>3. CheckedIsFree'
    BY <1>1, <2>1 DEF AccountedInv, CheckedIsFree, HasActiveJobForGame
  <2>4. NoDuplicateDispatch'
    BY <2>1 DEF AccountedInv, NoDuplicateDispatch
  <2> QED BY <2>2, <2>3, <2>4 DEF AccountedParts
<1>3. CASE ExtractOnServer(r) \/ SendLibraryFiles(r)
  <2>1. /\ pc[r] = "accepted" /\ pc'[r] = "extracted" /\ jobIndex' = jobIndex
        /\ job'[r] = job[r] \/ job'[r] = [job[r] EXCEPT !.temp = TRUE]
    BY <1>0, <1>3 DEF ExtractOnServer, SendLibraryFiles, registryVars
  <2>2. job[r] \in Job
    BY <1>0, <2>1 DEF TypeInv, Shape
  <2>3. job'[r].agent = job[r].agent /\ job'[r].game = job[r].game
    BY <2>1, <2>2 DEF Job
  <2> QED BY <1>1, <2>1, <2>3, AccountedQuiet DEF Handling
<1>4. CASE CheckDuplicate(r)
  <2>1. /\ pc[r] = "extracted" /\ jobIndex' = jobIndex /\ job[r] \in Job
        /\ pc'[r] = IF HasActiveJobForGame(job[r].agent, job[r].game) THEN "refused" ELSE "checked"
    BY <1>0, <1>4 DEF CheckDuplicate, TypeInv, Shape, registryVars
  <2>2. job'[r].agent = job[r].agent /\ job'[r].game = job[r].game
    <3>1. job' = [job EXCEPT ![r].stamp = r]
      BY <1>4 DEF CheckDuplicate, Stamps
    <3>2. job'[r] = [job[r] EXCEPT !.stamp = r]
      BY <1>0, <3>1
    <3> QED BY <2>1, <3>2 DEF Job
  <2>3. OneHandler'
    <3>1. pc'[r] \in Handling => pc[r] \in Handling
      BY <2>1 DEF Handling
    <3> QED BY <1>1, <2>2, <3>1 DEF AccountedInv, OneHandler
  <2>4. CheckedIsFree'
    BY <1>1, <2>1, <2>2 DEF AccountedInv, CheckedIsFree, HasActiveJobForGame
  <2>5. NoDuplicateDispatch'
    BY <2>1 DEF AccountedInv, NoDuplicateDispatch
  <2> QED BY <2>3, <2>4, <2>5 DEF AccountedParts
<1>5. CASE TrackJob(r)
  <2> DEFINE a == job[r].agent
             g == job[r].game
  <2>1. /\ pc[r] = "checked" /\ a \in Agents /\ g \in Games
        /\ IdOf(r) = <<g, r>> /\ <<g, r>> \in JobId
    BY <1>0, <1>5 DEF TrackJob, TypeInv, Shape, IndexInv, OwnStamp, Job, IdOf, JobId
  <2>2. /\ jobIndex' = [jobIndex EXCEPT ![<<g, r>>] = a]
        /\ pc' = [pc EXCEPT ![r] = "tracked"] /\ job' = job
    BY <1>5, <2>1 DEF TrackJob
  <2>3. \A id \in JobId : id[1] = g => jobIndex[id] # a
    BY <2>1 DEF AccountedInv, CheckedIsFree, HasActiveJobForGame
  <2>4. OneHandler'
    BY <1>0, <2>1, <2>2 DEF AccountedInv, OneHandler, Handling
  <2>5. CheckedIsFree'
    <3> SUFFICES ASSUME NEW q \in Requests, pc'[q] = "checked", NEW id \in JobId,
                        id[1] = job[q].game, jobIndex'[id] = job[q].agent
                 PROVE  FALSE
      BY <2>2 DEF CheckedIsFree, HasActiveJobForGame
    <3>1. q # r /\ pc[q] = "checked"
      BY <1>0, <2>2
    <3>2. job[q].agent # a \/ job[q].game # g
      BY <2>1, <3>1 DEF AccountedInv, OneHandler, Handling
    <3>3. jobIndex[id] # job[q].agent
      BY <3>1 DEF AccountedInv, CheckedIsFree, HasActiveJobForGame
    <3>4. id = <<g, r>>
      BY <1>0, <2>2, <3>3
    <3> QED BY <1>0, <2>1, <2>2, <3>2, <3>4
  <2>6. NoDuplicateDispatch'
    <3> SUFFICES ASSUME NEW id \in JobId, NEW other \in JobId, id[1] = other[1],
                        jobIndex'[id] = jobIndex'[other], jobIndex'[id] # NoAgent
                 PROVE  id = other
      BY DEF NoDuplicateDispatch
    <3>1. CASE id # <<g, r>> /\ other # <<g, r>>
      BY <1>0, <2>2, <3>1 DEF AccountedInv, NoDuplicateDispatch
    <3>2. CASE id = <<g, r>> /\ other # id
      BY <1>0, <2>1, <2>2, <2>3, <3>2
    <3>3. CASE other = <<g, r>> /\ other # id
      BY <1>0, <2>1, <2>2, <2>3, <3>3
    <3> QED BY <3>1, <3>2, <3>3
  <2> QED BY <2>4, <2>5, <2>6 DEF AccountedParts
<1>6. CASE Enqueue(r)
  <2>1. /\ pc'[r] \in {"dispatched", "full"} /\ job' = job /\ jobIndex' = jobIndex
    BY <1>0, <1>6 DEF Enqueue, registryVars
  <2> QED BY <1>1, <2>1, AccountedQuiet DEF Handling
<1> QED BY <1>2, <1>3, <1>4, <1>5, <1>6 DEF Dispatch

LEMMA AccountedStep ==
  ASSUME "collide" \notin Env, "overlap" \notin Env
  PROVE  AccountedInv /\ [Next]_vars => AccountedInv'
<1> SUFFICES ASSUME AccountedInv, [Next]_vars PROVE AccountedInv' OBVIOUS
<1>1. HistoryInv'
  BY HistoryInvStep DEF AccountedInv
<1>2. ASSUME UNCHANGED <<pc, job>>,
             \A id \in JobId : jobIndex'[id] = jobIndex[id] \/ jobIndex'[id] = NoAgent
      PROVE  AccountedParts'
  BY <1>2, AccountedQuiet
<1>3. AccountedParts'
  <2>1. CASE UNCHANGED vars
    BY <1>2, <2>1 DEF vars, handlerVars, registryVars
  <2>2. CASE Next
    <3>1. ASSUME NEW r \in Requests, Device(r) \/ CleanUp(r) PROVE AccountedParts'
      BY <1>2, <3>1 DEF Device, StartDownload, DownloadFile, DeviceError, Install, Finish, CleanUp,
         handlerVars, registryVars
    <3>2. ASSUME NEW a \in Agents, Connection(a) PROVE AccountedParts'
      BY <1>2, <3>2 DEF Connection, RegisterAgent, OpenStream, Disconnect, ReapStream, DeleteAgent,
         AgentCrash, Deliver, DeliverToDeadStream, handlerVars, registryVars
    <3>3. ASSUME NEW m \in net, AgentProgress(m) \/ LoseReport(m) PROVE AccountedParts'
      <4>1. UNCHANGED <<pc, job>>
        BY <3>3 DEF AgentProgress, LoseReport, handlerVars
      <4>2. jobIndex' = jobIndex \/ jobIndex' = [jobIndex EXCEPT ![IdOf(m.req)] = NoAgent]
        BY <3>3 DEF AgentProgress, LoseReport, UpdateJobProgress, registryVars
      <4>3. jobIndex \in [JobId -> Agents \union {NoAgent}]
        BY DEF AccountedInv, HistoryInv, IndexInv, TypeInv, Typed
      <4> QED BY <1>2, <4>1, <4>2, <4>3
    <3>4. CASE ServerRestart
      <4>1. /\ job' = job /\ jobIndex' = [id \in JobId |-> NoAgent]
            /\ \A r \in Requests : pc'[r] = IF pc[r] \in Handling THEN "aborted" ELSE pc[r]
        BY <3>4 DEF ServerRestart
      <4> QED BY <4>1, AccountedQuiet DEF Handling
    <3> QED BY <2>2, <3>1, <3>2, <3>3, <3>4, AccountedDispatch DEF Next
  <2> QED BY <2>1, <2>2
<1> QED BY <1>1, <1>3 DEF AccountedInv, AccountedParts

\* As long as requests for one agent and game do not overlap and no two dispatches of a
\* game share a millisecond: a queued job is tracked, so that the next dispatch is refused;
\* a job ends once, in one history, and is not tracked afterwards; and an agent has at most
\* one job of a game (jobs.go, registry.go, agents.go: DispatchInstall).
THEOREM JobsAlwaysAccountedFor ==
  ASSUME "collide" \notin Env, "overlap" \notin Env
  PROVE  Spec => []JobsAreAccountedFor
<1>1. ASSUME AccountedInv PROVE JobsAreAccountedFor
  <2>1. QueuedIsTracked /\ NoDuplicateDispatch
    BY <1>1 DEF AccountedInv, HistoryInv
  <2>2. EndsOnce
    <3> SUFFICES ASSUME NEW a \in Agents, NEW i \in 1..Len(recent[a])
                 PROVE  /\ jobIndex[recent[a][i].id] = NoAgent
                        /\ \A b \in Agents : \A k \in 1..Len(recent[b]) :
                             recent[a][i].id = recent[b][k].id => a = b /\ i = k
      BY DEF EndsOnce
    <3>1. jobIndex[recent[a][i].id] = NoAgent
      BY <1>1 DEF AccountedInv, HistoryInv, EndedIsUntracked
    <3>2. ASSUME NEW b \in Agents, NEW k \in 1..Len(recent[b]), recent[a][i].id = recent[b][k].id
          PROVE  a = b /\ i = k
      <4>1. TrueOf(a, recent[a][i]) /\ TrueOf(b, recent[b][k])
        BY <1>1 DEF AccountedInv, HistoryInv, Truthful
      <4>2. a = b
        BY <3>2, <4>1 DEF TrueOf
      <4> QED BY <1>1, <3>2, <4>2 DEF AccountedInv, HistoryInv, Truthful
    <3> QED BY <3>1, <3>2
  <2> QED BY <2>1, <2>2 DEF JobsAreAccountedFor
<1> QED BY <1>1, AccountedInvInit, AccountedStep, PTL DEF Spec
=============================================================================
