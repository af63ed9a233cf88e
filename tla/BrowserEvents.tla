--------------------------- MODULE BrowserEvents ---------------------------
(***************************************************************************)
(* Events for browsers (internal/sse/broker.go): a publisher puts them     *)
(* into the channel of every browser under the broker's mutex and skips    *)
(* the ones that are full.  The queue of downloads is published at every   *)
(* tick, the list of agents after every change of it, and what an agent    *)
(* reads when it comes (internal/api/agents.go).  What changes is a number *)
(* that grows.                                                             *)
(***************************************************************************)
EXTENDS Naturals, Sequences

CONSTANTS
  Browsers,
  Handlers,           \* handlers that change the list of agents, at one time
  Capacity,           \* messages a channel holds (16)
  MaxChange, MaxLeave \* bounds: of changes, of browsers that leave

VARIABLES
  latest,          \* the queue, the list of agents and the last log as they are
  collected,       \* the queue the broadcaster holds, or Nothing
  listing,         \* what each handler has done, and the list it has read
  streams,         \* Broker.clients: the browsers with a channel
  channel, ended,  \* the channels, and those that are closed
  shown,           \* what each browser shows
  left             \* how many browsers have left

eventVars == <<latest, collected, listing, streams, channel, ended, shown, left>>

What == {"queue", "agents", "log"}
Nothing == MaxChange + 1
Idle == [step |-> "idle", list |-> 0]

Init ==
  /\ latest = [w \in What |-> 0] /\ collected = Nothing
  /\ listing = [h \in Handlers |-> Idle]
  /\ streams = {} /\ channel = [b \in Browsers |-> <<>>] /\ ended = Browsers
  /\ shown = [b \in Browsers |-> [w \in What |-> Nothing]] /\ left = 0

Publish(what, value) ==
  channel' = [b \in Browsers |->
                IF b \in streams /\ Len(channel[b]) < Capacity
                THEN Append(channel[b], <<what, value>>) ELSE channel[b]]

Change(what) == latest[what] < MaxChange /\ latest' = [latest EXCEPT ![what] = @ + 1]

-----------------------------------------------------------------------------
(* Publishers.                                                             *)

QueueChanges ==
  /\ Change("queue")
  /\ UNCHANGED <<collected, listing, streams, channel, ended, shown, left>>

CollectQueue ==
  /\ collected = Nothing /\ collected' = latest["queue"]
  /\ UNCHANGED <<latest, listing, streams, channel, ended, shown, left>>

\* RunQueueBroadcaster at a tick, when it has collected the queue.
RunQueueBroadcaster ==
  /\ collected # Nothing /\ collected' = Nothing
  /\ Publish("queue", collected)
  /\ UNCHANGED <<latest, listing, streams, ended, shown, left>>

\* A handler that has changed the registry reads the list, and publishes what it read.
publishAgentList(h) ==
  \/ /\ listing[h].step = "idle" /\ Change("agents")
     /\ listing' = [listing EXCEPT ![h].step = "changed"]
     /\ UNCHANGED <<collected, streams, channel, ended, shown, left>>
  \/ /\ listing[h].step = "changed"
     /\ listing' = [listing EXCEPT ![h] = [step |-> "listed", list |-> latest["agents"]]]
     /\ UNCHANGED <<latest, collected, streams, channel, ended, shown, left>>
  \/ /\ listing[h].step = "listed"
     /\ listing' = [listing EXCEPT ![h] = Idle]
     /\ Publish("agents", listing[h].list)
     /\ UNCHANGED <<latest, collected, streams, ended, shown, left>>

\* ReceiveAgentLog and ReceiveAgentScript: what a browser asked an agent for goes to all.
receiveAgentContent ==
  /\ Change("log") /\ Publish("log", latest["log"] + 1)
  /\ UNCHANGED <<collected, listing, streams, ended, shown, left>>

-----------------------------------------------------------------------------
(* ServeHTTP.                                                              *)

Connect(b) ==
  /\ b \notin streams /\ b \in ended
  /\ streams' = streams \union {b} /\ ended' = ended \ {b}
  /\ channel' = [channel EXCEPT ![b] = <<>>]
  /\ UNCHANGED <<latest, collected, listing, shown, left>>

Show(b) ==
  /\ b \in streams /\ channel[b] # <<>>
  /\ channel' = [channel EXCEPT ![b] = Tail(@)]
  /\ LET m == Head(channel[b]) IN shown' = [shown EXCEPT ![b][m[1]] = m[2]]
  /\ UNCHANGED <<latest, collected, listing, streams, ended, left>>

\* ServeHTTP that closes the channel before it takes it from the clients.
Leave_CloseFirst(b) ==
  /\ \/ /\ b \notin ended /\ left < MaxLeave /\ left' = left + 1
        /\ ended' = ended \union {b} /\ UNCHANGED streams
     \/ b \in streams /\ b \in ended /\ streams' = streams \ {b} /\ UNCHANGED <<ended, left>>
  /\ UNCHANGED <<latest, collected, listing, channel, shown>>

\* The request ends: the channel is no client's any more, then it is closed.
Leave(b) ==
  /\ \/ /\ b \in streams /\ left < MaxLeave /\ left' = left + 1
        /\ streams' = streams \ {b} /\ UNCHANGED ended
     \/ b \notin streams \union ended /\ ended' = ended \union {b} /\ UNCHANGED <<streams, left>>
  /\ UNCHANGED <<latest, collected, listing, channel, shown>>

Next ==
  \/ QueueChanges \/ CollectQueue \/ RunQueueBroadcaster \/ receiveAgentContent
  \/ \E h \in Handlers : publishAgentList(h)
  \/ \E b \in Browsers : Connect(b) \/ Show(b) \/ Leave(b)

\* The broadcaster's ticks go on, browsers read, and connect again (EventSource).
Fairness ==
  /\ WF_eventVars(CollectQueue) /\ WF_eventVars(RunQueueBroadcaster)
  /\ \A b \in Browsers : /\ WF_eventVars(Connect(b)) /\ WF_eventVars(Show(b))
                         /\ WF_eventVars(b \notin streams \union ended /\ Leave(b))

-----------------------------------------------------------------------------
(* Properties.                                                             *)

\* No publisher finds a closed channel among the clients, which would end the server:
\* whenever a browser leaves and whatever is published meanwhile (broker.go:57-62).
NoSendToClosed == streams \intersect ended = {}

\* Messages, channels and what is shown have the form the code gives them.
TypeOK ==
  /\ latest \in [What -> 0..MaxChange] /\ collected \in 0..Nothing
  /\ streams \subseteq Browsers /\ ended \subseteq Browsers
  /\ \A b \in Browsers :
       /\ Len(channel[b]) <= Capacity
       /\ \A i \in DOMAIN channel[b] : channel[b][i] \in What \X (0..MaxChange)
       /\ shown[b] \in [What -> 0..Nothing]
  /\ NoSendToClosed

\* For <>[]: a browser that stays comes to show the queue as it is, although messages
\* to it are skipped while its channel is full, and other events fill it
\* (broker.go:30-34): the queue is published again and again.
QueueShown == \A b \in Browsers : shown[b]["queue"] = latest["queue"]
=============================================================================
