---------------------------- MODULE AgentStream ----------------------------
(***************************************************************************)
(* The event stream between the server and one agent: AgentBroker          *)
(* (internal/agent/broker.go), the AgentEvents handler around it           *)
(* (internal/api/agents.go), the Status the registry shows                 *)
(* (internal/agent/registry.go) and the agent's Run loop (cmd/agent/.../   *)
(* client.go).  AgentBroker.streams has one entry per agent and no         *)
(* operation touches two, so one agent is enough.                          *)
(*                                                                         *)
(* A member of Conns is one GET /agent/events: its handler's goroutine and *)
(* the channel that its subscribe makes.  It may be used again once the    *)
(* handler has returned.  A member of Sends is one call of Send and also   *)
(* the message it carries.                                                 *)
(***************************************************************************)
EXTENDS Naturals, Sequences

CONSTANTS
  Conns,       \* event-stream requests
  Sends,       \* calls of AgentBroker.Send
  Bare,        \* the calls made outside an HTTP handler, which nothing recovers
  BufCap,      \* buffer of a stream's channel (32 in the code)
  Env,         \* what the environment may do, a subset of EnvKinds
  NoConn

EnvKinds ==
  { "disconnect",     \* a connection breaks
    "late_open",      \* ... also before its handler has subscribed
    "server_timeout", \* the server cancels a request context on its own
    "server_restart" }

ASSUME EnvAssumption == Env \subseteq EnvKinds
ASSUME StreamAssumption ==
  /\ BufCap \in Nat \ {0}
  /\ Bare \subseteq Sends
  /\ NoConn \notin Conns

VARIABLES
  client,      \* the stream the agent reads from
  enrolled,    \* the agent has registered and is about to open a stream
  status,      \* AgentInfo.Status
  phase,       \* where each AgentEvents handler is
  stream,      \* AgentBroker.streams: whose channel is registered
  buf,         \* the messages in each channel
  closed,      \* the channels that close() was called on
  call,        \* where each Send is
  held,        \* the channel a Send has read under the lock
  accepted,    \* history: the messages a channel took, in order
  delivered    \* history: the messages that reached the agent, in order

agentVars   == <<client, enrolled>>
brokerVars  == <<stream, buf, closed>>
sendVars    == <<call, held>>
historyVars == <<accepted, delivered>>
vars == <<agentVars, status, phase, brokerVars, sendVars, historyVars>>

Init ==
  /\ client    = NoConn
  /\ enrolled  = FALSE
  /\ status    = "offline"
  /\ phase     = [c \in Conns |-> "idle"]
  /\ stream    = NoConn
  /\ buf       = [c \in Conns |-> <<>>]
  /\ closed    = {}
  /\ call      = [s \in Sends |-> "idle"]
  /\ held      = [s \in Sends |-> NoConn]
  /\ accepted  = <<>>
  /\ delivered = <<>>

-----------------------------------------------------------------------------
(* The agent: Run registers, listens, and starts over when the stream ends.*)

Register ==
  /\ client = NoConn /\ ~enrolled
  /\ enrolled' = TRUE
  /\ status' = "online"
  /\ UNCHANGED <<client, phase, brokerVars, sendVars, historyVars>>

\* listenSSE; AgentEvents has looked the agent up and called SetOnline.
Connect(c) ==
  /\ enrolled
  /\ phase[c] = "idle"
  /\ \A s \in Sends : call[s] = "held" => held[s] # c
  /\ phase' = [phase EXCEPT ![c] = "opening"]
  /\ client' = c
  /\ enrolled' = FALSE
  /\ status' = "online"
  /\ UNCHANGED <<brokerVars, sendVars, historyVars>>

Disconnect ==
  /\ "disconnect" \in Env
  /\ client # NoConn
  /\ phase[client] = "opening" => "late_open" \in Env
  /\ client' = NoConn
  /\ UNCHANGED <<enrolled, status, phase, brokerVars, sendVars, historyVars>>

-----------------------------------------------------------------------------
(* The handler of a stream: ServeAgent.                                    *)

Subscribe(c) ==
  /\ phase[c] = "opening"
  /\ phase' = [phase EXCEPT ![c] = "serving"]
  /\ stream' = c
  /\ buf' = [buf EXCEPT ![c] = <<>>]
  /\ closed' = closed \ {c}
  /\ UNCHANGED <<agentVars, status, sendVars, historyVars>>

\* A loop that writes the message it looked at and leaves it in the channel.
WriteMessage_Twice(c) ==
  /\ phase[c] = "serving"
  /\ buf[c] # <<>> /\ Len(delivered) <= Len(accepted)
  /\ delivered' = IF client = c THEN Append(delivered, Head(buf[c])) ELSE delivered
  /\ UNCHANGED <<agentVars, status, phase, brokerVars, sendVars, accepted>>

\* The error of a write to a dead connection is ignored.
WriteMessage(c) ==
  /\ phase[c] = "serving"
  /\ buf[c] # <<>>
  /\ buf' = [buf EXCEPT ![c] = Tail(@)]
  /\ delivered' = IF client = c THEN Append(delivered, Head(buf[c])) ELSE delivered
  /\ UNCHANGED <<agentVars, status, phase, stream, closed, sendVars, accepted>>

\* The loop returns: its channel is closed and drained, or its request is over.
LoopEnds(c) ==
  /\ phase[c] = "serving"
  /\ \/ c \in closed /\ buf[c] = <<>>
     \/ client # c \/ "server_timeout" \in Env
  /\ phase' = [phase EXCEPT ![c] = "leaving"]
  /\ UNCHANGED <<agentVars, status, brokerVars, sendVars, historyVars>>

\* Slips in unsubscribe: the channel is not closed; the entry is not deleted.
Unsubscribe_NoClose(c) ==
  /\ phase[c] = "leaving"
  /\ phase' = [phase EXCEPT ![c] = "detached"]
  /\ stream' = NoConn
  /\ UNCHANGED <<agentVars, status, buf, closed, sendVars, historyVars>>

Unsubscribe_NoDelete(c) ==
  /\ phase[c] = "leaving"
  /\ phase' = [phase EXCEPT ![c] = "detached"]
  /\ closed' = IF stream = NoConn THEN closed ELSE closed \union {stream}
  /\ UNCHANGED <<agentVars, status, stream, buf, sendVars, historyVars>>

\* Whatever channel the agent has by now is deleted and closed.
Unsubscribe(c) ==
  /\ phase[c] = "leaving"
  /\ phase' = [phase EXCEPT ![c] = "detached"]
  /\ stream' = NoConn
  /\ closed' = IF stream = NoConn THEN closed ELSE closed \union {stream}
  /\ UNCHANGED <<agentVars, status, buf, sendVars, historyVars>>

\* onDisconnect; then the handler returns and the response ends.
MarkOffline(c) ==
  /\ phase[c] = "detached"
  /\ phase' = [phase EXCEPT ![c] = "idle"]
  /\ status' = "offline"
  /\ client' = IF client = c THEN NoConn ELSE client
  /\ UNCHANGED <<enrolled, brokerVars, sendVars, historyVars>>

-----------------------------------------------------------------------------
(* Send: the channel is read under the lock and used after it.             *)

SendLookup(s) ==
  /\ call[s] = "idle"
  /\ \/ /\ stream = NoConn
        /\ call' = [call EXCEPT ![s] = "refused"]
        /\ UNCHANGED held
     \/ /\ stream # NoConn
        /\ call' = [call EXCEPT ![s] = "held"]
        /\ held' = [held EXCEPT ![s] = stream]
  /\ UNCHANGED <<agentVars, status, phase, brokerVars, historyVars>>

\* The process ends and is started again: every handler and every call is gone,
\* load marks the agent offline.
ProcessEnds ==
  /\ client' = NoConn
  /\ enrolled' = FALSE
  /\ status' = "offline"
  /\ phase' = [c \in Conns |-> "idle"]
  /\ stream' = NoConn
  /\ buf' = [c \in Conns |-> <<>>]
  /\ closed' = {}

\* A buffer that takes one message too many.
SendPut_OneMore(s) ==
  LET c == held[s] IN
  /\ call[s] = "held" /\ c \notin closed
  /\ Len(buf[c]) <= BufCap
  /\ buf' = [buf EXCEPT ![c] = Append(@, s)]
  /\ call' = [call EXCEPT ![s] = "sent"]
  /\ accepted' = Append(accepted, s)
  /\ UNCHANGED <<agentVars, status, phase, stream, closed, held, delivered>>

\* A full buffer refuses.
SendPut(s) ==
  LET c == held[s] IN
  /\ call[s] = "held"
  /\ c \notin closed
  /\ \/ /\ Len(buf[c]) < BufCap
        /\ buf' = [buf EXCEPT ![c] = Append(@, s)]
        /\ call' = [call EXCEPT ![s] = "sent"]
        /\ accepted' = Append(accepted, s)
     \/ /\ Len(buf[c]) >= BufCap
        /\ call' = [call EXCEPT ![s] = "refused"]
        /\ UNCHANGED <<buf, accepted>>
  /\ UNCHANGED <<agentVars, status, phase, stream, closed, held, delivered>>

\* The channel was closed meanwhile: the send panics.  The Recoverer of the
\* router turns that into a 500, outside a handler it ends the process.
SendPanics(s) ==
  /\ call[s] = "held" /\ held[s] \in closed
  /\ \/ /\ s \notin Bare
        /\ call' = [call EXCEPT ![s] = "panicked"]
        /\ UNCHANGED <<agentVars, status, phase, brokerVars>>
     \/ /\ s \in Bare
        /\ ProcessEnds
        /\ call' = [r \in Sends |-> IF r = s THEN "panicked"
                                    ELSE IF call[r] = "held" THEN "aborted" ELSE call[r]]
  /\ UNCHANGED <<held, historyVars>>

ServerRestart ==
  /\ "server_restart" \in Env
  /\ ProcessEnds
  /\ call' = [r \in Sends |-> IF call[r] = "held" THEN "aborted" ELSE call[r]]
  /\ UNCHANGED <<held, historyVars>>

-----------------------------------------------------------------------------
Handler(c) ==
  Subscribe(c) \/ WriteMessage(c) \/ LoopEnds(c) \/ Unsubscribe(c) \/ MarkOffline(c)

Next ==
  \/ Register \/ Disconnect \/ ServerRestart
  \/ \E c \in Conns : Connect(c) \/ Handler(c)
  \/ \E s \in Sends : SendLookup(s) \/ SendPut(s) \/ SendPanics(s)

Spec == Init /\ [][Next]_vars

\* Goroutines keep running, a handler notices in time that its client is gone,
\* and the agent's Run loop reconnects for ever.  No stream has to time out.
Fairness ==
  /\ WF_vars(Register) /\ WF_vars(\E c \in Conns : Connect(c))
  /\ \A c \in Conns :
       /\ WF_vars(Subscribe(c)) /\ WF_vars(WriteMessage(c))
       /\ WF_vars((c \in closed \/ client # c) /\ LoopEnds(c))
       /\ WF_vars(Unsubscribe(c)) /\ WF_vars(MarkOffline(c))
  /\ \A s \in Sends : WF_vars(SendPut(s) \/ SendPanics(s))

FairSpec == Spec /\ Fairness

-----------------------------------------------------------------------------
(* Properties                                                              *)

\* Every variable ranges over the states the code's types allow; no channel
\* holds more than its buffer.
TypeOK ==
  /\ client \in Conns \union {NoConn}
  /\ enrolled \in BOOLEAN
  /\ status \in {"online", "offline"}
  /\ phase \in [Conns -> {"idle", "opening", "serving", "leaving", "detached"}]
  /\ stream \in Conns \union {NoConn}
  /\ buf \in [Conns -> Seq(Sends)]
  /\ \A c \in Conns : Len(buf[c]) <= BufCap
  /\ closed \subseteq Conns
  /\ call \in [Sends -> {"idle", "held", "sent", "refused", "panicked", "aborted"}]
  /\ held \in [Sends -> Conns \union {NoConn}]
  /\ accepted \in Seq(Sends)
  /\ delivered \in Seq(Sends)

\* The registered channel is open, so that unsubscribe never closes a channel
\* twice, and belongs to a handler that has yet to unsubscribe, so that it cannot
\* stay registered with nobody to read it (broker.go, unsubscribe).
RegisteredIsServed ==
  stream # NoConn => stream \notin closed /\ phase[stream] \in {"serving", "leaving"}

\* "IsConnected returns true if the agent has an active SSE stream": the stream the
\* agent reads from is the registered one, or closed and about to end.
LiveIsReachable ==
  \A c \in Conns :
    (client = c /\ phase[c] = "serving" /\ c \notin closed) => stream = c

\* An agent whose stream the broker has forgotten does not wait on it for ever: the
\* broker ends the stream, and, if the server does not restart for ever, the agent
\* gets one that Send reaches.
ForgottenReconnects ==
  <>[][~ServerRestart]_vars =>
    ((client # NoConn /\ stream # client) ~> (client # NoConn /\ stream = client))

\* What Send promises, whatever connections come and go: see LossyFifo.
Fifo == INSTANCE LossyFifo WITH Message <- Sends, sent <- accepted, received <- delivered

InOrderAtMostOnce == Fifo!Spec

-----------------------------------------------------------------------------
(* The inductive invariants of AgentStreamProofs, in named parts.          *)

\* The agent registers only between streams, and, unless a stream may break before
\* its handler subscribes, a handler that has yet to subscribe serves the agent.
EnrolledIsOut   == enrolled => client = NoConn
OpeningIsClient == \A c \in Conns : phase[c] = "opening" => client = c

LiveInv == RegisteredIsServed /\ EnrolledIsOut /\ OpeningIsClient /\ LiveIsReachable

\* A message is accepted once, by a Send that answered true; what is in a channel or
\* was delivered is accepted; channels keep the order of acceptance; and what waits
\* in the channel of the agent's own stream is younger than all it has received.
AcceptedOnce ==
  \A i, j \in 1..Len(accepted) : accepted[i] = accepted[j] => i = j
AcceptedIsSent == \A m \in Fifo!Elements(accepted) : call[m] = "sent"
DeliveredIsAccepted == Fifo!Elements(delivered) \subseteq Fifo!Elements(accepted)
BufferedIsAccepted ==
  \A c \in Conns : Fifo!Elements(buf[c]) \subseteq Fifo!Elements(accepted)
BufferedInOrder ==
  \A c \in Conns : \A i, j \in 1..Len(buf[c]) :
    i < j => Fifo!Before(accepted, buf[c][i], buf[c][j])
BufferedIsYounger ==
  \A c \in Conns : (client = c /\ phase[c] # "opening") =>
    \A m \in Fifo!Elements(delivered), n \in Fifo!Elements(buf[c]) :
      Fifo!Before(accepted, m, n)

OrderInv ==
  /\ AcceptedOnce /\ AcceptedIsSent /\ DeliveredIsAccepted
  /\ BufferedIsAccepted /\ BufferedInOrder /\ BufferedIsYounger
=============================================================================
