------------------------- MODULE AgentStreamProofs -------------------------
(***************************************************************************)
(* What AgentStream keeps for every number of connections and calls of     *)
(* Send, every buffer size and every combination of faults.                *)
(***************************************************************************)
EXTENDS AgentStream, SequenceTheorems, TLAPS

-----------------------------------------------------------------------------
(* Types.                                                                  *)

LEMMA EmptyChannel == <<>> \in Seq(Sends) /\ Len(<<>>) = 0 /\ Len(<<>>) <= BufCap
BY StreamAssumption

LEMMA TypeInit == Init => TypeOK
<1> SUFFICES ASSUME Init PROVE TypeOK OBVIOUS
<1>1. buf \in [Conns -> Seq(Sends)] /\ \A c \in Conns : Len(buf[c]) <= BufCap
  BY EmptyChannel DEF Init
<1>2. accepted \in Seq(Sends) /\ delivered \in Seq(Sends)
  BY EmptyChannel DEF Init
<1> QED BY <1>1, <1>2 DEF Init, TypeOK

LEMMA TypeStep == TypeOK /\ [Next]_vars => TypeOK'
<1> SUFFICES ASSUME TypeOK, [Next]_vars PROVE TypeOK' OBVIOUS
<1> USE DEF TypeOK, agentVars, brokerVars, sendVars, historyVars
<1>1. CASE Register \/ Disconnect
  BY <1>1 DEF Register, Disconnect
<1>2. ASSUME ProcessEnds, call' \in [Sends -> {"idle", "held", "sent", "refused",
                                              "panicked", "aborted"}],
             UNCHANGED <<held, historyVars>>
      PROVE  TypeOK'
  <2>1. buf' \in [Conns -> Seq(Sends)] /\ \A c \in Conns : Len(buf'[c]) <= BufCap
    BY <1>2, EmptyChannel DEF ProcessEnds
  <2> QED BY <1>2, <2>1 DEF ProcessEnds
<1>3. CASE ServerRestart
  <2>1. call' \in [Sends -> {"idle", "held", "sent", "refused", "panicked", "aborted"}]
    BY <1>3 DEF ServerRestart
  <2> QED BY <1>2, <1>3, <2>1 DEF ServerRestart
<1>4. ASSUME NEW c \in Conns, Connect(c) PROVE TypeOK'
  BY <1>4 DEF Connect
<1>5. ASSUME NEW c \in Conns, Handler(c) PROVE TypeOK'
  <2>1. CASE Subscribe(c)
    BY <2>1, StreamAssumption DEF Subscribe
  <2>2. CASE WriteMessage(c)
    <3>1. /\ Head(buf[c]) \in Sends
          /\ Tail(buf[c]) \in Seq(Sends)
          /\ Len(Tail(buf[c])) <= BufCap
      BY <2>2, HeadTailProperties, StreamAssumption, LenProperties DEF WriteMessage
    <3>2. delivered' \in Seq(Sends)
      BY <2>2, <3>1, AppendProperties DEF WriteMessage
    <3>3. buf' \in [Conns -> Seq(Sends)] /\ \A d \in Conns : Len(buf'[d]) <= BufCap
      BY <2>2, <3>1 DEF WriteMessage
    <3> QED BY <2>2, <3>2, <3>3 DEF WriteMessage
  <2>3. CASE LoopEnds(c) \/ Unsubscribe(c) \/ MarkOffline(c)
    BY <2>3 DEF LoopEnds, Unsubscribe, MarkOffline
  <2> QED BY <1>5, <2>1, <2>2, <2>3 DEF Handler
<1>6. ASSUME NEW s \in Sends, SendLookup(s) PROVE TypeOK'
  BY <1>6 DEF SendLookup
<1>7. ASSUME NEW s \in Sends, SendPut(s) PROVE TypeOK'
  <2>1. CASE Len(buf[held[s]]) < BufCap /\ buf' = [buf EXCEPT ![held[s]] = Append(@, s)]
    <3>1. ASSUME held[s] \in Conns
          PROVE  /\ Append(buf[held[s]], s) \in Seq(Sends)
                 /\ Len(Append(buf[held[s]], s)) <= BufCap
      BY <2>1, <3>1, AppendProperties, StreamAssumption, LenProperties
    <3>2. buf' \in [Conns -> Seq(Sends)] /\ \A d \in Conns : Len(buf'[d]) <= BufCap
      BY <2>1, <3>1
    <3>3. accepted' \in Seq(Sends)
      <4>1. Append(accepted, s) \in Seq(Sends)
        BY AppendProperties
      <4> QED BY <1>7, <4>1 DEF SendPut
    <3> QED BY <1>7, <3>2, <3>3 DEF SendPut
  <2>2. CASE UNCHANGED <<buf, accepted>>
    BY <1>7, <2>2 DEF SendPut
  <2> QED BY <1>7, <2>1, <2>2 DEF SendPut
<1>8. ASSUME NEW s \in Sends, SendPanics(s) PROVE TypeOK'
  <2>1. CASE s \notin Bare
    BY <1>8, <2>1 DEF SendPanics
  <2>2. CASE s \in Bare
    <3>1. call' \in [Sends -> {"idle", "held", "sent", "refused", "panicked", "aborted"}]
      BY <1>8, <2>2 DEF SendPanics
    <3> QED BY <1>2, <1>8, <2>2, <3>1 DEF SendPanics
  <2> QED BY <2>1, <2>2
<1>9. CASE UNCHANGED vars
  BY <1>9 DEF vars
<1> QED BY <1>1, <1>3, <1>4, <1>5, <1>6, <1>7, <1>8, <1>9 DEF Next

\* Every reachable state of the stream is well typed, and no channel ever holds
\* more messages than its buffer.
THEOREM TypeCorrect == Spec => []TypeOK
BY TypeInit, TypeStep, PTL DEF Spec

-----------------------------------------------------------------------------
(* The registered channel.                                                 *)

LEMMA RegisteredStep ==
  TypeOK /\ RegisteredIsServed /\ [Next]_vars => RegisteredIsServed'
<1> SUFFICES ASSUME TypeOK, RegisteredIsServed, [Next]_vars PROVE RegisteredIsServed' OBVIOUS
<1> USE DEF TypeOK, RegisteredIsServed, agentVars, brokerVars, sendVars, historyVars
<1>1. CASE Register \/ Disconnect \/ UNCHANGED vars
  BY <1>1 DEF Register, Disconnect, vars
<1>2. CASE ServerRestart
  BY <1>2 DEF ServerRestart, ProcessEnds
<1>3. ASSUME NEW c \in Conns, Connect(c) \/ Handler(c) PROVE RegisteredIsServed'
  BY <1>3, StreamAssumption DEF Connect, Handler, Subscribe, WriteMessage, LoopEnds,
     Unsubscribe, MarkOffline
<1>4. ASSUME NEW s \in Sends, SendLookup(s) \/ SendPut(s) \/ SendPanics(s)
      PROVE  RegisteredIsServed'
  BY <1>4 DEF SendLookup, SendPut, SendPanics, ProcessEnds
<1> QED BY <1>1, <1>2, <1>3, <1>4 DEF Next

\* No channel is closed twice, and a registered channel always has a handler that
\* will take it down, however connections overlap and whatever restarts.
THEOREM RegisteredAlwaysServed == Spec => []RegisteredIsServed
<1>1. Init => RegisteredIsServed
  BY DEF Init, RegisteredIsServed
<1> QED BY <1>1, TypeInit, TypeStep, RegisteredStep, PTL DEF Spec

-----------------------------------------------------------------------------
(* The agent's own stream is the registered one.                           *)

LEMMA LiveStep ==
  ASSUME "late_open" \notin Env
  PROVE  TypeOK /\ LiveInv /\ [Next]_vars => LiveInv'
<1> SUFFICES ASSUME TypeOK, LiveInv, [Next]_vars PROVE LiveInv' OBVIOUS
<1>1. RegisteredIsServed'
  BY RegisteredStep DEF LiveInv
<1> USE StreamAssumption
    DEF TypeOK, EnrolledIsOut, OpeningIsClient, LiveIsReachable, agentVars, brokerVars,
        sendVars, historyVars
<1>2. EnrolledIsOut' /\ OpeningIsClient' /\ LiveIsReachable'
  <2> USE DEF LiveInv
  <2>1. CASE Register \/ Disconnect \/ UNCHANGED vars
    BY <2>1 DEF Register, Disconnect, vars
  <2>2. CASE ServerRestart
    BY <2>2 DEF ServerRestart, ProcessEnds
  <2>3. ASSUME NEW c \in Conns, Connect(c)
        PROVE  EnrolledIsOut' /\ OpeningIsClient' /\ LiveIsReachable'
    BY <2>3 DEF Connect
  <2>4. ASSUME NEW c \in Conns, Subscribe(c)
        PROVE  EnrolledIsOut' /\ OpeningIsClient' /\ LiveIsReachable'
    BY <2>4 DEF Subscribe
  <2>5. ASSUME NEW c \in Conns, WriteMessage(c) \/ LoopEnds(c)
        PROVE  EnrolledIsOut' /\ OpeningIsClient' /\ LiveIsReachable'
    BY <2>5 DEF WriteMessage, LoopEnds
  <2>6. ASSUME NEW c \in Conns, Unsubscribe(c)
        PROVE  EnrolledIsOut' /\ OpeningIsClient' /\ LiveIsReachable'
    <3>1. ASSUME NEW d \in Conns, client = d, phase'[d] = "serving", d \notin closed'
          PROVE  FALSE
      BY <2>6, <3>1 DEF Unsubscribe
    <3>2. LiveIsReachable'
      BY <2>6, <3>1 DEF Unsubscribe
    <3> QED BY <2>6, <3>2 DEF Unsubscribe
  <2>8. ASSUME NEW c \in Conns, MarkOffline(c)
        PROVE  EnrolledIsOut' /\ OpeningIsClient' /\ LiveIsReachable'
    BY <2>8 DEF MarkOffline
  <2>7. ASSUME NEW s \in Sends, SendLookup(s) \/ SendPut(s) \/ SendPanics(s)
        PROVE  EnrolledIsOut' /\ OpeningIsClient' /\ LiveIsReachable'
    BY <2>7 DEF SendLookup, SendPut, SendPanics, ProcessEnds
  <2> QED BY <2>1, <2>2, <2>3, <2>4, <2>5, <2>6, <2>7, <2>8 DEF Next, Handler
<1> QED BY <1>1, <1>2 DEF LiveInv

\* If no stream breaks before its handler has subscribed, the stream an agent reads
\* from is always the one Send reaches, or it has been closed and is about to end.
THEOREM LiveAlwaysReachable ==
  ASSUME "late_open" \notin Env
  PROVE  Spec => []LiveIsReachable
<1>1. Init => LiveInv
  BY DEF Init, LiveInv, RegisteredIsServed, EnrolledIsOut, OpeningIsClient, LiveIsReachable
<1>2. LiveInv => LiveIsReachable
  BY DEF LiveInv
<1> QED BY <1>1, <1>2, TypeInit, TypeStep, LiveStep, PTL DEF Spec

-----------------------------------------------------------------------------
(* Order and at-most-once delivery: AgentStream implements LossyFifo.      *)

LEMMA AppendElements ==
  ASSUME NEW q \in Seq(Sends), NEW x \in Sends
  PROVE  /\ Fifo!Elements(Append(q, x)) = Fifo!Elements(q) \union {x}
         /\ \A a, b : Fifo!Before(q, a, b) => Fifo!Before(Append(q, x), a, b)
         /\ \A a \in Fifo!Elements(q) : Fifo!Before(Append(q, x), a, x)
<1>1. /\ Len(q) \in Nat
      /\ Len(Append(q, x)) = Len(q) + 1
      /\ \A i \in 1..Len(q) : Append(q, x)[i] = q[i]
      /\ Append(q, x)[Len(q) + 1] = x
  BY AppendProperties, LenProperties
<1>2. Fifo!Elements(Append(q, x)) = Fifo!Elements(q) \union {x}
  BY <1>1 DEF Fifo!Elements
<1>3. ASSUME NEW a, NEW b, Fifo!Before(q, a, b)
      PROVE  Fifo!Before(Append(q, x), a, b)
  BY <1>1, <1>3 DEF Fifo!Before
<1>4. ASSUME NEW a \in Fifo!Elements(q)
      PROVE  Fifo!Before(Append(q, x), a, x)
  BY <1>1 DEF Fifo!Before, Fifo!Elements
<1> QED BY <1>2, <1>3, <1>4

LEMMA TailElements ==
  ASSUME NEW q \in Seq(Sends), q # <<>>
  PROVE  /\ Head(q) = q[1] /\ 1 \in 1..Len(q)
         /\ Tail(q) \in Seq(Sends)
         /\ \A i \in 1..Len(Tail(q)) : i + 1 \in 1..Len(q) /\ Tail(q)[i] = q[i + 1]
BY HeadTailProperties, LenProperties, EmptySeq

LEMMA BeforeElements ==
  ASSUME NEW q, NEW a, NEW b, Fifo!Before(q, a, b)
  PROVE  a \in Fifo!Elements(q) /\ b \in Fifo!Elements(q)
BY DEF Fifo!Before, Fifo!Elements

LEMMA OrderInit == Init => OrderInv
<1> SUFFICES ASSUME Init PROVE OrderInv OBVIOUS
<1>1. Fifo!Elements(<<>>) = {} /\ Len(<<>>) = 0
  BY DEF Fifo!Elements
<1> QED BY <1>1 DEF Init, OrderInv, AcceptedOnce, AcceptedIsSent, DeliveredIsAccepted,
        BufferedIsAccepted, BufferedInOrder, BufferedIsYounger

\* Steps that take no message: channels stay as they are or are emptied, and the
\* agent gets no stream with something in it.
LEMMA OrderFrame ==
  ASSUME TypeOK, OrderInv, UNCHANGED <<accepted, delivered>>,
         \A c \in Conns : buf'[c] = buf[c] \/ buf'[c] = <<>>,
         \A r \in Sends : call[r] = "sent" => call'[r] = "sent",
         \A c \in Conns : (client' = c /\ phase'[c] # "opening" /\ buf'[c] # <<>>) =>
                            client = c /\ phase[c] # "opening"
  PROVE  OrderInv'
<1>1. Fifo!Elements(<<>>) = {} /\ Len(<<>>) = 0
  BY DEF Fifo!Elements
<1>2. Fifo!Elements(accepted) \subseteq Sends
  BY ElementOfSeq DEF TypeOK, Fifo!Elements
<1>3. AcceptedOnce' /\ DeliveredIsAccepted'
  BY DEF OrderInv, AcceptedOnce, DeliveredIsAccepted
<1>4. AcceptedIsSent'
  BY <1>2 DEF OrderInv, AcceptedIsSent
<1>5. BufferedIsAccepted'
  BY <1>1 DEF OrderInv, BufferedIsAccepted
<1>6. BufferedInOrder'
  BY <1>1 DEF OrderInv, BufferedInOrder
<1>7. BufferedIsYounger'
  <2> SUFFICES ASSUME NEW c \in Conns, client' = c, phase'[c] # "opening",
                      NEW m \in Fifo!Elements(delivered'), NEW n \in Fifo!Elements(buf'[c])
               PROVE  Fifo!Before(accepted', m, n)
    BY DEF BufferedIsYounger
  <2>1. buf'[c] # <<>>
    BY <1>1
  <2> QED BY <2>1 DEF OrderInv, BufferedIsYounger
<1> QED BY <1>3, <1>4, <1>5, <1>6, <1>7 DEF OrderInv

\* The head of the agent's channel is younger than all that was delivered and older
\* than what is left in the channel.
LEMMA OrderWrite ==
  ASSUME TypeOK, OrderInv, NEW c \in Conns, WriteMessage(c)
  PROVE  /\ OrderInv'
         /\ delivered' # delivered => \E m \in Sends : Fifo!Receive(m)
<1> DEFINE q == buf[c]
           h == Head(buf[c])
<1>1. /\ q \in Seq(Sends) /\ q # <<>>
      /\ accepted \in Seq(Sends) /\ delivered \in Seq(Sends)
      /\ UNCHANGED <<accepted, call, client, phase>>
      /\ buf' = [buf EXCEPT ![c] = Tail(@)]
      /\ phase[c] = "serving"
      /\ delivered' = IF client = c THEN Append(delivered, h) ELSE delivered
  BY DEF TypeOK, WriteMessage, agentVars, sendVars
<1>2. /\ h = q[1] /\ 1 \in 1..Len(q)
      /\ Tail(q) \in Seq(Sends)
      /\ \A i \in 1..Len(Tail(q)) : i + 1 \in 1..Len(q) /\ Tail(q)[i] = q[i + 1]
  BY <1>1, TailElements
<1>3. h \in Sends /\ h \in Fifo!Elements(q)
  BY <1>1, <1>2, ElementOfSeq DEF Fifo!Elements
<1>4. Fifo!Elements(Tail(q)) \subseteq Fifo!Elements(q)
  BY <1>2 DEF Fifo!Elements
<1>5. \A n \in Fifo!Elements(Tail(q)) : Fifo!Before(accepted, h, n)
  <2> SUFFICES ASSUME NEW i \in 1..Len(Tail(q)) PROVE Fifo!Before(accepted, h, Tail(q)[i])
    BY DEF Fifo!Elements
  <2>1. i + 1 \in 1..Len(q) /\ 1 < i + 1 /\ Tail(q)[i] = q[i + 1]
    BY <1>2
  <2>2. Fifo!Before(accepted, q[1], q[i + 1])
    BY <1>2, <2>1 DEF OrderInv, BufferedInOrder
  <2> QED BY <1>2, <2>1, <2>2
<1>6. /\ buf' \in [Conns -> Seq(Sends)]
      /\ buf'[c] = Tail(q)
      /\ \A d \in Conns \ {c} : buf'[d] = buf[d]
  BY <1>1, <1>2 DEF TypeOK
<1> HIDE DEF q, h
<1>7. AcceptedOnce' /\ AcceptedIsSent'
  BY <1>1 DEF OrderInv, AcceptedOnce, AcceptedIsSent
<1>8. BufferedIsAccepted'
  BY <1>1, <1>4, <1>6 DEF OrderInv, BufferedIsAccepted, q
<1>9. BufferedInOrder'
  <2> SUFFICES ASSUME NEW d \in Conns, NEW i \in 1..Len(buf'[d]), NEW j \in 1..Len(buf'[d]), i < j
               PROVE  Fifo!Before(accepted, buf'[d][i], buf'[d][j])
    BY <1>1 DEF BufferedInOrder
  <2>1. CASE d = c
    <3>1. /\ i + 1 \in 1..Len(q) /\ j + 1 \in 1..Len(q) /\ i + 1 < j + 1
          /\ buf'[d][i] = q[i + 1] /\ buf'[d][j] = q[j + 1]
      <4>1. buf'[d] = Tail(q)
        BY <1>6, <2>1
      <4>2. i \in 1..Len(Tail(q)) /\ j \in 1..Len(Tail(q))
        BY <4>1
      <4>3. i \in Int /\ j \in Int
        BY <1>2, <4>2, LenProperties
      <4> QED BY <1>2, <4>1, <4>2, <4>3
    <3>2. Fifo!Before(accepted, q[i + 1], q[j + 1])
      BY <3>1 DEF OrderInv, BufferedInOrder, q
    <3> QED BY <3>1, <3>2
  <2>2. CASE d # c
    BY <1>6, <2>2 DEF OrderInv, BufferedInOrder
  <2> QED BY <2>1, <2>2
<1>10. CASE client # c
  <2>1. delivered' = delivered
    BY <1>1, <1>10
  <2>2. DeliveredIsAccepted'
    BY <1>1, <2>1 DEF OrderInv, DeliveredIsAccepted
  <2>3. BufferedIsYounger'
    BY <1>1, <1>6, <1>10, <2>1 DEF OrderInv, BufferedIsYounger
  <2> QED BY <1>7, <1>8, <1>9, <2>1, <2>2, <2>3 DEF OrderInv
<1>11. CASE client = c
  <2>1. /\ delivered' = Append(delivered, h)
        /\ Fifo!Elements(delivered') = Fifo!Elements(delivered) \union {h}
    BY <1>1, <1>3, <1>11, AppendElements
  <2>2. h \in Fifo!Elements(accepted)
    BY <1>3 DEF OrderInv, BufferedIsAccepted, q
  <2>3. \A m \in Fifo!Elements(delivered) : Fifo!Before(accepted, m, h)
    BY <1>1, <1>3, <1>11 DEF OrderInv, BufferedIsYounger, q
  <2>4. h \notin Fifo!Elements(delivered)
    <3>1. ~Fifo!Before(accepted, h, h)
      BY <1>1, LenProperties DEF OrderInv, AcceptedOnce, Fifo!Before
    <3> QED BY <2>3, <3>1
  <2>5. DeliveredIsAccepted'
    BY <1>1, <2>1, <2>2 DEF OrderInv, DeliveredIsAccepted
  <2>6. BufferedIsYounger'
    <3> SUFFICES ASSUME NEW m \in Fifo!Elements(delivered'), NEW n \in Fifo!Elements(buf'[c])
                 PROVE  Fifo!Before(accepted, m, n)
      BY <1>1, <1>11 DEF BufferedIsYounger
    <3>1. n \in Fifo!Elements(q) /\ Fifo!Before(accepted, h, n)
      BY <1>4, <1>5, <1>6
    <3>2. CASE m = h
      BY <3>1, <3>2
    <3>3. CASE m \in Fifo!Elements(delivered)
      BY <1>1, <1>11, <3>1, <3>3 DEF OrderInv, BufferedIsYounger, q
    <3> QED BY <2>1, <3>2, <3>3
  <2>7. Fifo!Receive(h)
    BY <1>1, <2>1, <2>2, <2>3, <2>4 DEF Fifo!Receive
  <2> QED BY <1>3, <1>7, <1>8, <1>9, <2>5, <2>6, <2>7 DEF OrderInv
<1> QED BY <1>10, <1>11

\* An accepted message is new, and younger than all that was accepted before it.
LEMMA OrderPut ==
  ASSUME TypeOK, OrderInv, NEW s \in Sends, SendPut(s)
  PROVE  /\ OrderInv'
         /\ accepted' # accepted => Fifo!Send(s)
<1> DEFINE c == held[s]
<1>1. /\ accepted \in Seq(Sends)
      /\ UNCHANGED <<client, phase, delivered>>
      /\ call[s] = "held"
  BY DEF TypeOK, SendPut, agentVars
<1>2. CASE UNCHANGED <<buf, accepted>>
  <2>1. \A r \in Sends : call[r] = "sent" => call'[r] = "sent"
    BY <1>1, <1>2 DEF SendPut, TypeOK
  <2> QED BY <1>1, <1>2, <2>1, OrderFrame
<1>3. CASE /\ buf' = [buf EXCEPT ![c] = Append(@, s)]
           /\ call' = [call EXCEPT ![s] = "sent"]
           /\ accepted' = Append(accepted, s)
  <2>1. /\ Fifo!Elements(accepted') = Fifo!Elements(accepted) \union {s}
        /\ \A a, b : Fifo!Before(accepted, a, b) => Fifo!Before(accepted', a, b)
        /\ \A a \in Fifo!Elements(accepted) : Fifo!Before(accepted', a, s)
    BY <1>1, <1>3, AppendElements
  <2>2. s \notin Fifo!Elements(accepted)
    BY <1>1 DEF OrderInv, AcceptedIsSent
  <2>3. AcceptedOnce'
    <3>1. /\ Len(accepted) \in Nat
          /\ Len(accepted') = Len(accepted) + 1
          /\ \A i \in 1..Len(accepted) : accepted'[i] = accepted[i]
          /\ accepted'[Len(accepted) + 1] = s
      BY <1>1, <1>3, AppendProperties, LenProperties
    <3>2. \A i \in 1..Len(accepted) : accepted[i] # s
      BY <2>2 DEF Fifo!Elements
    <3> QED BY <3>1, <3>2 DEF OrderInv, AcceptedOnce
  <2>4. AcceptedIsSent'
    <3>1. Fifo!Elements(accepted) \subseteq Sends
      BY <1>1, ElementOfSeq DEF Fifo!Elements
    <3> QED BY <1>3, <2>1, <3>1 DEF OrderInv, AcceptedIsSent, TypeOK
  <2>5. DeliveredIsAccepted'
    BY <1>1, <2>1 DEF OrderInv, DeliveredIsAccepted
  <2>6. ASSUME NEW d \in Conns
        PROVE  /\ d # c => buf'[d] = buf[d]
               /\ d = c => /\ Fifo!Elements(buf'[d]) = Fifo!Elements(buf[d]) \union {s}
                           /\ Len(buf[d]) \in Nat
                           /\ Len(buf'[d]) = Len(buf[d]) + 1
                           /\ \A i \in 1..Len(buf[d]) : buf'[d][i] = buf[d][i]
                           /\ buf'[d][Len(buf[d]) + 1] = s
    <3>1. CASE d # c
      BY <1>3, <3>1 DEF TypeOK
    <3>2. CASE d = c
      <4>1. buf'[d] = Append(buf[d], s) /\ buf[d] \in Seq(Sends)
        BY <1>3, <3>2 DEF TypeOK
      <4> HIDE DEF c
      <4> QED BY <3>2, <4>1, AppendElements, AppendProperties, LenProperties
    <3> QED BY <3>1, <3>2
  <2> HIDE DEF c
  <2>7. BufferedIsAccepted'
    BY <2>1, <2>6 DEF OrderInv, BufferedIsAccepted
  <2>8. BufferedInOrder'
    <3> SUFFICES ASSUME NEW d \in Conns, NEW i \in 1..Len(buf'[d]), NEW j \in 1..Len(buf'[d]),
                        i < j
                 PROVE  Fifo!Before(accepted', buf'[d][i], buf'[d][j])
      BY DEF BufferedInOrder
    <3>1. CASE d = c /\ j = Len(buf[d]) + 1
      <4>1. i \in 1..Len(buf[d]) /\ buf'[d][i] = buf[d][i] /\ buf'[d][j] = s
        BY <2>6, <3>1
      <4>2. buf[d][i] \in Fifo!Elements(accepted)
        BY <4>1 DEF OrderInv, BufferedIsAccepted, Fifo!Elements
      <4> QED BY <2>1, <4>1, <4>2
    <3>2. CASE ~(d = c /\ j = Len(buf[d]) + 1)
      <4>1. /\ i \in 1..Len(buf[d]) /\ j \in 1..Len(buf[d])
            /\ buf'[d][i] = buf[d][i] /\ buf'[d][j] = buf[d][j]
        BY <2>6, <3>2
      <4>2. Fifo!Before(accepted, buf[d][i], buf[d][j])
        BY <4>1 DEF OrderInv, BufferedInOrder
      <4> QED BY <2>1, <4>1, <4>2
    <3> QED BY <3>1, <3>2
  <2>9. BufferedIsYounger'
    <3> SUFFICES ASSUME NEW d \in Conns, client = d, phase[d] # "opening",
                        NEW m \in Fifo!Elements(delivered), NEW n \in Fifo!Elements(buf'[d])
                 PROVE  Fifo!Before(accepted', m, n)
      BY <1>1 DEF BufferedIsYounger
    <3>1. CASE n = s
      <4>1. m \in Fifo!Elements(accepted)
        BY DEF OrderInv, DeliveredIsAccepted
      <4> QED BY <2>1, <3>1, <4>1
    <3>2. CASE n # s
      <4>1. n \in Fifo!Elements(buf[d])
        BY <2>6, <3>2
      <4>2. Fifo!Before(accepted, m, n)
        BY <4>1 DEF OrderInv, BufferedIsYounger
      <4> QED BY <2>1, <4>2
    <3> QED BY <3>1, <3>2
  <2>10. Fifo!Send(s)
    BY <1>1, <1>3, <2>2 DEF Fifo!Send
  <2> QED BY <2>3, <2>4, <2>5, <2>7, <2>8, <2>9, <2>10 DEF OrderInv
<1> QED BY <1>2, <1>3 DEF SendPut

LEMMA OrderStep ==
  TypeOK /\ OrderInv /\ [Next]_vars => OrderInv' /\ [Fifo!Next]_(Fifo!vars)
<1> SUFFICES ASSUME TypeOK, OrderInv, [Next]_vars
             PROVE  OrderInv' /\ [Fifo!Next]_(Fifo!vars)
  OBVIOUS
<1> USE DEF agentVars, brokerVars, sendVars, historyVars
<1>1. ASSUME OrderInv', UNCHANGED <<accepted, delivered>>
      PROVE  OrderInv' /\ [Fifo!Next]_(Fifo!vars)
  BY <1>1 DEF Fifo!vars
<1>2. CASE Register \/ Disconnect \/ UNCHANGED vars
  <2>1. /\ UNCHANGED <<accepted, delivered, buf, call, phase>>
        /\ client' \in {client, NoConn}
    BY <1>2 DEF Register, Disconnect, vars
  <2> QED BY <1>1, <2>1, OrderFrame, StreamAssumption
<1>3. ASSUME ProcessEnds, UNCHANGED <<accepted, delivered>>,
             \A r \in Sends : call[r] = "sent" => call'[r] = "sent"
      PROVE  OrderInv' /\ [Fifo!Next]_(Fifo!vars)
  <2>1. \A c \in Conns : buf'[c] = <<>>
    BY <1>3 DEF ProcessEnds
  <2> QED BY <1>1, <1>3, <2>1, OrderFrame
<1>4. CASE ServerRestart
  <2>1. \A r \in Sends : call[r] = "sent" => call'[r] = "sent"
    BY <1>4 DEF ServerRestart
  <2> QED BY <1>3, <1>4, <2>1 DEF ServerRestart
<1>5. ASSUME NEW c \in Conns, Connect(c) \/ LoopEnds(c) \/ Unsubscribe(c) \/ MarkOffline(c)
      PROVE  OrderInv' /\ [Fifo!Next]_(Fifo!vars)
  <2>1. UNCHANGED <<accepted, delivered, buf, call>>
    BY <1>5 DEF Connect, LoopEnds, Unsubscribe, MarkOffline
  <2>2. ASSUME NEW d \in Conns, client' = d, phase'[d] # "opening"
        PROVE  client = d /\ phase[d] # "opening"
    BY <1>5, <2>2, StreamAssumption DEF TypeOK, Connect, LoopEnds, Unsubscribe, MarkOffline
  <2> QED BY <1>1, <2>1, <2>2, OrderFrame
<1>6. ASSUME NEW c \in Conns, Subscribe(c)
      PROVE  OrderInv' /\ [Fifo!Next]_(Fifo!vars)
  <2>1. /\ UNCHANGED <<accepted, delivered, call, client>>
        /\ \A d \in Conns : d # c => buf'[d] = buf[d] /\ phase'[d] = phase[d]
        /\ buf'[c] = <<>>
    BY <1>6 DEF Subscribe, TypeOK
  <2> QED BY <1>1, <2>1, OrderFrame
<1>7. ASSUME NEW c \in Conns, WriteMessage(c)
      PROVE  OrderInv' /\ [Fifo!Next]_(Fifo!vars)
  <2>1. accepted' = accepted
    BY <1>7 DEF WriteMessage
  <2>2. CASE delivered' = delivered
    BY <1>1, <1>7, <2>1, <2>2, OrderWrite
  <2>3. CASE delivered' # delivered
    BY <1>7, <2>3, OrderWrite DEF Fifo!Next
  <2> QED BY <2>2, <2>3
<1>8. ASSUME NEW s \in Sends, SendLookup(s)
      PROVE  OrderInv' /\ [Fifo!Next]_(Fifo!vars)
  <2>1. /\ UNCHANGED <<accepted, delivered, buf, client, phase>>
        /\ \A r \in Sends : call[r] = "sent" => call'[r] = "sent"
    BY <1>8 DEF SendLookup, TypeOK
  <2> QED BY <1>1, <2>1, OrderFrame
<1>9. ASSUME NEW s \in Sends, SendPut(s)
      PROVE  OrderInv' /\ [Fifo!Next]_(Fifo!vars)
  <2>1. delivered' = delivered
    BY <1>9 DEF SendPut
  <2>2. CASE accepted' = accepted
    BY <1>1, <1>9, <2>1, <2>2, OrderPut
  <2>3. CASE accepted' # accepted
    BY <1>9, <2>3, OrderPut DEF Fifo!Next
  <2> QED BY <2>2, <2>3
<1>10. ASSUME NEW s \in Sends, SendPanics(s)
       PROVE  OrderInv' /\ [Fifo!Next]_(Fifo!vars)
  <2>1. /\ UNCHANGED <<accepted, delivered>>
        /\ \A r \in Sends : call[r] = "sent" => call'[r] = "sent"
    BY <1>10 DEF SendPanics, TypeOK
  <2>2. CASE ProcessEnds
    BY <1>3, <2>1, <2>2
  <2>3. CASE UNCHANGED <<agentVars, status, phase, brokerVars>>
    BY <1>1, <2>1, <2>3, OrderFrame
  <2> QED BY <1>10, <2>2, <2>3 DEF SendPanics
<1> QED BY <1>2, <1>4, <1>5, <1>6, <1>7, <1>8, <1>9, <1>10 DEF Next, Handler

\* Whatever connections overlap, break or are cut off, and whatever restarts, an
\* agent receives a message at most once, only if Send answered true, and in the
\* order of those answers.
THEOREM RefinesLossyFifo == Spec => InOrderAtMostOnce
<1>1. Init => Fifo!Init
  BY DEF Init, Fifo!Init
<1> QED BY <1>1, TypeInit, TypeStep, OrderInit, OrderStep, PTL
        DEF Spec, InOrderAtMostOnce, Fifo!Spec
=============================================================================
