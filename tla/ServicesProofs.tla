--------------------------- MODULE ServicesProofs ---------------------------
(***************************************************************************)
(* The safety of the services, for any visitors, agents, browsers,         *)
(* clients, indexers and bounds: an inductive invariant for each part,     *)
(* kept by its steps, and by those of the others, which do not touch it.   *)
(***************************************************************************)
EXTENDS Services, FiniteSetTheorems, WellFoundedInduction, TLAPS

\* The bounds, one by one.
LEMMA Limits ==
  /\ MaxTime \in Nat /\ MaxNonce \in Nat /\ MaxCode \in Nat /\ MaxToken \in Nat
  /\ MaxFaults \in Nat /\ MaxChange \in Nat /\ MaxLeave \in Nat /\ MaxNumber \in Nat
  /\ MaxVersion \in Nat \ {0} /\ MaxMishaps \in Nat /\ MaxId \in Nat /\ MaxClient \in Nat
  /\ NonceLife \in Nat /\ OtpLife \in Nat /\ SessionLife \in Nat
  /\ authRateMaxAttempts \in Nat \ {0} /\ authRateWindow \in Nat \ {0}
  /\ Capacity \in Nat \ {0} /\ ChanSize \in Nat \ {0} /\ NotFoundThreshold \in Nat \ {0}
  BY LimitAssumption

\* Sessions, agents and deletions keep the form the code gives them
\* (agents.go:27-186).
LEMMA AgentInit == Agent!Init => Agent!TypeOK /\ Agent!SessionsOfTheListed
  BY Limits DEF Agent!Init, Agent!TypeOK, Agent!NotDeleting, Agent!SessionsOfTheListed

\* Each step of agents, deletions and faults keeps those forms.
LEMMA AgentTypeStep ==
  ASSUME Agent!TypeOK, [Agent!Next]_agentVars PROVE Agent!TypeOK'
<1> USE Limits DEF Agent!TypeOK
<1>0. CASE UNCHANGED agentVars
  BY <1>0 DEF agentVars
<1>1. ASSUME NEW a \in Agents, Agent!GetAgentChallenge(a) PROVE Agent!TypeOK'
  BY <1>1 DEF Agent!GetAgentChallenge
<1>2. ASSUME NEW a \in Agents, Agent!StoreAgentSession(a) PROVE Agent!TypeOK'
  <2>1. CASE a \in agentNonces
    BY <1>2, <2>1 DEF Agent!StoreAgentSession
  <2>2. CASE a \notin agentNonces
    BY <1>2, <2>2 DEF Agent!StoreAgentSession
  <2> QED BY <2>1, <2>2
<1>3. ASSUME NEW a \in Agents, Agent!Register(a) PROVE Agent!TypeOK'
  BY <1>3 DEF Agent!Register, Agent!Fault
<1>4. ASSUME NEW a \in Agents, Agent!ListenSSE(a) PROVE Agent!TypeOK'
  BY <1>4 DEF Agent!ListenSSE
<1>5. ASSUME NEW a \in Agents, Agent!StreamEnds(a) PROVE Agent!TypeOK'
  BY <1>5 DEF Agent!StreamEnds, Agent!Fault
<1>6. ASSUME NEW a \in Agents, Agent!ExpireNonce(a) PROVE Agent!TypeOK'
  BY <1>6 DEF Agent!ExpireNonce, Agent!Fault
<1>7. ASSUME NEW d \in Deleters, Agent!DeleteAgent(d) PROVE Agent!TypeOK'
  <2>1. CASE deleting[d].step = "found"
    <3>1. deleting' = [deleting EXCEPT ![d].step = "removed"]
      BY <1>7, <2>1 DEF Agent!DeleteAgent
    <3>2. deleting' \in [Deleters -> [step : {"none", "found", "removed"}, agent : Agents \union {None}]]
      BY <3>1
    <3> QED BY <1>7, <2>1, <3>2 DEF Agent!DeleteAgent
  <2>2. CASE deleting[d].step = "removed"
    <3>1. /\ agentSessionMap' \subseteq agentSessionMap
          /\ deleting' = [deleting EXCEPT ![d] = Agent!NotDeleting]
      BY <1>7, <2>2 DEF Agent!DeleteAgent, Agent!SessionsOf
    <3>2. deleting' \in [Deleters -> [step : {"none", "found", "removed"}, agent : Agents \union {None}]]
      BY <3>1 DEF Agent!NotDeleting
    <3> QED BY <1>7, <2>2, <3>1, <3>2 DEF Agent!DeleteAgent
  <2> QED BY <1>7, <2>1, <2>2 DEF Agent!DeleteAgent
<1>8. ASSUME NEW d \in Deleters, NEW a \in Agents, Agent!FindAgent(d, a) PROVE Agent!TypeOK'
  BY <1>8 DEF Agent!FindAgent, Agent!Fault
<1>9. CASE Agent!ExpireSession
  BY <1>9 DEF Agent!ExpireSession, Agent!Fault
<1>10. CASE Agent!Restart
  <2>1. agent' \in [Agents -> [step : {"out", "challenged", "stored", "in", "stream"}, token : 0..lastToken]]
    BY <1>10 DEF Agent!Restart
  <2> QED BY <1>10, <2>1 DEF Agent!Restart, Agent!NotDeleting, Agent!Fault
<1> QED
  BY <1>0, <1>1, <1>2, <1>3, <1>4, <1>5, <1>6, <1>7, <1>8, <1>9, <1>10 DEF Agent!Next, Agent!Step

\* What SessionsOfTheListed says of a session.
Kept(s) ==
  \/ s.agent \in listed
  \/ agent[s.agent].step = "stored"
  \/ \E d \in Deleters : deleting[d].step # "none" /\ deleting[d].agent = s.agent

\* A registration and a deletion interleave in any way: a session is of an agent that
\* is on the list, is being put there, or is being deleted (agents.go:128-131, :170-171).
LEMMA SessionsStep ==
  ASSUME Agent!TypeOK, Agent!SessionsOfTheListed, [Agent!Next]_agentVars
  PROVE  Agent!SessionsOfTheListed'
<1> SUFFICES ASSUME NEW s \in agentSessionMap' PROVE Kept(s)'
  BY DEF Agent!SessionsOfTheListed, Kept
<1> USE DEF Agent!TypeOK, Agent!SessionsOfTheListed, Kept
<1>0. CASE UNCHANGED agentVars
  BY <1>0 DEF agentVars
<1>1. ASSUME NEW a \in Agents, Agent!GetAgentChallenge(a) PROVE Kept(s)'
  BY <1>1 DEF Agent!GetAgentChallenge
<1>2. ASSUME NEW a \in Agents, Agent!StoreAgentSession(a) PROVE Kept(s)'
  <2>1. CASE a \in agentNonces
    BY <1>2, <2>1 DEF Agent!StoreAgentSession
  <2>2. CASE a \notin agentNonces
    BY <1>2, <2>2 DEF Agent!StoreAgentSession
  <2> QED BY <2>1, <2>2
<1>3. ASSUME NEW a \in Agents, Agent!Register(a) PROVE Kept(s)'
  BY <1>3 DEF Agent!Register
<1>4. ASSUME NEW a \in Agents, Agent!ListenSSE(a) PROVE Kept(s)'
  BY <1>4 DEF Agent!ListenSSE
<1>5. ASSUME NEW a \in Agents, Agent!StreamEnds(a) PROVE Kept(s)'
  BY <1>5 DEF Agent!StreamEnds
<1>6. ASSUME NEW a \in Agents, Agent!ExpireNonce(a) PROVE Kept(s)'
  BY <1>6 DEF Agent!ExpireNonce
<1>7. ASSUME NEW d \in Deleters, Agent!DeleteAgent(d) PROVE Kept(s)'
  <2>1. CASE deleting[d].step = "found"
    BY SMTT(40), <1>7, <2>1 DEF Agent!DeleteAgent
  <2>2. CASE deleting[d].step = "removed"
    BY <1>7, <2>2 DEF Agent!DeleteAgent, Agent!SessionsOf
  <2> QED BY <1>7, <2>1, <2>2 DEF Agent!DeleteAgent
<1>8. ASSUME NEW d \in Deleters, NEW a \in Agents, Agent!FindAgent(d, a) PROVE Kept(s)'
  BY <1>8 DEF Agent!FindAgent, Agent!NotDeleting
<1>9. CASE Agent!ExpireSession
  BY <1>9 DEF Agent!ExpireSession
<1>10. CASE Agent!Restart
  BY <1>10 DEF Agent!Restart
<1> QED
  BY <1>0, <1>1, <1>2, <1>3, <1>4, <1>5, <1>6, <1>7, <1>8, <1>9, <1>10 DEF Agent!Next, Agent!Step

-----------------------------------------------------------------------------
(* The update of an agent.                                                 *)

\* The form of the checks, which AgentUpdate's TypeOK leaves out.
ChecksTyped ==
  check \in [Update!Checks ->
    [step : {"idle", "ask", "download", "write", "start", "test", "rename"}, version : 0..MaxVersion]]

\* A file of the device has bytes of one version, as a second version slips in (slipped).
Pure(f) == \E v \in f.versions : f.versions = {v}

\* Between a check's test and its rename no other writes the file that was tested, unless
\* one of them has opened it (slipped): it is whole, if it is there.
TestedIsWhole ==
  ~slipped /\ tmp # None =>
    /\ Pure(tmp)
    /\ Update!At("test") \union Update!At("rename") # {} => tmp.unfinished = {}

\* Who writes, writes a version.
WritesVersion == \A c \in Update!At("write") : check[c].version \in 1..MaxVersion

FileForm == [versions : SUBSET (1..MaxVersion), unfinished : SUBSET Update!Checks]

FileInv ==
  /\ Update!TypeOK /\ version \in 1..MaxVersion /\ ChecksTyped
  /\ TestedIsWhole /\ Update!BinaryIsWhole

UpdateInv == FileInv /\ WritesVersion

\* No check runs at first, and the binary is whole.
LEMMA UpdateInit == Update!Init => UpdateInv
<1> SUFFICES ASSUME Update!Init PROVE UpdateInv
  OBVIOUS
<1>1. exe = [versions |-> {1}, unfinished |-> {}] /\ tmp = None
  BY DEF Update!Init, Update!Binary
<1>2. exe \in FileForm /\ Update!Whole(exe)
  BY <1>1, Limits DEF FileForm, Update!Whole
<1> QED
  BY <1>1, <1>2, Limits DEF Update!Init, UpdateInv, FileInv, WritesVersion, Update!TypeOK, ChecksTyped,
     TestedIsWhole, FileForm, Update!BinaryIsWhole, Update!Checks, Update!Idle, Update!At

\* A check goes from one step to the next, or ends.
LEMMA CheckGoesOn ==
  ASSUME ChecksTyped, NEW c \in Update!Checks,
         NEW s \in {"idle", "ask", "download", "write", "start", "test", "rename"},
         NEW v \in 0..MaxVersion, check' = [check EXCEPT ![c] = [step |-> s, version |-> v]]
  PROVE  /\ ChecksTyped'
         /\ \A d \in Update!Checks : check'[d] = IF d = c THEN [step |-> s, version |-> v] ELSE check[d]
  BY DEF ChecksTyped

\* Checks, faults and deployments keep the files whole, whatever their order.
LEMMA FileStep == ASSUME UpdateInv, [Update!Next]_updateVars PROVE FileInv'
<1> USE Limits
<1>0. CASE UNCHANGED updateVars
  BY <1>0 DEF updateVars, UpdateInv, FileInv, Update!TypeOK, ChecksTyped, TestedIsWhole,
     Update!BinaryIsWhole, Update!Whole, Pure, Update!At
<1>1. CASE Update!Deploy
  BY <1>1 DEF Update!Deploy, UpdateInv, FileInv, Update!TypeOK, ChecksTyped, TestedIsWhole,
     Update!BinaryIsWhole, Update!Whole, Pure, Update!At
<1>2. CASE Update!Start
  BY <1>2 DEF Update!Start, UpdateInv, FileInv, Update!TypeOK, ChecksTyped, TestedIsWhole,
     Update!BinaryIsWhole, Update!Whole, Pure, Update!At
<1>3. CASE Update!Register
  <2>1. check' = [check EXCEPT !["connect"].step = "ask"] /\ UNCHANGED <<tmp, exe, slipped>>
    BY <1>3 DEF Update!Register
  <2>2. ChecksTyped'
    BY <2>1 DEF UpdateInv, FileInv, ChecksTyped
  <2>3. \A s \in {"test", "rename"} : Update!At(s)' \subseteq Update!At(s)
    BY <2>1 DEF UpdateInv, FileInv, ChecksTyped, Update!At
  <2>4. TestedIsWhole'
    BY <2>1, <2>3 DEF UpdateInv, FileInv, TestedIsWhole, Pure
  <2>5. Update!TypeOK'
    BY <1>3 DEF Update!Register, UpdateInv, FileInv, Update!TypeOK
  <2> QED BY <1>3, <2>2, <2>4, <2>5 DEF Update!Register, UpdateInv, FileInv, Update!BinaryIsWhole, Update!Whole
<1>4. CASE Update!OpenStream \/ Update!StreamEnds
  BY <1>4 DEF Update!OpenStream, Update!StreamEnds, UpdateInv, FileInv, Update!TypeOK, ChecksTyped, TestedIsWhole,
     Update!BinaryIsWhole, Update!Whole, Pure, Update!At
<1>5. CASE Update!CheckUpdate
  <2>1. CASE UNCHANGED check
    BY <1>5, <2>1 DEF Update!CheckUpdate, UpdateInv, FileInv, Update!TypeOK, ChecksTyped, TestedIsWhole,
     Update!BinaryIsWhole, Update!Whole, Pure, Update!At
  <2>2. CASE mode = "stream"
    <3>1. PICK c \in Events : check' = [check EXCEPT ![c].step = "ask"]
      BY <1>5, <2>2 DEF Update!CheckUpdate
    <3>2. c \in Update!Checks
      BY DEF Update!Checks
    <3>3. ChecksTyped'
      BY <3>1, <3>2 DEF UpdateInv, FileInv, ChecksTyped
    <3>4. \A s \in {"test", "rename"} : Update!At(s)' \subseteq Update!At(s)
      BY <3>1, <3>2 DEF UpdateInv, FileInv, ChecksTyped, Update!At
    <3>5. TestedIsWhole'
      BY <1>5, <3>4 DEF UpdateInv, FileInv, TestedIsWhole, Pure, Update!CheckUpdate
    <3>6. Update!TypeOK'
      BY <1>5, <2>2 DEF Update!CheckUpdate, UpdateInv, FileInv, Update!TypeOK
    <3> QED BY <1>5, <3>3, <3>5, <3>6 DEF Update!CheckUpdate, UpdateInv, FileInv, Update!BinaryIsWhole, Update!Whole
  <2> QED BY <1>5, <2>1, <2>2 DEF Update!CheckUpdate
<1>6. ASSUME Update!Exit, UNCHANGED <<version, hosted, running, registered, slipped>>,
             tmp' \in FileForm \union {None}, slipped \/ tmp' = None \/ Pure(tmp'),
             exe' \in FileForm, slipped \/ Update!Whole(exe')
      PROVE  FileInv'
  <2>1. \A s \in {"test", "rename", "write"} : Update!At(s)' = {}
    BY <1>6 DEF Update!Exit, Update!At, Update!Idle
  <2>2. ChecksTyped'
    BY <1>6 DEF Update!Exit, ChecksTyped, Update!Idle
  <2>3. Update!TypeOK'
    BY <1>6 DEF Update!Exit, UpdateInv, FileInv, Update!TypeOK, Update!Idle, FileForm
  <2> QED BY <1>6, <2>1, <2>2, <2>3 DEF UpdateInv, FileInv, TestedIsWhole, Update!BinaryIsWhole, Pure, Update!Whole
<1>7. CASE Update!Crash \/ (\E c \in Update!Checks : Update!LoseDownload(c))
  <2>1. Update!Exit /\ UNCHANGED <<version, hosted, running, registered, slipped, tmp, exe>>
    BY <1>7 DEF Update!Crash, Update!LoseDownload
  <2> QED BY <1>6, <2>1 DEF UpdateInv, FileInv, Update!TypeOK, Update!BinaryIsWhole, TestedIsWhole, FileForm
<1>8. ASSUME NEW c \in Update!Checks, Update!AskVersion(c) \/ Update!Refused(c) PROVE FileInv'
  <2>1. /\ \E s \in {"idle", "download"}, v \in 0..MaxVersion :
              check' = [check EXCEPT ![c] = [step |-> s, version |-> v]]
        /\ UNCHANGED <<slipped, exe, tmp, version>>
    BY <1>8 DEF Update!AskVersion, Update!Refused, Update!Ends, Update!Idle, UpdateInv, FileInv, ChecksTyped
  <2>2. ChecksTyped'
    BY <2>1 DEF UpdateInv, FileInv, ChecksTyped
  <2>3. \A s \in {"test", "rename"} : Update!At(s)' \subseteq Update!At(s)
    BY <2>1 DEF UpdateInv, FileInv, ChecksTyped, Update!At
  <2>4. mode # "down" /\ UNCHANGED <<mode, hosted, running, registered>>
    BY <1>8 DEF Update!AskVersion, Update!Refused, UpdateInv, FileInv, Update!TypeOK
  <2>5. Update!TypeOK'
    BY <2>1, <2>4 DEF UpdateInv, FileInv, Update!TypeOK
  <2> QED BY <2>1, <2>2, <2>3, <2>5 DEF UpdateInv, FileInv, TestedIsWhole, Pure, Update!BinaryIsWhole, Update!Whole
<1>9. ASSUME NEW c \in Update!Checks, Update!Download(c) PROVE FileInv'
  <2>1. mode # "down" /\ UNCHANGED <<mode, hosted, version, running, registered, exe>>
    BY <1>9 DEF Update!Download, UpdateInv, FileInv, Update!TypeOK
  <2>2. CASE tmp # None /\ Update!At("test") # {}
    <3>1. check' = [check EXCEPT ![c] = Update!Idle] /\ UNCHANGED <<tmp, slipped>>
      BY <1>9, <2>2 DEF Update!Download, Update!Ends
    <3>2. ChecksTyped'
      BY <3>1 DEF UpdateInv, FileInv, ChecksTyped, Update!Idle
    <3>3. \A s \in {"test", "rename"} : Update!At(s)' \subseteq Update!At(s)
      BY <3>1 DEF UpdateInv, FileInv, ChecksTyped, Update!At, Update!Idle
    <3>4. Update!TypeOK'
      BY <2>1, <3>1 DEF UpdateInv, FileInv, Update!TypeOK
    <3> QED BY <2>1, <3>1, <3>2, <3>3, <3>4
        DEF UpdateInv, FileInv, TestedIsWhole, Pure, Update!BinaryIsWhole, Update!Whole
  <2>3. CASE ~(tmp # None /\ Update!At("test") # {})
    <3> DEFINE mixed == {check[w].version : w \in Update!Writers} \ {hosted}
               tested == Update!At("test") \union Update!At("rename")
               opened == [versions |-> mixed \union {hosted}, unfinished |-> Update!Writers \union {c}]
    <3>1. /\ tmp' = opened /\ slipped' = (slipped \/ mixed # {} \/ tested # {})
          /\ check' = [check EXCEPT ![c] = [step |-> "write", version |-> hosted]]
      BY <1>9, <2>3 DEF Update!Download
    <3>2. hosted \in 1..MaxVersion /\ Update!Writers \subseteq Update!Checks
      BY DEF UpdateInv, FileInv, Update!TypeOK, Update!Writers, Update!At
    <3>3. tmp' \in FileForm
      <4>1. mixed \subseteq 1..MaxVersion
        <5>1. ASSUME NEW w \in Update!Writers PROVE check[w].version \in 1..MaxVersion
          BY DEF UpdateInv, WritesVersion, Update!Writers
        <5> QED BY <5>1
      <4> HIDE DEF mixed
      <4>2. opened \in FileForm
        BY <3>2, <4>1 DEF FileForm
      <4> QED BY <3>1, <4>2
    <3>4. \A s \in {"test", "rename"} : Update!At(s)' \subseteq Update!At(s)
      BY <3>1 DEF UpdateInv, FileInv, ChecksTyped, Update!At
    <3>5. ChecksTyped'
      BY <3>1, <3>2 DEF UpdateInv, FileInv, ChecksTyped
    <3>6. TestedIsWhole'
      <4>1. mixed = {} => opened.versions = {hosted}
        OBVIOUS
      <4> HIDE DEF mixed
      <4> QED BY <3>1, <3>4, <4>1 DEF TestedIsWhole, Pure
    <3>7. Update!TypeOK'
      BY <2>1, <3>1, <3>3 DEF UpdateInv, FileInv, Update!TypeOK, FileForm
    <3>8. Update!BinaryIsWhole'
      BY <2>1, <3>1 DEF UpdateInv, FileInv, Update!BinaryIsWhole, Update!Whole
    <3> QED BY <2>1, <3>5, <3>6, <3>7, <3>8 DEF UpdateInv, FileInv
  <2> QED BY <2>2, <2>3
<1>10. ASSUME NEW c \in Update!Checks, Update!Write(c) PROVE FileInv'
  <2>1. check[c].step = "write" /\ UNCHANGED <<slipped, exe, version>>
    BY <1>10 DEF Update!Write
  <2>2. \E s \in {"start", "idle"}, v \in 0..MaxVersion : check' = [check EXCEPT ![c] = [step |-> s, version |-> v]]
    BY <1>10 DEF Update!Write, Update!Ends, Update!Idle, UpdateInv, FileInv, ChecksTyped
  <2>3. ChecksTyped'
    BY <2>2 DEF UpdateInv, FileInv, ChecksTyped
  <2>4. Update!At("test")' \subseteq Update!At("test") /\ Update!At("rename")' \subseteq Update!At("rename")
    BY <2>2 DEF UpdateInv, FileInv, ChecksTyped, Update!At
  <2>5. \/ tmp' = None
        \/ tmp # None /\ tmp' = [versions |-> tmp.versions, unfinished |-> tmp.unfinished \ {c}]
    BY <1>10 DEF Update!Write, UpdateInv, FileInv, Update!TypeOK
  <2>6. TestedIsWhole'
    BY <2>1, <2>4, <2>5 DEF UpdateInv, FileInv, TestedIsWhole, Pure
  <2>7. tmp' \in FileForm \union {None}
    BY <2>5 DEF UpdateInv, FileInv, Update!TypeOK, FileForm
  <2>8. mode # "down" /\ UNCHANGED mode
    BY <1>10 DEF Update!Write, UpdateInv, FileInv, Update!TypeOK
  <2>9. Update!TypeOK'
    BY <1>10, <2>7, <2>8 DEF Update!Write, UpdateInv, FileInv, Update!TypeOK, FileForm
  <2> QED BY <2>1, <2>3, <2>6, <2>9 DEF UpdateInv, FileInv, Update!BinaryIsWhole, Update!Whole
<1>11. ASSUME NEW c \in Update!Checks, Update!StartTest(c) PROVE FileInv'
  <2>1. check[c].step = "start" /\ UNCHANGED <<slipped, exe, version>>
    BY <1>11 DEF Update!StartTest
  <2>2. ChecksTyped'
    BY <1>11 DEF Update!StartTest, Update!Ends, Update!Idle, UpdateInv, FileInv, ChecksTyped
  <2>3. Update!TypeOK'
    BY <1>11 DEF Update!StartTest, Update!Ends, Update!Idle, UpdateInv, FileInv, Update!TypeOK, ChecksTyped
  <2>4. CASE tmp # None /\ tmp.unfinished = {}
    <3>1. UNCHANGED tmp
      BY <1>11, <2>4 DEF Update!StartTest
    <3> QED BY <2>1, <2>2, <2>3, <2>4, <3>1
        DEF UpdateInv, FileInv, TestedIsWhole, Pure, Update!BinaryIsWhole, Update!Whole
  <2>5. CASE ~(tmp # None /\ tmp.unfinished = {})
    <3>1. tmp' = None
      BY <1>11, <2>5 DEF Update!StartTest
    <3> QED BY <2>1, <2>2, <2>3, <3>1 DEF UpdateInv, FileInv, TestedIsWhole, Update!BinaryIsWhole, Update!Whole
  <2> QED BY <2>4, <2>5
<1>12. ASSUME NEW c \in Update!Checks, Update!Test(c) PROVE FileInv'
  <2>1. check[c].step = "test" /\ UNCHANGED <<slipped, exe, version>>
    BY <1>12 DEF Update!Test
  <2>2. ChecksTyped'
    BY <1>12 DEF Update!Test, Update!Ends, Update!Idle, UpdateInv, FileInv, ChecksTyped
  <2>3. Update!TypeOK'
    BY <1>12 DEF Update!Test, Update!Ends, Update!Idle, UpdateInv, FileInv, Update!TypeOK, ChecksTyped
  <2>4. c \in Update!At("test")
    BY <2>1 DEF Update!At
  <2>5. UNCHANGED tmp \/ tmp' = None
    BY <1>12 DEF Update!Test
  <2>6. TestedIsWhole'
    BY <2>1, <2>4, <2>5 DEF UpdateInv, FileInv, TestedIsWhole, Pure
  <2> QED BY <2>1, <2>2, <2>3, <2>6 DEF UpdateInv, FileInv, Update!BinaryIsWhole, Update!Whole
<1>13. ASSUME NEW c \in Update!Checks, Update!Replace(c) PROVE FileInv'
  <2>1. check[c].step = "rename" /\ c \in Update!At("rename")
    BY <1>13 DEF Update!Replace, Update!At
  <2>2. CASE tmp = None
    <3>1. check' = [check EXCEPT ![c] = Update!Idle] /\ UNCHANGED <<tmp, exe, slipped, version>>
      BY <1>13, <2>2 DEF Update!Replace, Update!Ends
    <3>2. ChecksTyped'
      BY <3>1 DEF UpdateInv, FileInv, ChecksTyped, Update!Idle
    <3>3. \A s \in {"test", "rename"} : Update!At(s)' \subseteq Update!At(s)
      BY <3>1 DEF UpdateInv, FileInv, ChecksTyped, Update!At, Update!Idle
    <3>4. Update!TypeOK'
      BY <1>13, <2>2 DEF Update!Replace, Update!Ends, Update!Idle, UpdateInv, FileInv, Update!TypeOK, ChecksTyped
    <3> QED BY <3>1, <3>2, <3>3, <3>4 DEF UpdateInv, FileInv, TestedIsWhole, Update!BinaryIsWhole, Update!Whole
  <2>3. CASE tmp # None
    <3>1. Update!Exit /\ exe' = tmp /\ tmp' = None /\ UNCHANGED <<version, hosted, running, registered, slipped>>
      BY <1>13, <2>3 DEF Update!Replace
    <3>2. slipped \/ Update!Whole(tmp)
      BY <2>1, <2>3 DEF UpdateInv, FileInv, TestedIsWhole, Pure, Update!Whole
    <3>3. slipped \/ Update!Whole(exe')
      BY <3>1, <3>2 DEF Update!Whole
    <3> QED BY <1>6, <2>3, <3>1, <3>3 DEF UpdateInv, FileInv, Update!TypeOK, FileForm
  <2> QED BY <2>2, <2>3
<1> QED
  BY <1>0, <1>1, <1>2, <1>3, <1>4, <1>5, <1>7, <1>8, <1>9, <1>10, <1>11, <1>12, <1>13
  DEF Update!Next, Update!Proceed

\* A check writes a version when it opens its file, and the same until it ends.
LEMMA VersionStep == ASSUME UpdateInv, [Update!Next]_updateVars PROVE WritesVersion'
<1> USE DEF UpdateInv, FileInv, ChecksTyped, WritesVersion, Update!At
<1>1. ASSUME NEW c \in Update!Checks, Update!Download(c) PROVE WritesVersion'
  BY <1>1 DEF Update!Download, Update!Ends, Update!Idle, Update!TypeOK
<1>2. ASSUME NEW c \in Update!Checks,
             \/ Update!AskVersion(c) \/ Update!Refused(c) \/ Update!Write(c)
             \/ Update!StartTest(c) \/ Update!Test(c)
      PROVE  WritesVersion'
  <2>1. PICK s \in {"idle", "download", "start", "test", "rename"} :
          \/ check' = [check EXCEPT ![c].step = s]
          \/ check' = [check EXCEPT ![c] = Update!Idle]
    BY <1>2 DEF Update!AskVersion, Update!Refused, Update!Write, Update!StartTest, Update!Test, Update!Ends
  <2> QED BY <2>1 DEF Update!Idle
<1>3. ASSUME Update!Exit PROVE WritesVersion'
  BY <1>3 DEF Update!Exit, Update!Idle
<1>4. ASSUME NEW c \in Update!Checks, Update!Replace(c) PROVE WritesVersion'
  BY <1>3, <1>4 DEF Update!Replace, Update!Ends, Update!Idle
<1>5. CASE Update!Register
  BY <1>5 DEF Update!Register
<1>6. CASE Update!CheckUpdate
  BY <1>6 DEF Update!CheckUpdate, Update!Checks
<1> QED
  BY <1>1, <1>2, <1>3, <1>4, <1>5, <1>6
  DEF Update!Next, Update!Proceed, Update!Deploy, Update!Start, Update!OpenStream, Update!StreamEnds,
      Update!Crash, Update!LoseDownload, updateVars

\* Checks, faults and deployments keep the invariant.
LEMMA UpdateStep == ASSUME UpdateInv, [Update!Next]_updateVars PROVE UpdateInv'
  BY FileStep, VersionStep DEF UpdateInv

-----------------------------------------------------------------------------
(* Questions to a device.                                                  *)

\* What a request that has the number i was asked: jobs, results and the handler that
\* waits with that number agree, and no number is beyond the last.
NumbersAreGiven ==
  /\ lastId \in 0..MaxNumber
  /\ \A r \in Askers : handler[r].id \in 0..lastId
  /\ \A x \in jobs \union results : x[1] \in 1..lastId

OwnQuestion ==
  \A r \in Askers : handler[r].step = "waiting" =>
    /\ handler[r].id # 0
    /\ answer[r] \in {None, handler[r].question}
    /\ \A x \in jobs \union results : x[1] = handler[r].id => x[2] = handler[r].question

OneNumberEach ==
  \A r, s \in Askers :
    handler[r].step = "waiting" /\ handler[s].step = "waiting" /\ handler[r].id = handler[s].id
      => r = s

RequestInv ==
  /\ Ask!TypeOK /\ NumbersAreGiven /\ OwnQuestion /\ OneNumberEach
  /\ Ask!RightAnswer /\ Ask!PendingIsWaitedFor

\* At first nobody asks.
LEMMA RequestInit == Ask!Init => RequestInv
  BY Limits DEF Ask!Init, Ask!NoRequest, RequestInv, Ask!TypeOK, NumbersAreGiven, OwnQuestion,
     OneNumberEach, Ask!RightAnswer, Ask!PendingIsWaitedFor

\* A handler that takes an answer, or gives up, forgets its number.
LEMMA Forgotten ==
  ASSUME RequestInv, NEW r \in Askers, handler[r].step = "waiting",
         NEW step \in {"answered", "late"}, step = "answered" => answer[r] = handler[r].question,
         handler' = [handler EXCEPT ![r].step = step], Ask!Forget(r),
         UNCHANGED <<answer, lastId, jobs, results>>
  PROVE  RequestInv'
<1>1. \A s \in Askers : /\ handler'[s].step = IF s = r THEN step ELSE handler[s].step
                        /\ handler'[s].id = handler[s].id /\ handler'[s].question = handler[s].question
  BY DEF RequestInv, Ask!TypeOK
<1>2. /\ DOMAIN pending' = DOMAIN pending \ {handler[r].id}
      /\ \A i \in DOMAIN pending' : pending'[i] = pending[i]
  BY DEF Ask!Forget, Ask!Restrict
<1>3. Ask!TypeOK'
  <2>1. handler' \in [Askers -> [step : {"none", "waiting", "answered", "late"},
                                 question : Questions \union {None}, id : 0..MaxNumber]]
    BY DEF RequestInv, Ask!TypeOK
  <2> QED BY <1>2, <2>1 DEF RequestInv, Ask!TypeOK
<1>4. Ask!PendingIsWaitedFor'
  BY <1>1, <1>2 DEF RequestInv, Ask!TypeOK, Ask!PendingIsWaitedFor
<1>5. Ask!RightAnswer'
  BY <1>1 DEF RequestInv, Ask!RightAnswer
<1>6. NumbersAreGiven' /\ OwnQuestion' /\ OneNumberEach'
  BY <1>1 DEF RequestInv, NumbersAreGiven, OwnQuestion, OneNumberEach
<1> QED BY <1>3, <1>4, <1>5, <1>6 DEF RequestInv

\* Requests, answers and timeouts keep the invariant, however they interleave.
LEMMA RequestStep == ASSUME RequestInv, [Ask!Next]_requestVars PROVE RequestInv'
<1> USE Limits, NothingAssumption
<1>0. CASE UNCHANGED requestVars
  BY <1>0 DEF requestVars, RequestInv, Ask!TypeOK, NumbersAreGiven, OwnQuestion,
     OneNumberEach, Ask!RightAnswer, Ask!PendingIsWaitedFor
<1>1. ASSUME NEW r \in Askers, NEW q \in Questions, Ask!Ask(r, q) PROVE RequestInv'
  <2> DEFINE id == lastId + 1
  <2>1. /\ lastId' = id /\ id \in 1..MaxNumber /\ id > lastId
        /\ handler' = [handler EXCEPT ![r] = [step |-> "waiting", question |-> q, id |-> id]]
        /\ answer' = [answer EXCEPT ![r] = None]
        /\ pending' = [i \in DOMAIN pending \union {id} |-> IF i = id THEN r ELSE pending[i]]
        /\ jobs' \in {jobs, jobs \union {<<id, q>>}} /\ UNCHANGED results
        /\ handler[r].step = "none"
    BY <1>1 DEF Ask!Ask, Ask!RequestID, RequestInv, NumbersAreGiven
  <2>2. /\ \A s \in Askers : s # r => handler'[s] = handler[s] /\ answer'[s] = answer[s]
        /\ handler'[r].step = "waiting" /\ handler'[r].question = q /\ handler'[r].id = id
        /\ answer'[r] = None
    BY <2>1 DEF RequestInv, Ask!TypeOK
  <2>3. /\ DOMAIN pending' = DOMAIN pending \union {id} /\ pending'[id] = r
        /\ \A i \in DOMAIN pending : i # id => pending'[i] = pending[i]
    BY <2>1
  <2>4. jobs' \union results' \subseteq (jobs \union results) \union {<<id, q>>}
    BY <2>1
  <2>5. Ask!TypeOK'
    BY <2>1, <2>3, <2>4 DEF RequestInv, Ask!TypeOK
  <2>6. NumbersAreGiven'
    BY <2>1, <2>2, <2>4 DEF RequestInv, NumbersAreGiven
  <2>7. OneNumberEach'
    BY <2>1, <2>2 DEF RequestInv, NumbersAreGiven, OneNumberEach
  <2>8. OwnQuestion'
    BY <2>1, <2>2, <2>4 DEF RequestInv, NumbersAreGiven, OwnQuestion
  <2>9. Ask!PendingIsWaitedFor'
    BY <2>1, <2>2, <2>3 DEF RequestInv, NumbersAreGiven, Ask!PendingIsWaitedFor, Ask!TypeOK
  <2>10. Ask!RightAnswer'
    BY <2>2 DEF RequestInv, Ask!RightAnswer
  <2> QED BY <2>5, <2>6, <2>7, <2>8, <2>9, <2>10 DEF RequestInv
<1>2. ASSUME NEW j \in jobs, Ask!Answer(j) PROVE RequestInv'
  <2>1. jobs' \union results' \subseteq jobs \union results /\ UNCHANGED <<handler, answer, pending, lastId>>
    BY <1>2 DEF Ask!Answer
  <2> QED BY <2>1 DEF RequestInv, Ask!TypeOK, NumbersAreGiven, OwnQuestion,
     OneNumberEach, Ask!RightAnswer, Ask!PendingIsWaitedFor
<1>3. ASSUME NEW x \in results, Ask!Receive(x) PROVE RequestInv'
  <2>1. /\ jobs' \union results' \subseteq jobs \union results /\ UNCHANGED <<handler, pending, lastId>>
        /\ answer' = [r \in Askers |->
                        IF x[1] \in DOMAIN pending /\ pending[x[1]] = r /\ answer[r] = None
                        THEN x[2] ELSE answer[r]]
    BY <1>3 DEF Ask!Receive
  <2>2. x[2] \in Questions
    BY DEF RequestInv, Ask!TypeOK
  <2>3. \A r \in Askers : answer'[r] # answer[r] =>
          answer'[r] = handler[r].question /\ handler[r].step = "waiting"
    BY <2>1 DEF RequestInv, Ask!PendingIsWaitedFor, OwnQuestion
  <2>4. Ask!TypeOK'
    BY <2>1, <2>2 DEF RequestInv, Ask!TypeOK
  <2>5. OwnQuestion'
    BY <2>1, <2>3 DEF RequestInv, OwnQuestion
  <2>6. Ask!RightAnswer'
    BY <2>1, <2>3 DEF RequestInv, Ask!RightAnswer
  <2> QED BY <2>1, <2>4, <2>5, <2>6
          DEF RequestInv, NumbersAreGiven, OneNumberEach, Ask!PendingIsWaitedFor
<1>4. ASSUME NEW r \in Askers, Ask!Respond(r) PROVE RequestInv'
  <2>1. answer[r] = handler[r].question
    BY <1>4 DEF Ask!Respond, RequestInv, OwnQuestion
  <2> QED BY <1>4, <2>1, Forgotten DEF Ask!Respond
<1>5. ASSUME NEW r \in Askers, Ask!TimeOut(r) PROVE RequestInv'
  BY <1>5, Forgotten DEF Ask!TimeOut
<1>6. ASSUME NEW r \in Askers, Ask!Done(r) PROVE RequestInv'
  <2>1. /\ \A s \in Askers : s # r => handler'[s] = handler[s]
        /\ handler'[r].step = "none" /\ handler'[r].id = 0 /\ handler[r].step # "waiting"
        /\ UNCHANGED <<answer, pending, lastId, jobs, results>>
    BY <1>6 DEF Ask!Done, Ask!NoRequest, RequestInv, Ask!TypeOK
  <2>2. Ask!TypeOK'
    BY <1>6 DEF Ask!Done, Ask!NoRequest, RequestInv, Ask!TypeOK
  <2> QED BY <2>1, <2>2 DEF RequestInv, Ask!TypeOK, NumbersAreGiven, OwnQuestion,
     OneNumberEach, Ask!RightAnswer, Ask!PendingIsWaitedFor
<1> QED BY <1>0, <1>1, <1>2, <1>3, <1>4, <1>5, <1>6 DEF Ask!Next

-----------------------------------------------------------------------------
(* The sign-in of a browser.                                               *)

\* The sizes BrowserSessions speaks of are the sizes of the library.
LEMMA BrowserCardinality == ASSUME NEW S PROVE Browser!Cardinality(S) = Cardinality(S)
  BY DEF Cardinality, Browser!Cardinality

\* The forms of requests, attempts and passwords, which BrowserSessions's TypeOK leaves out.
RequestsTyped ==
  request \in [Visitors -> [step : {"idle", "verify", "answer", "otp"}, with : Nat]]

\* A challenge is unanswered, in the hands of one request, or made a session; one request
\* whose answer is looked at has taken it.
NoncesAreTaken ==
  /\ \A r \in Visitors : request[r].step \in {"verify", "answer"} => request[r].with \in 1..challenges
  /\ \A s \in uiSessions, x \in uiNonces : s.nonce # x.nonce
  /\ \A r \in Visitors : request[r].step = "answer" =>
       /\ \A x \in uiNonces : x.nonce # request[r].with
       /\ \A s \in uiSessions : s.nonce # request[r].with
       /\ \A q \in Visitors : request[q].step = "answer" /\ request[q].with = request[r].with => q = r

\* A one-time password that let a request through is not the one that is active.
UsedAreNotActive ==
  /\ activeOTP # {} => codes # 0
  /\ activeOTP = {} \/ \E o \in [code : {codes}, expires : Nat] : activeOTP = {o}
  /\ \A x \in passed : x[2] \in 1..codes
  /\ \A x \in passed, o \in activeOTP : x[2] # o.code

\* What authRateLimitOK leaves out grew old.
OldAreForgotten ==
  /\ IsFiniteSet(tried)
  /\ \A a \in tried : a.at \in 0..now
  /\ \A a \in tried : a.at + authRateWindow > now => a \in authAttempts

BrowserInv ==
  /\ Browser!TypeOK /\ RequestsTyped /\ NoncesAreTaken /\ UsedAreNotActive /\ OldAreForgotten
  /\ Browser!SignInLimited

\* At first nobody has signed in.
LEMMA BrowserInit == Browser!Init => BrowserInv
<1> SUFFICES ASSUME Browser!Init PROVE BrowserInv
  OBVIOUS
<1> USE Limits, FS_EmptySet, BrowserCardinality DEF Browser!Init
<1>1. Browser!TypeOK /\ RequestsTyped
  BY DEF Browser!TypeOK, RequestsTyped, Browser!Idle
<1>2. NoncesAreTaken /\ UsedAreNotActive /\ OldAreForgotten
  BY DEF NoncesAreTaken, UsedAreNotActive, OldAreForgotten, Browser!Idle
<1>3. Browser!RateHolds
  <2> SUFFICES ASSUME NEW t \in 0..now
               PROVE  Cardinality({a \in tried : a.at \in t..(t + authRateWindow - 1)}) <= authRateMaxAttempts
    BY DEF Browser!RateHolds
  <2>1. {a \in tried : a.at \in t..(t + authRateWindow - 1)} = {}
    OBVIOUS
  <2> QED BY <2>1
<1> QED BY <1>1, <1>2, <1>3
        DEF BrowserInv, Browser!SignInLimited, Browser!OneSessionPerNonce, Browser!OneRequestPerOTP

\* Time goes on, and attempts grow old.
LEMMA BrowserTick == ASSUME BrowserInv, Browser!Tick PROVE BrowserInv'
<1> USE Limits
<1>1. /\ now' = now + 1 /\ now' \in 0..MaxTime /\ now \in Nat
      /\ UNCHANGED <<challenges, uiNonces, uiSessions, authAttempts, password, activeOTP, codes,
                     request, tried, passed>>
  BY DEF Browser!Tick, BrowserInv, Browser!TypeOK
<1>2. Browser!TypeOK' /\ RequestsTyped' /\ NoncesAreTaken' /\ UsedAreNotActive'
  BY <1>1 DEF BrowserInv, Browser!TypeOK, RequestsTyped, NoncesAreTaken, UsedAreNotActive
<1>3. OldAreForgotten'
  BY <1>1 DEF BrowserInv, OldAreForgotten
<1>4. Browser!RateHolds'
  <2> SUFFICES ASSUME NEW t \in 0..now'
               PROVE  Cardinality({a \in tried : a.at \in t..(t + authRateWindow - 1)}) <= authRateMaxAttempts
    BY <1>1, BrowserCardinality DEF Browser!RateHolds
  <2>1. CASE t \in 0..now
    BY <2>1, BrowserCardinality DEF BrowserInv, Browser!SignInLimited, Browser!RateHolds
  <2>2. CASE t = now + 1
    <3>1. {a \in tried : a.at \in t..(t + authRateWindow - 1)} = {}
      BY <1>1, <2>2 DEF BrowserInv, OldAreForgotten
    <3> QED BY <3>1, FS_EmptySet
  <2> QED BY <1>1, <2>1, <2>2
<1> QED BY <1>1, <1>2, <1>3, <1>4
        DEF BrowserInv, Browser!SignInLimited, Browser!OneSessionPerNonce, Browser!OneRequestPerOTP

\* A verification counts, with those of the window before it.
LEMMA BrowserAttempt == ASSUME BrowserInv, NEW r \in Visitors, Browser!Attempt(r) PROVE BrowserInv'
<1> USE Limits
<1> DEFINE recent == {a \in authAttempts : a.at + authRateWindow > now}
           attempt == [at |-> now, number |-> Cardinality(tried) + 1]
<1>0. /\ now \in Nat /\ request[r] = Browser!Idle /\ authAttempts \subseteq tried /\ IsFiniteSet(tried)
      /\ UNCHANGED <<now, challenges, uiNonces, uiSessions, password, activeOTP, codes, passed>>
  BY DEF BrowserInv, Browser!TypeOK, OldAreForgotten, Browser!Attempt
<1>1. IsFiniteSet(authAttempts) /\ IsFiniteSet(recent) /\ Cardinality(recent) <= Cardinality(authAttempts)
      /\ Cardinality(authAttempts) \in Nat /\ Cardinality(recent) \in Nat
  <2>1. IsFiniteSet(authAttempts)
    BY <1>0, FS_Subset
  <2>2. recent \in SUBSET authAttempts
    OBVIOUS
  <2> HIDE DEF recent
  <2> QED BY <2>1, <2>2, FS_Subset, FS_CardinalityType
<1>2. attempt.at = now
  OBVIOUS
<1>3. \/ /\ Cardinality(recent) < authRateMaxAttempts
         /\ authAttempts' = recent \union {attempt} /\ tried' = tried \union {attempt}
         /\ \E n \in 1..challenges : request' = [request EXCEPT ![r] = [step |-> "verify", with |-> n]]
      \/ authAttempts' = recent /\ UNCHANGED <<request, tried>>
  BY BrowserCardinality DEF Browser!Attempt, Browser!authRateLimitOK
<1>4. \A a \in tried : a.at + authRateWindow > now => a \in recent
  BY DEF BrowserInv, OldAreForgotten
<1>5. \A a \in recent : a \in tried /\ a \in authAttempts
  BY <1>0
<1>6. RequestsTyped' /\ NoncesAreTaken'
  BY <1>0, <1>3 DEF BrowserInv, Browser!TypeOK, RequestsTyped, NoncesAreTaken, Browser!Idle
<1> HIDE DEF recent, attempt
<1>7. IsFiniteSet(tried') /\ \A a \in tried' : a.at \in 0..now'
  <2>1. IsFiniteSet(tried \union {attempt})
    BY <1>0, FS_AddElement
  <2>2. tried' = tried \/ tried' = tried \union {attempt}
    BY <1>3
  <2>3. \A a \in tried : a.at \in 0..now
    BY DEF BrowserInv, OldAreForgotten
  <2>4. now' = now /\ attempt.at \in 0..now
    BY <1>0, <1>2 DEF BrowserInv, Browser!TypeOK
  <2> QED BY <1>0, <2>1, <2>2, <2>3, <2>4
<1>8. OldAreForgotten'
  BY <1>0, <1>3, <1>4, <1>7 DEF OldAreForgotten
<1>a. /\ IsFiniteSet(recent \union {attempt})
      /\ Cardinality(recent \union {attempt}) <= Cardinality(recent) + 1
  <2>1. /\ IsFiniteSet(recent \union {attempt})
        /\ Cardinality(recent \union {attempt}) =
             IF attempt \in recent THEN Cardinality(recent) ELSE Cardinality(recent) + 1
    BY ONLY <1>1, FS_AddElement
  <2> QED BY ONLY <1>1, <2>1
<1>b. Cardinality(recent \union {attempt}) \in Nat
  BY <1>a, FS_CardinalityType
<1>9. Cardinality(authAttempts') <= authRateMaxAttempts
  <2>1. CASE authAttempts' = recent
    <3>1. Cardinality(authAttempts) <= authRateMaxAttempts
      BY BrowserCardinality DEF BrowserInv, Browser!TypeOK
    <3> QED BY <1>1, <2>1, <3>1
  <2>2. CASE authAttempts' = recent \union {attempt} /\ Cardinality(recent) < authRateMaxAttempts
    BY <1>a, <1>b, <1>1, <2>2
  <2> QED BY <1>3, <2>1, <2>2
<1>10. Browser!TypeOK'
  BY <1>0, <1>3, <1>5, <1>6, <1>9, BrowserCardinality DEF BrowserInv, Browser!TypeOK, RequestsTyped
<1>11. Browser!RateHolds'
  <2> SUFFICES ASSUME NEW t \in 0..now
               PROVE  Cardinality({a \in tried' : a.at \in t..(t + authRateWindow - 1)}) <= authRateMaxAttempts
    BY <1>0, BrowserCardinality DEF Browser!RateHolds
  <2> DEFINE window == {a \in tried : a.at \in t..(t + authRateWindow - 1)}
             window2 == {a \in tried' : a.at \in t..(t + authRateWindow - 1)}
  <2>1. Cardinality(window) <= authRateMaxAttempts
    BY BrowserCardinality DEF BrowserInv, Browser!SignInLimited, Browser!RateHolds
  <2>2. CASE attempt.at \notin t..(t + authRateWindow - 1) \/ tried' = tried
    <3>0. tried' = tried \/ (tried' = tried \union {attempt} /\ attempt.at \notin t..(t + authRateWindow - 1))
      BY <1>3, <2>2
    <3>1. window2 = window
      BY ONLY <3>0 DEF window2, window
    <3> QED BY <2>1, <3>1
  <2>3. CASE attempt.at \in t..(t + authRateWindow - 1) /\ tried' # tried
    <3>1. tried' = tried \union {attempt} /\ Cardinality(recent) < authRateMaxAttempts
      BY <1>3, <2>3
    <3>2. \A a \in window : a \in recent
      BY <1>0, <1>2, <1>4, <2>3 DEF BrowserInv, OldAreForgotten
    <3>3. window2 \in SUBSET (recent \union {attempt})
      BY <3>1, <3>2
    <3>4. IsFiniteSet(recent \union {attempt}) /\ Cardinality(recent \union {attempt}) <= authRateMaxAttempts
      BY <1>a, <1>b, <1>1, <3>1
    <3> HIDE DEF window2
    <3>5. Cardinality(window2) <= Cardinality(recent \union {attempt}) /\ IsFiniteSet(window2)
      BY <3>3, <3>4, FS_Subset
    <3>6. Cardinality(window2) \in Nat /\ Cardinality(recent \union {attempt}) \in Nat
      BY <3>4, <3>5, FS_CardinalityType
    <3>7. Cardinality(window2) <= authRateMaxAttempts
      BY <3>4, <3>5, <3>6
    <3> QED BY <3>7 DEF window2
  <2> QED BY <2>2, <2>3
<1> QED BY <1>0, <1>6, <1>8, <1>10, <1>11
        DEF BrowserInv, Browser!SignInLimited, Browser!OneSessionPerNonce, Browser!OneRequestPerOTP,
            UsedAreNotActive

\* Steps that leave time and attempts alone.
RateKept == UNCHANGED <<now, authAttempts, tried>>

\* What leaves attempts alone keeps the limit.
LEMMA RateStays ==
  ASSUME BrowserInv, RateKept PROVE OldAreForgotten' /\ Browser!RateHolds'
  BY DEF BrowserInv, RateKept, OldAreForgotten, Browser!SignInLimited, Browser!RateHolds

\* A request that is idle again, or asks for something else, holds no challenge.
LEMMA BrowserRests ==
  ASSUME BrowserInv, RateKept, NEW r \in Visitors,
         NEW step \in {"idle", "otp"}, NEW with \in Nat,
         request' = [request EXCEPT ![r] = [step |-> step, with |-> with]],
         UNCHANGED <<challenges, uiNonces, uiSessions, password, codes>>,
         activeOTP' \subseteq activeOTP, UsedAreNotActive', Browser!OneRequestPerOTP'
  PROVE  BrowserInv'
<1> USE Limits
<1>1. /\ \A q \in Visitors : q # r => request'[q] = request[q]
      /\ request'[r].step = step
  BY DEF BrowserInv, RequestsTyped
<1>2. RequestsTyped'
  BY DEF BrowserInv, RequestsTyped
<1>3. NoncesAreTaken'
  BY <1>1 DEF BrowserInv, NoncesAreTaken
<1>4. Cardinality(activeOTP') <= 1
  <2>1. activeOTP' = {} \/ \E o : activeOTP' = {o}
    BY DEF UsedAreNotActive
  <2>2. \A o : Cardinality({o}) = 1
    BY ONLY FS_Singleton
  <2>3. Cardinality({}) = 0
    BY ONLY FS_EmptySet
  <2>4. ASSUME NEW o, activeOTP' = {o} PROVE Cardinality(activeOTP') = 1
    BY ONLY <2>2, <2>4
  <2>5. activeOTP' = {} => Cardinality(activeOTP') = 0
    BY ONLY <2>3
  <2> QED BY <2>1, <2>4, <2>5
<1>5. Browser!TypeOK'
  <2>1. activeOTP' \subseteq [code : {codes'}, expires : Nat]
    BY DEF UsedAreNotActive
  <2> QED BY <1>2, <1>4, <2>1, BrowserCardinality
          DEF BrowserInv, Browser!TypeOK, RateKept, RequestsTyped
<1> QED BY <1>2, <1>3, <1>5, RateStays
        DEF BrowserInv, Browser!SignInLimited, Browser!OneSessionPerNonce

\* The handlers of auth.go and the clock keep the invariant.
LEMMA BrowserStep == ASSUME BrowserInv, [Browser!Next]_browserVars PROVE BrowserInv'
<1> USE Limits
<1>0. CASE UNCHANGED browserVars
  BY <1>0 DEF browserVars, BrowserInv, Browser!TypeOK, RequestsTyped, NoncesAreTaken, UsedAreNotActive,
     OldAreForgotten, Browser!SignInLimited, Browser!OneSessionPerNonce, Browser!OneRequestPerOTP,
     Browser!RateHolds
<1>1. CASE Browser!GetChallenge
  <2>1. /\ challenges \in Nat /\ challenges' = challenges + 1 /\ challenges' \in 0..MaxNonce
        /\ uiNonces' = uiNonces \union {[nonce |-> challenges + 1, expires |-> now + NonceLife]}
        /\ UNCHANGED <<now, uiSessions, authAttempts, password, activeOTP, codes, request, tried, passed>>
    BY <1>1 DEF Browser!GetChallenge, BrowserInv, Browser!TypeOK
  <2>2. [nonce |-> challenges + 1, expires |-> now + NonceLife] \in [nonce : 1..challenges', expires : Nat]
    BY <2>1 DEF BrowserInv, Browser!TypeOK
  <2>3. Browser!TypeOK' /\ RequestsTyped'
    BY <2>1, <2>2 DEF BrowserInv, Browser!TypeOK, RequestsTyped
  <2>4. NoncesAreTaken'
    BY <2>1 DEF BrowserInv, Browser!TypeOK, NoncesAreTaken
  <2>5. RateKept
    BY <2>1 DEF RateKept
  <2> QED BY <2>1, <2>3, <2>4, <2>5, RateStays
          DEF BrowserInv, UsedAreNotActive, Browser!SignInLimited, Browser!OneSessionPerNonce,
              Browser!OneRequestPerOTP
<1>2. CASE Browser!SetPassword
  <2>1. RateKept /\ password' \in BOOLEAN
        /\ UNCHANGED <<challenges, uiNonces, uiSessions, activeOTP, codes, request, passed>>
    BY <1>2 DEF Browser!SetPassword, RateKept
  <2> QED BY <2>1, RateStays
          DEF BrowserInv, Browser!TypeOK, RequestsTyped, NoncesAreTaken, UsedAreNotActive, RateKept,
              Browser!SignInLimited, Browser!OneSessionPerNonce, Browser!OneRequestPerOTP
<1>3. CASE Browser!GenerateOTP
  <2> DEFINE otp == [code |-> codes + 1, expires |-> now + OtpLife]
  <2>1. /\ codes \in Nat /\ codes' = codes + 1 /\ codes' \in 0..MaxCode /\ activeOTP' = {otp}
        /\ RateKept /\ UNCHANGED <<challenges, uiNonces, uiSessions, password, request, passed>>
    BY <1>3 DEF Browser!GenerateOTP, BrowserInv, Browser!TypeOK, RateKept
  <2>2. otp \in [code : {codes'}, expires : Nat] /\ otp.code = codes + 1
    BY <2>1 DEF BrowserInv, Browser!TypeOK
  <2> HIDE DEF otp
  <2>3. UsedAreNotActive'
    BY <2>1, <2>2 DEF BrowserInv, UsedAreNotActive
  <2>4. Cardinality(activeOTP') <= 1
    BY <2>1, FS_Singleton
  <2>5. Browser!TypeOK'
    BY <2>1, <2>2, <2>4, BrowserCardinality DEF BrowserInv, Browser!TypeOK, RateKept
  <2> QED BY <2>1, <2>3, <2>5, RateStays
          DEF BrowserInv, RequestsTyped, NoncesAreTaken,
              Browser!SignInLimited, Browser!OneSessionPerNonce, Browser!OneRequestPerOTP
<1>4. CASE Browser!ExpireSession
  <2>1. RateKept /\ uiSessions' \subseteq uiSessions
        /\ UNCHANGED <<challenges, uiNonces, password, activeOTP, codes, request, passed>>
    BY <1>4 DEF Browser!ExpireSession, RateKept
  <2> QED BY <2>1, RateStays
          DEF BrowserInv, Browser!TypeOK, RequestsTyped, NoncesAreTaken, UsedAreNotActive, RateKept,
              Browser!SignInLimited, Browser!OneSessionPerNonce, Browser!OneRequestPerOTP
<1>5. ASSUME NEW r \in Visitors, Browser!TakeNonce(r) PROVE BrowserInv'
  <2>1. /\ request[r].step = "verify" /\ RateKept
        /\ uiNonces' = {x \in uiNonces : x.nonce # request[r].with}
        /\ UNCHANGED <<challenges, uiSessions, password, activeOTP, codes, passed>>
    BY <1>5 DEF Browser!TakeNonce, Browser!BurnNonce, RateKept
  <2>2. \/ request' = [request EXCEPT ![r].step = "answer"] /\ \E x \in uiNonces : x.nonce = request[r].with
        \/ request' = [request EXCEPT ![r] = Browser!Idle]
    BY <1>5 DEF Browser!TakeNonce
  <2>3. RequestsTyped'
    BY <2>2 DEF BrowserInv, RequestsTyped, Browser!Idle
  <2>4. \A q \in Visitors : q # r => request'[q] = request[q]
    BY <2>2 DEF BrowserInv, RequestsTyped
  <2>5. NoncesAreTaken'
    <3>1. CASE request' = [request EXCEPT ![r] = Browser!Idle]
      <4>1. request'[r].step = "idle"
        BY <3>1 DEF BrowserInv, RequestsTyped, Browser!Idle
      <4> QED BY <2>1, <2>4, <4>1 DEF BrowserInv, NoncesAreTaken
    <3>2. CASE /\ request' = [request EXCEPT ![r].step = "answer"]
               /\ \E x \in uiNonces : x.nonce = request[r].with
      <4>1. request'[r].step = "answer" /\ request'[r].with = request[r].with
        BY <3>2 DEF BrowserInv, RequestsTyped
      <4>2. \A q \in Visitors : request[q].step = "answer" => request[q].with # request[r].with
        BY <3>2 DEF BrowserInv, NoncesAreTaken
      <4> QED BY <2>1, <2>4, <3>2, <4>1, <4>2 DEF BrowserInv, NoncesAreTaken
    <3> QED BY <2>2, <3>1, <3>2
  <2>6. Browser!TypeOK'
    BY <2>1, <2>3 DEF BrowserInv, Browser!TypeOK, RequestsTyped, RateKept
  <2> QED BY <2>1, <2>3, <2>5, <2>6, RateStays
          DEF BrowserInv, UsedAreNotActive,
              Browser!SignInLimited, Browser!OneSessionPerNonce, Browser!OneRequestPerOTP
<1>6. ASSUME NEW r \in Visitors, Browser!Answer(r) PROVE BrowserInv'
  <2> DEFINE s == [nonce |-> request[r].with, by |-> r, expires |-> now + SessionLife]
  <2>1. /\ request[r].step = "answer" /\ RateKept
        /\ request' = [request EXCEPT ![r] = Browser!Idle]
        /\ uiSessions' = uiSessions \/ uiSessions' = uiSessions \union {s}
        /\ UNCHANGED <<challenges, uiNonces, password, activeOTP, codes, passed>>
    BY <1>6 DEF Browser!Answer, RateKept
  <2>2. s \in [nonce : 1..challenges, by : Visitors, expires : Nat] /\ s.nonce = request[r].with
    BY <2>1 DEF BrowserInv, NoncesAreTaken, Browser!TypeOK
  <2> HIDE DEF s
  <2>3. RequestsTyped'
    BY <2>1 DEF BrowserInv, RequestsTyped, Browser!Idle
  <2>4. /\ \A q \in Visitors : q # r => request'[q] = request[q]
        /\ request'[r].step = "idle"
    BY <2>1 DEF BrowserInv, RequestsTyped, Browser!Idle
  <2>5. NoncesAreTaken'
    BY <2>1, <2>2, <2>4 DEF BrowserInv, NoncesAreTaken
  <2>6. Browser!OneSessionPerNonce'
    BY <2>1, <2>2 DEF BrowserInv, NoncesAreTaken, Browser!SignInLimited, Browser!OneSessionPerNonce
  <2>7. Browser!TypeOK'
    BY <2>1, <2>2, <2>3 DEF BrowserInv, Browser!TypeOK, RequestsTyped, RateKept
  <2> QED BY <2>1, <2>3, <2>5, <2>6, <2>7, RateStays
          DEF BrowserInv, UsedAreNotActive, Browser!SignInLimited, Browser!OneRequestPerOTP
<1>7. ASSUME NEW r \in Visitors, Browser!SendOTP(r) PROVE BrowserInv'
  <2>1. PICK c \in 1..codes : request' = [request EXCEPT ![r] = [step |-> "otp", with |-> c]]
    BY <1>7 DEF Browser!SendOTP
  <2>2. RateKept /\ UNCHANGED <<challenges, uiNonces, uiSessions, password, codes, activeOTP, passed>>
    BY <1>7 DEF Browser!SendOTP, RateKept
  <2>3. c \in Nat
    BY DEF BrowserInv, Browser!TypeOK
  <2>4. UsedAreNotActive' /\ Browser!OneRequestPerOTP'
    BY <2>2 DEF BrowserInv, UsedAreNotActive, Browser!SignInLimited, Browser!OneRequestPerOTP
  <2> QED BY <2>1, <2>2, <2>3, <2>4, BrowserRests
<1>8. ASSUME NEW r \in Visitors, Browser!UseOTP(r) PROVE BrowserInv'
  <2>1. RateKept /\ UNCHANGED <<challenges, uiNonces, uiSessions, password, codes>>
        /\ request' = [request EXCEPT ![r] = [step |-> "idle", with |-> 0]]
    BY <1>8 DEF Browser!UseOTP, RateKept, Browser!Idle
  <2>2. \/ UNCHANGED <<activeOTP, passed>>
        \/ /\ activeOTP' = {} /\ passed' = passed \union {<<r, request[r].with, now>>}
           /\ \E o \in activeOTP : o.code = request[r].with
    BY <1>8 DEF Browser!UseOTP
  <2>3. UsedAreNotActive' /\ Browser!OneRequestPerOTP'
    <3>1. CASE UNCHANGED <<activeOTP, passed>>
      BY <2>1, <3>1 DEF BrowserInv, UsedAreNotActive, Browser!SignInLimited, Browser!OneRequestPerOTP
    <3>2. CASE /\ activeOTP' = {} /\ passed' = passed \union {<<r, request[r].with, now>>}
               /\ \E o \in activeOTP : o.code = request[r].with
      <4>1. request[r].with = codes /\ \A x \in passed : x[2] # codes
        BY <3>2 DEF BrowserInv, UsedAreNotActive, Browser!TypeOK
      <4>2. codes \in 1..codes
        <5>1. activeOTP # {} /\ codes \in Nat
          BY <3>2 DEF BrowserInv, Browser!TypeOK
        <5> QED BY <5>1 DEF BrowserInv, UsedAreNotActive
      <4> QED BY <2>1, <3>2, <4>1, <4>2
              DEF BrowserInv, UsedAreNotActive, Browser!SignInLimited, Browser!OneRequestPerOTP
    <3> QED BY <2>2, <3>1, <3>2
  <2> QED BY <2>1, <2>2, <2>3, BrowserRests
<1> QED
  BY <1>0, <1>1, <1>2, <1>3, <1>4, <1>5, <1>6, <1>7, <1>8, BrowserTick, BrowserAttempt
  DEF Browser!Next

-----------------------------------------------------------------------------
(* The events of browsers.                                                 *)

Messages == Event!What \X (0..MaxChange)

\* What BrowserEvents's TypeOK leaves out: what handlers have read is a list there was.
EventInv ==
  /\ Event!TypeOK
  /\ channel \in [Browsers -> Seq(Messages)]
  /\ listing \in [Handlers -> [step : {"idle", "changed", "listed"}, list : 0..MaxChange]]
  /\ shown \in [Browsers -> [Event!What -> 0..Event!Nothing]]

\* At first no browser listens.
LEMMA EventInit == Event!Init => EventInv
<1> SUFFICES ASSUME Event!Init PROVE EventInv
  OBVIOUS
<1> USE Limits DEF Event!Init
<1>1. channel \in [Browsers -> Seq(Messages)]
  OBVIOUS
<1>2. \A b \in Browsers : channel[b] = <<>> /\ Len(channel[b]) = 0 /\ DOMAIN channel[b] = {}
  OBVIOUS
<1>3. shown \in [Browsers -> [Event!What -> 0..Event!Nothing]]
  BY DEF Event!Nothing
<1>4. listing \in [Handlers -> [step : {"idle", "changed", "listed"}, list : 0..MaxChange]]
  BY DEF Event!Idle
<1>5. latest \in [Event!What -> 0..MaxChange] /\ collected \in 0..Event!Nothing
  BY DEF Event!Nothing
<1> QED BY <1>1, <1>2, <1>3, <1>4, <1>5 DEF EventInv, Event!TypeOK, Event!NoSendToClosed

\* A channel takes a message while it has room.
LEMMA Published ==
  ASSUME EventInv, NEW w \in Event!What, NEW v \in 0..MaxChange, Event!Publish(w, v)
  PROVE  /\ channel' \in [Browsers -> Seq(Messages)]
         /\ \A b \in Browsers : Len(channel'[b]) <= Capacity
<1> USE Limits
<1> DEFINE m == <<w, v>>
<1>1. m \in Messages
  BY DEF Messages
<1>2. channel' = [b \in Browsers |->
                    IF b \in streams /\ Len(channel[b]) < Capacity
                    THEN Append(channel[b], m) ELSE channel[b]]
  BY DEF Event!Publish
<1> HIDE DEF m
<1>3. ASSUME NEW b \in Browsers PROVE channel'[b] \in Seq(Messages) /\ Len(channel'[b]) <= Capacity
  <2>1. channel[b] \in Seq(Messages) /\ Len(channel[b]) <= Capacity /\ Len(channel[b]) \in Nat
    BY DEF EventInv, Event!TypeOK
  <2>2. CASE b \in streams /\ Len(channel[b]) < Capacity
    <3>1. channel'[b] = Append(channel[b], m)
      BY <1>2, <2>2
    <3>2. Append(channel[b], m) \in Seq(Messages) /\ Len(Append(channel[b], m)) = Len(channel[b]) + 1
      BY <1>1, <2>1
    <3> QED BY <2>1, <2>2, <3>1, <3>2
  <2>3. CASE ~(b \in streams /\ Len(channel[b]) < Capacity)
    BY <1>2, <2>1, <2>3
  <2> QED BY <2>2, <2>3
<1> QED BY <1>2, <1>3

\* The rest of the invariant, where channels keep their form.
LEMMA EventKept ==
  ASSUME EventInv,
         channel' \in [Browsers -> Seq(Messages)], \A b \in Browsers : Len(channel'[b]) <= Capacity,
         latest' \in [Event!What -> 0..MaxChange], collected' \in 0..Event!Nothing,
         listing' \in [Handlers -> [step : {"idle", "changed", "listed"}, list : 0..MaxChange]],
         shown' \in [Browsers -> [Event!What -> 0..Event!Nothing]],
         streams' \subseteq Browsers, ended' \subseteq Browsers, streams' \intersect ended' = {}
  PROVE  EventInv'
<1>1. ASSUME NEW b \in Browsers, NEW i \in DOMAIN channel'[b] PROVE channel'[b][i] \in Messages
  BY <1>1
<1> QED BY <1>1 DEF EventInv, Event!TypeOK, Event!NoSendToClosed, Messages, Event!What, Event!Nothing

\* Publishers, browsers and handlers keep the invariant.
LEMMA EventStep == ASSUME EventInv, [Event!Next]_eventVars PROVE EventInv'
<1> USE Limits
<1> DEFINE Lists == [Handlers -> [step : {"idle", "changed", "listed"}, list : 0..MaxChange]]
           Shows == [Browsers -> [Event!What -> 0..Event!Nothing]]
<1>0. /\ channel \in [Browsers -> Seq(Messages)] /\ \A b \in Browsers : Len(channel[b]) <= Capacity
      /\ latest \in [Event!What -> 0..MaxChange] /\ collected \in 0..Event!Nothing
      /\ listing \in Lists /\ shown \in Shows
      /\ streams \subseteq Browsers /\ ended \subseteq Browsers /\ streams \intersect ended = {}
  BY DEF EventInv, Event!TypeOK, Event!NoSendToClosed
<1>a. collected # Event!Nothing => collected \in 0..MaxChange
  BY <1>0 DEF Event!Nothing
<1>b. 0..MaxChange \subseteq 0..Event!Nothing /\ Event!Nothing \in 0..Event!Nothing
  BY DEF Event!Nothing
<1>c. ASSUME NEW w \in Event!What, Event!Change(w)
      PROVE  latest' \in [Event!What -> 0..MaxChange] /\ latest[w] + 1 \in 0..MaxChange
  BY <1>0, <1>c DEF Event!Change
<1>d. {"queue", "agents", "log"} \subseteq Event!What
  BY DEF Event!What
<1> HIDE DEF Lists, Shows
<1>1. CASE UNCHANGED eventVars
  BY <1>0, <1>1, EventKept DEF eventVars, Lists, Shows
<1>2. CASE Event!QueueChanges
  BY <1>0, <1>2, <1>c, <1>d, EventKept DEF Event!QueueChanges, Lists, Shows
<1>3. CASE Event!CollectQueue
  <2>1. collected' \in 0..Event!Nothing
    BY <1>0, <1>3, <1>b, <1>d DEF Event!CollectQueue
  <2> QED BY <1>0, <1>3, <2>1, EventKept DEF Event!CollectQueue, Lists, Shows
<1>4. CASE Event!RunQueueBroadcaster
  <2>1. Event!Publish("queue", collected) /\ collected \in 0..MaxChange /\ collected' \in 0..Event!Nothing
        /\ UNCHANGED <<latest, listing, streams, ended, shown, left>>
    BY <1>4, <1>a, <1>b DEF Event!RunQueueBroadcaster
  <2>2. channel' \in [Browsers -> Seq(Messages)] /\ \A b \in Browsers : Len(channel'[b]) <= Capacity
    BY <1>d, <2>1, Published
  <2> QED BY <1>0, <2>1, <2>2, EventKept DEF Lists, Shows
<1>5. CASE Event!receiveAgentContent
  <2>1. /\ Event!Change("log") /\ Event!Publish("log", latest["log"] + 1)
        /\ UNCHANGED <<collected, listing, streams, ended, shown, left>>
    BY <1>5 DEF Event!receiveAgentContent
  <2>2. channel' \in [Browsers -> Seq(Messages)] /\ \A b \in Browsers : Len(channel'[b]) <= Capacity
    BY <1>c, <1>d, <2>1, Published
  <2>3. latest' \in [Event!What -> 0..MaxChange]
    BY <1>c, <1>d, <2>1
  <2> QED BY <1>0, <2>1, <2>2, <2>3, EventKept DEF Lists, Shows
<1>6. ASSUME NEW h \in Handlers, Event!publishAgentList(h) PROVE EventInv'
  <2>1. CASE /\ Event!Change("agents") /\ listing' = [listing EXCEPT ![h].step = "changed"]
             /\ UNCHANGED <<collected, streams, channel, ended, shown, left>>
    <3>1. listing' \in Lists
      BY <1>0, <2>1 DEF Lists
    <3>2. latest' \in [Event!What -> 0..MaxChange]
      BY <1>c, <1>d, <2>1
    <3> QED BY <1>0, <2>1, <3>1, <3>2, EventKept DEF Lists, Shows
  <2>2. CASE /\ listing' = [listing EXCEPT ![h] = [step |-> "listed", list |-> latest["agents"]]]
             /\ UNCHANGED <<latest, collected, streams, channel, ended, shown, left>>
    <3>1. latest["agents"] \in 0..MaxChange
      BY <1>0, <1>d
    <3>2. listing' \in Lists
      BY <1>0, <2>2, <3>1 DEF Lists
    <3> QED BY <1>0, <2>2, <3>2, EventKept DEF Lists, Shows
  <2>3. CASE /\ listing' = [listing EXCEPT ![h] = Event!Idle] /\ Event!Publish("agents", listing[h].list)
             /\ UNCHANGED <<latest, collected, streams, ended, shown, left>>
    <3>1. listing' \in Lists /\ listing[h].list \in 0..MaxChange
      BY <1>0, <2>3 DEF Lists, Event!Idle
    <3>2. channel' \in [Browsers -> Seq(Messages)] /\ \A b \in Browsers : Len(channel'[b]) <= Capacity
      BY <1>d, <2>3, <3>1, Published
    <3> QED BY <1>0, <2>3, <3>1, <3>2, EventKept DEF Lists, Shows
  <2> QED BY <1>6, <2>1, <2>2, <2>3 DEF Event!publishAgentList
<1>7. ASSUME NEW b \in Browsers, Event!Connect(b) PROVE EventInv'
  <2>1. /\ streams' \subseteq Browsers /\ ended' \subseteq Browsers /\ streams' \intersect ended' = {}
        /\ channel' = [channel EXCEPT ![b] = <<>>] /\ UNCHANGED <<latest, collected, listing, shown>>
    BY <1>0, <1>7 DEF Event!Connect
  <2>2. <<>> \in Seq(Messages) /\ Len(<<>>) = 0
    OBVIOUS
  <2>3. channel' \in [Browsers -> Seq(Messages)] /\ \A c \in Browsers : Len(channel'[c]) <= Capacity
    BY <1>0, <2>1, <2>2
  <2> QED BY <1>0, <2>1, <2>3, EventKept DEF Lists, Shows
<1>8. ASSUME NEW b \in Browsers, Event!Show(b) PROVE EventInv'
  <2> DEFINE m == Head(channel[b])
  <2>1. /\ channel[b] # <<>> /\ channel' = [channel EXCEPT ![b] = Tail(channel[b])]
        /\ shown' = [shown EXCEPT ![b][m[1]] = m[2]]
        /\ UNCHANGED <<latest, collected, listing, streams, ended>>
    BY <1>0, <1>8 DEF Event!Show
  <2>2. channel[b] \in Seq(Messages) /\ Len(channel[b]) <= Capacity
    BY <1>0
  <2>3. ASSUME NEW q \in Seq(Messages), q # <<>>, Len(q) <= Capacity
        PROVE  Head(q) \in Messages /\ Tail(q) \in Seq(Messages) /\ Len(Tail(q)) <= Capacity
    BY <2>3
  <2>a. m \in Messages /\ Tail(channel[b]) \in Seq(Messages) /\ Len(Tail(channel[b])) <= Capacity
    BY <2>1, <2>2, <2>3
  <2>4. m[1] \in Event!What /\ m[2] \in 0..Event!Nothing
    BY <1>b, <2>a DEF Messages
  <2>5. channel' \in [Browsers -> Seq(Messages)] /\ \A c \in Browsers : Len(channel'[c]) <= Capacity
    BY <1>0, <2>1, <2>a
  <2> HIDE DEF m
  <2>6. shown' \in Shows
    BY <1>0, <2>1, <2>4 DEF Shows
  <2> QED BY <1>0, <2>1, <2>5, <2>6, EventKept DEF Lists, Shows
<1>9. ASSUME NEW b \in Browsers, Event!Leave(b) PROVE EventInv'
  <2>1. /\ streams' \subseteq Browsers /\ ended' \subseteq Browsers /\ streams' \intersect ended' = {}
        /\ UNCHANGED <<latest, collected, listing, channel, shown>>
    BY <1>0, <1>9 DEF Event!Leave
  <2> QED BY <1>0, <2>1, EventKept DEF Lists, Shows
<1> QED BY <1>1, <1>2, <1>3, <1>4, <1>5, <1>6, <1>7, <1>8, <1>9 DEF Event!Next

-----------------------------------------------------------------------------
(* The search for releases.                                                *)

\* A score is a percentage.
LEMMA ScoreBounded == ASSUME NEW r \in Search!Release PROVE Search!ScoreResult(r) \in 0..100
<1>1. /\ r.tier \in 1..4 /\ r.title \in 0..100 /\ r.size \in Nat /\ r.seeders \in Nat /\ r.nzb \in BOOLEAN
  BY DEF Search!Release
<1>2. (r.title * 30) \div 100 \in 0..30
  <2> DEFINE t == r.title
  <2>1. t \in 0..100
    BY <1>1
  <2> HIDE DEF t
  <2>2. (t * 30) \div 100 \in 0..30
    BY <2>1
  <2> QED BY <2>2 DEF t
<1>3. Search!sourceScore(r.tier) \in 0..40
  BY <1>1 DEF Search!sourceScore
<1>4. Search!seederScore(r) \in 0..20
  BY <1>1 DEF Search!seederScore
<1>5. (IF Search!tooLarge(r) THEN 0 ELSE 10) \in 0..10
  OBVIOUS
<1> QED BY <1>2, <1>3, <1>4, <1>5 DEF Search!ScoreResult

\* A set of numbers has a least one.
LEMMA LeastNumber ==
  ASSUME NEW T, T \subseteq Nat, T # {} PROVE \E m \in T : \A n \in T : m <= n
<1>1. PICK m \in T : \A n \in T : ~ (<<n, m>> \in OpToRel(<, Nat))
  BY NatLessThanWellFounded, WFMin
<1>2. \A n \in T : ~ (n < m)
  BY <1>1 DEF OpToRel
<1> QED BY <1>2

\* The sizes ReleaseSearch speaks of are the sizes of the library.
LEMMA SearchCardinality == ASSUME NEW S PROVE Search!Cardinality(S) = Cardinality(S)
  BY DEF Cardinality, Search!Cardinality

\* Sources answer with releases; what is in the channel is the answer of one that has.
AnswersTyped ==
  /\ \A i \in DOMAIN answers : answers[i] # Error => answers[i] \in Seq(Search!Release)
  /\ asked \subseteq DOMAIN answers
  /\ ch \in Seq({answers[i] : i \in DOMAIN answers}) /\ Len(ch) <= ChanSize

\* An answer that came waits in the channel, or was merged.
CameOrWaits ==
  \A i \in DOMAIN answers \ asked : answers[i] # Error =>
    \/ \E n \in DOMAIN ch : ch[n] = answers[i]
    \/ \A n \in DOMAIN answers[i] : Search!Key(answers[i][n]) \in seen

SearchEnds == (closed => asked = {}) /\ (over => asked = {} /\ ch = <<>>)

\* What was streamed has been seen, and what was seen was streamed if it was wanted.
StreamedIsSeen ==
  /\ batches \in Seq(Seq(Search!Release))
  /\ \A b \in DOMAIN batches : \A n \in DOMAIN batches[b] :
       batches[b][n] \in Search!Answered /\ Search!Key(batches[b][n]) \in seen

SeenIsStreamed ==
  \A r \in Search!Answered :
    Search!Key(r) \in seen /\ (\A s \in Search!Answered : Search!Key(s) = Search!Key(r) => Search!Wanted(s))
      => \E b \in DOMAIN batches : \E n \in DOMAIN batches[b] : Search!Key(batches[b][n]) = Search!Key(r)

SearchInv ==
  AnswersTyped /\ CameOrWaits /\ SearchEnds /\ StreamedIsSeen /\ SeenIsStreamed /\ Search!OnceAndSorted

\* The invariant has all that the properties say.
LEMMA SearchInvImplies == SearchInv => Search!TypeOK /\ Search!SearchWhole
<1> SUFFICES ASSUME SearchInv PROVE Search!TypeOK /\ Search!SearchWhole
  OBVIOUS
<1>1. ASSUME NEW r \in Search!Answered PROVE r \in Search!Release
  BY DEF SearchInv, AnswersTyped, Search!Answered, Search!ToSet
<1>2. \A r \in Search!Answered : Search!ScoreResult(r) \in 0..100
  BY <1>1, ScoreBounded
<1>3. \A r : r \in Search!Streamed <=> \E b \in DOMAIN batches : \E n \in DOMAIN batches[b] : r = batches[b][n]
  BY DEF Search!Streamed, Search!ToSet
<1>4. Search!Streamed \subseteq Search!Answered
  BY <1>3 DEF SearchInv, StreamedIsSeen
<1>5. Search!AllStreamed
  <2> SUFFICES ASSUME over, NEW r \in Search!Answered,
                      \A s \in Search!Answered : Search!Key(s) = Search!Key(r) => Search!Wanted(s)
               PROVE  \E s \in Search!Streamed : Search!Key(s) = Search!Key(r)
    BY DEF Search!AllStreamed
  <2>1. PICK i \in DOMAIN answers : answers[i] # Error /\ r \in Search!ToSet(answers[i])
    BY DEF Search!Answered
  <2>2. PICK n \in DOMAIN answers[i] : r = answers[i][n]
    BY <2>1 DEF Search!ToSet
  <2>3. asked = {} /\ DOMAIN ch = {}
    BY DEF SearchInv, SearchEnds
  <2>4. Search!Key(r) \in seen
    BY <2>1, <2>2, <2>3 DEF SearchInv, CameOrWaits
  <2>5. \E b \in DOMAIN batches : \E m \in DOMAIN batches[b] : Search!Key(batches[b][m]) = Search!Key(r)
    BY <2>4 DEF SearchInv, SeenIsStreamed
  <2> QED BY <1>3, <2>5
<1> QED BY <1>2, <1>4, <1>5 DEF SearchInv, AnswersTyped, Search!TypeOK, Search!SearchWhole

\* At first no source has answered.
LEMMA SearchInit == Search!Init => SearchInv
<1> SUFFICES ASSUME Search!Init PROVE SearchInv
  OBVIOUS
<1> USE Limits DEF Search!Init
<1>1. AnswersTyped
  BY WorldAssumption DEF AnswersTyped
<1>2. StreamedIsSeen
  BY DEF StreamedIsSeen
<1>3. CameOrWaits /\ SearchEnds /\ SeenIsStreamed
  BY DEF CameOrWaits, SearchEnds, SeenIsStreamed
<1> QED BY <1>1, <1>2, <1>3 DEF SearchInv, Search!OnceAndSorted

\* A source that answers puts its answer in the channel.
LEMMA SearchAnswers == ASSUME SearchInv, NEW i, Search!Answer(i) PROVE SearchInv'
<1> DEFINE A == {answers[j] : j \in DOMAIN answers}
<1>1. /\ i \in asked /\ Len(ch) < ChanSize /\ ch' = Append(ch, answers[i]) /\ asked' = asked \ {i}
      /\ UNCHANGED <<answers, categories, closed, seen, batches, over>>
  BY DEF Search!Answer
<1>2. i \in DOMAIN answers /\ ch \in Seq(A) /\ answers[i] \in A
  BY <1>1 DEF SearchInv, AnswersTyped
<1>3. /\ ch' \in Seq(A) /\ Len(ch') = Len(ch) + 1 /\ Len(ch) \in Nat
      /\ ch'[Len(ch) + 1] = answers[i] /\ \A n \in 1..Len(ch) : ch'[n] = ch[n]
      /\ DOMAIN ch = 1..Len(ch) /\ DOMAIN ch' = 1..(Len(ch) + 1)
  <2> HIDE DEF A
  <2> QED BY <1>1, <1>2
<1>4. AnswersTyped'
  BY Limits, <1>1, <1>3 DEF SearchInv, AnswersTyped
<1>5. CameOrWaits'
  <2> SUFFICES ASSUME NEW j \in DOMAIN answers, j \notin asked \ {i}, answers[j] # Error,
                      ~ \A n \in DOMAIN answers[j] : Search!Key(answers[j][n]) \in seen
               PROVE  \E n \in DOMAIN ch' : ch'[n] = answers[j]
    BY <1>1 DEF CameOrWaits
  <2>1. CASE j = i
    BY <1>3, <2>1
  <2>2. CASE j # i
    BY <1>3, <2>2 DEF SearchInv, CameOrWaits
  <2> QED BY <2>1, <2>2
<1>6. SearchEnds'
  BY <1>1 DEF SearchInv, SearchEnds
<1> QED BY <1>1, <1>4, <1>5, <1>6
        DEF SearchInv, StreamedIsSeen, SeenIsStreamed, Search!OnceAndSorted, Search!Answered, Search!Wanted

\* A batch has the new releases of an answer, the best first, and each once.
BatchOf(batch, rs) ==
  /\ batch \in Seq(Search!Release)
  /\ \A n \in DOMAIN batch :
       /\ \E i \in DOMAIN rs : batch[n] = rs[i]
       /\ Search!Key(batch[n]) \notin seen
  /\ \A m, n \in DOMAIN batch : Search!Key(batch[m]) = Search!Key(batch[n]) => m = n
  /\ \A m, n \in DOMAIN batch :
       m < n => Search!ScoreResult(batch[m]) >= Search!ScoreResult(batch[n])
  /\ \A i \in DOMAIN rs :
       Search!Key(rs[i]) \notin seen
         /\ (\A j \in DOMAIN rs : Search!Key(rs[j]) = Search!Key(rs[i]) => Search!Wanted(rs[j]))
       => \E n \in DOMAIN batch : Search!Key(batch[n]) = Search!Key(rs[i])

\* The releases of an answer that are new and wanted, put in order, are such a batch.
LEMMA Scored ==
  ASSUME NEW rs \in Seq(Search!Release),
         NEW places, places = {i \in DOMAIN rs : Search!Fresh(rs, i) /\ Search!Wanted(rs[i])},
         NEW order \in Search!ScoreAll(rs, places)
  PROVE  /\ BatchOf([n \in DOMAIN order |-> rs[order[n]]], rs)
         /\ places = {} => DOMAIN order = {}
<1> DEFINE batch == [n \in DOMAIN order |-> rs[order[n]]]
           N == Cardinality(places)
<1>1. /\ order \in [1..N -> places]
      /\ \A i \in places : \E n \in DOMAIN order : order[n] = i
      /\ \A m, n \in DOMAIN order : m < n => Search!Precedes(rs, order[m], order[n])
  BY SearchCardinality DEF Search!ScoreAll
<1>2. N \in Nat
  <2>1. places \in SUBSET (1..Len(rs)) /\ Len(rs) \in Int
    OBVIOUS
  <2>2. IsFiniteSet(1..Len(rs))
    BY <2>1, FS_Interval
  <2>3. IsFiniteSet(places)
    BY ONLY <2>1, <2>2, FS_Subset
  <2> QED BY ONLY <2>3, FS_CardinalityType DEF N
<1> HIDE DEF N
<1>3. /\ DOMAIN order = 1..N /\ DOMAIN batch = 1..N
      /\ \A n \in 1..N : order[n] \in places /\ batch[n] = rs[order[n]]
  BY <1>1
<1>4. \A i \in places : i \in DOMAIN rs /\ i \in Nat /\ rs[i] \in Search!Release
  OBVIOUS
<1>5. batch \in Seq(Search!Release)
  <2>1. batch \in [1..N -> Search!Release]
    BY <1>3, <1>4
  <2> HIDE DEF batch
  <2> QED BY <1>2, <2>1
<1> HIDE DEF batch
<1>6. ASSUME NEW n \in DOMAIN batch
      PROVE  (\E i \in DOMAIN rs : batch[n] = rs[i]) /\ Search!Key(batch[n]) \notin seen
  BY <1>3, <1>4 DEF Search!Fresh
<1>7. ASSUME NEW m \in 1..N, NEW n \in 1..N, m < n
      PROVE  /\ order[m] # order[n]
             /\ Search!ScoreResult(batch[m]) >= Search!ScoreResult(batch[n])
  <2> DEFINE x == order[m]
             y == order[n]
             a == Search!ScoreResult(rs[x])
             b == Search!ScoreResult(rs[y])
  <2>1. Search!Precedes(rs, x, y)
    BY <1>1, <1>3, <1>7
  <2>2. x \in Nat /\ y \in Nat /\ a \in 0..100 /\ b \in 0..100 /\ (x = y => a = b)
    BY <1>3, <1>4, ScoreBounded
  <2>3. a > b \/ (a = b /\ x < y)
    BY <2>1 DEF Search!Precedes
  <2>4. a = Search!ScoreResult(batch[m]) /\ b = Search!ScoreResult(batch[n])
    BY <1>3
  <2>5. x = order[m] /\ y = order[n]
    OBVIOUS
  <2> HIDE DEF x, y, a, b
  <2>6. x # y /\ a >= b
    BY ONLY <2>2, <2>3
  <2> QED BY <2>4, <2>5, <2>6
<1>8. ASSUME NEW m \in DOMAIN batch, NEW n \in DOMAIN batch, Search!Key(batch[m]) = Search!Key(batch[n])
      PROVE  m = n
  <2>1. order[m] = order[n]
    <3>1. /\ order[m] \in places /\ order[n] \in places /\ order[m] \in Nat /\ order[n] \in Nat
          /\ order[m] >= 1 /\ order[n] >= 1
          /\ Search!Key(rs[order[m]]) = Search!Key(rs[order[n]])
      BY <1>3, <1>4, <1>8
    <3>2. ~ (order[m] < order[n]) /\ ~ (order[n] < order[m])
      BY <3>1 DEF Search!Fresh
    <3> QED BY <3>1, <3>2
  <2>2. ~ (m < n) /\ ~ (n < m) /\ m \in Nat /\ n \in Nat
    BY <1>2, <1>3, <1>7, <2>1
  <2> QED BY <2>2
<1>9. ASSUME NEW i \in DOMAIN rs, Search!Key(rs[i]) \notin seen,
             \A j \in DOMAIN rs : Search!Key(rs[j]) = Search!Key(rs[i]) => Search!Wanted(rs[j])
      PROVE  \E n \in DOMAIN batch : Search!Key(batch[n]) = Search!Key(rs[i])
  <2> DEFINE T == {j \in DOMAIN rs : Search!Key(rs[j]) = Search!Key(rs[i])}
  <2>1. T \subseteq Nat /\ T # {}
    OBVIOUS
  <2>2. PICK j \in T : \A k \in T : j <= k
    BY <2>1, LeastNumber
  <2>3. j \in places
    BY <1>9, <2>1, <2>2 DEF Search!Fresh
  <2>4. PICK n \in DOMAIN order : order[n] = j
    BY <1>1, <2>3
  <2> QED BY <1>3, <2>4
<1>10. places = {} => DOMAIN order = {}
  BY <1>3
<1> QED BY <1>3, <1>5, <1>6, <1>7, <1>8, <1>9, <1>10 DEF BatchOf, batch

\* A merge keeps the invariant: the answer it takes leaves the channel as its releases
\* come to be known, and those of them that are new and wanted are the batch.
LEMMA SearchMerge == ASSUME SearchInv, Search!Merge PROVE SearchInv'
<1> DEFINE A == {answers[j] : j \in DOMAIN answers}
           rs == Head(ch)
           places == {i \in DOMAIN rs : Search!Fresh(rs, i) /\ Search!Wanted(rs[i])}
           keys == {Search!Key(r) : r \in Search!ToSet(rs)}
<1>1. ch # <<>> /\ ch' = Tail(ch) /\ UNCHANGED <<answers, categories, asked, closed, over>>
  BY DEF Search!Merge
<1>2. ch \in Seq(A) /\ Len(ch) <= ChanSize
  BY DEF SearchInv, AnswersTyped
<1>3. /\ ch' \in Seq(A) /\ Len(ch') = Len(ch) - 1 /\ Len(ch) \in Nat /\ rs \in A /\ ch[1] = rs
      /\ DOMAIN ch = 1..Len(ch) /\ DOMAIN ch' = 1..(Len(ch) - 1)
      /\ \A n \in 1..(Len(ch) - 1) : ch'[n] = ch[n + 1]
  <2> HIDE DEF A
  <2> QED BY <1>1, <1>2
<1>4. AnswersTyped'
  <2>1. Len(ch') <= ChanSize
    BY <1>2, <1>3, Limits
  <2> QED BY <1>1, <1>3, <2>1 DEF SearchInv, AnswersTyped
<1>5. SearchEnds'
  BY <1>1 DEF SearchInv, SearchEnds
<1>6. \/ rs = Error /\ UNCHANGED <<seen, batches>>
      \/ /\ rs # Error /\ seen' = seen \union keys
         /\ \E order \in Search!ScoreAll(rs, places) :
              batches' = IF places = {} THEN batches
                         ELSE Append(batches, [n \in DOMAIN order |-> rs[order[n]]])
  BY DEF Search!Merge
<1>7. CameOrWaits'
  <2> SUFFICES ASSUME NEW j \in DOMAIN answers, j \notin asked, answers[j] # Error,
                      ~ \A n \in DOMAIN answers[j] : Search!Key(answers[j][n]) \in seen'
               PROVE  \E n \in DOMAIN ch' : ch'[n] = answers[j]
    BY <1>1 DEF CameOrWaits
  <2>1. seen \subseteq seen'
    BY <1>6
  <2>2. PICK n \in DOMAIN ch : ch[n] = answers[j]
    BY <2>1 DEF SearchInv, CameOrWaits
  <2>3. n # 1
    <3> SUFFICES ASSUME rs = answers[j] PROVE FALSE
      BY <1>3, <2>2
    <3> QED BY <1>6 DEF Search!ToSet
  <2>4. n - 1 \in DOMAIN ch' /\ ch'[n - 1] = ch[n]
    BY <1>3, <2>3
  <2> QED BY <2>2, <2>4
<1>8. CASE rs = Error
  <2>1. UNCHANGED <<seen, batches>>
    BY <1>6, <1>8
  <2> QED BY <1>1, <1>4, <1>5, <1>7, <2>1
          DEF SearchInv, StreamedIsSeen, SeenIsStreamed, Search!OnceAndSorted, Search!Answered, Search!Wanted
<1>9. CASE rs # Error
  <2>1. PICK order \in Search!ScoreAll(rs, places) :
          batches' = IF places = {} THEN batches
                     ELSE Append(batches, [n \in DOMAIN order |-> rs[order[n]]])
    BY <1>6, <1>9
  <2>2. seen' = seen \union keys
    BY <1>6, <1>9
  <2>3. rs \in Seq(Search!Release)
    BY <1>3, <1>9 DEF SearchInv, AnswersTyped
  <2> DEFINE batch == [n \in DOMAIN order |-> rs[order[n]]]
  <2>4. BatchOf(batch, rs) /\ (places = {} => DOMAIN batch = {})
    <3> HIDE DEF rs
    <3> QED BY <2>1, <2>3, Scored
  <2>5. \A i \in DOMAIN rs : rs[i] \in Search!Answered /\ Search!Key(rs[i]) \in keys
    BY <1>3, <1>9 DEF Search!Answered, Search!ToSet
  <2>6. \A k \in keys : \E i \in DOMAIN rs : Search!Key(rs[i]) = k
    BY DEF Search!ToSet
  <2>7. UNCHANGED Search!Answered /\ \A r : Search!Wanted(r)' <=> Search!Wanted(r)
    BY <1>1 DEF Search!Answered, Search!Wanted
  <2> HIDE DEF places, batch, keys
  <2>8. batches \in Seq(Seq(Search!Release)) /\ batch \in Seq(Search!Release)
    BY <2>4 DEF BatchOf, SearchInv, StreamedIsSeen
  <2>9. /\ batches' \in Seq(Seq(Search!Release))
        /\ \A b \in DOMAIN batches : b \in DOMAIN batches' /\ batches'[b] = batches[b]
        /\ \A b \in DOMAIN batches' \ DOMAIN batches :
             b = Len(batches) + 1 /\ batches'[b] = batch
        /\ places # {} => Len(batches) + 1 \in DOMAIN batches' \ DOMAIN batches
    <3>1. batches' = IF places = {} THEN batches ELSE Append(batches, batch)
      BY <2>1 DEF batch
    <3> QED BY ONLY <2>8, <3>1
  <2>10. StreamedIsSeen'
    <3> SUFFICES ASSUME NEW b \in DOMAIN batches', NEW n \in DOMAIN batches'[b]
                 PROVE  batches'[b][n] \in Search!Answered /\ Search!Key(batches'[b][n]) \in seen'
      BY <2>7, <2>9 DEF StreamedIsSeen
    <3>1. CASE b \in DOMAIN batches
      BY <2>2, <2>9, <3>1 DEF SearchInv, StreamedIsSeen
    <3>2. CASE b \notin DOMAIN batches
      BY <2>2, <2>4, <2>5, <2>9, <3>2 DEF BatchOf
    <3> QED BY <3>1, <3>2
  <2>11. SeenIsStreamed'
    <3> SUFFICES ASSUME NEW r \in Search!Answered, Search!Key(r) \in seen',
                        \A s \in Search!Answered : Search!Key(s) = Search!Key(r) => Search!Wanted(s)
                 PROVE  \E b \in DOMAIN batches' : \E n \in DOMAIN batches'[b] :
                          Search!Key(batches'[b][n]) = Search!Key(r)
      BY <2>7 DEF SeenIsStreamed
    <3>1. CASE Search!Key(r) \in seen
      <4>1. PICK b \in DOMAIN batches : \E n \in DOMAIN batches[b] : Search!Key(batches[b][n]) = Search!Key(r)
        BY <3>1 DEF SearchInv, SeenIsStreamed
      <4> QED BY <2>9, <4>1
    <3>2. CASE Search!Key(r) \notin seen
      <4>1. PICK i \in DOMAIN rs : Search!Key(rs[i]) = Search!Key(r)
        BY <2>2, <2>6, <3>2
      <4>2. \A j \in DOMAIN rs : Search!Key(rs[j]) = Search!Key(rs[i]) => Search!Wanted(rs[j])
        BY <2>5, <4>1
      <4>3. PICK n \in DOMAIN batch : Search!Key(batch[n]) = Search!Key(r)
        BY <2>4, <3>2, <4>1, <4>2 DEF BatchOf
      <4> QED BY <2>4, <2>9, <4>3
    <3> QED BY <3>1, <3>2
  <2>12. Search!OnceAndSorted'
    <3>1. ASSUME NEW b \in DOMAIN batches', NEW c \in DOMAIN batches',
                 NEW i \in DOMAIN batches'[b], NEW j \in DOMAIN batches'[c],
                 Search!Key(batches'[b][i]) = Search!Key(batches'[c][j])
          PROVE  b = c /\ i = j
      <4>1. ASSUME NEW d \in DOMAIN batches, NEW k \in DOMAIN batches[d], NEW n \in DOMAIN batch
            PROVE  Search!Key(batches[d][k]) # Search!Key(batch[n])
        BY <2>4 DEF BatchOf, SearchInv, StreamedIsSeen
      <4>2. CASE b \in DOMAIN batches /\ c \in DOMAIN batches
        BY <2>9, <3>1, <4>2 DEF SearchInv, Search!OnceAndSorted
      <4>3. CASE b \notin DOMAIN batches /\ c \notin DOMAIN batches
        BY <2>4, <2>9, <3>1, <4>3 DEF BatchOf
      <4>4. CASE b \in DOMAIN batches /\ c \notin DOMAIN batches
        BY <2>9, <3>1, <4>1, <4>4
      <4>5. CASE b \notin DOMAIN batches /\ c \in DOMAIN batches
        BY <2>9, <3>1, <4>1, <4>5
      <4> QED BY <4>2, <4>3, <4>4, <4>5
    <3>2. ASSUME NEW b \in DOMAIN batches', NEW i \in DOMAIN batches'[b], NEW j \in DOMAIN batches'[b], i < j
          PROVE  Search!ScoreResult(batches'[b][i]) >= Search!ScoreResult(batches'[b][j])
      <4>1. CASE b \in DOMAIN batches
        BY <2>9, <3>2, <4>1 DEF SearchInv, Search!OnceAndSorted
      <4>2. CASE b \notin DOMAIN batches
        BY <2>4, <2>9, <3>2, <4>2 DEF BatchOf
      <4> QED BY <4>1, <4>2
    <3> QED BY <3>1, <3>2 DEF Search!OnceAndSorted
  <2> QED BY <1>4, <1>5, <1>7, <2>10, <2>11, <2>12 DEF SearchInv
<1> QED BY <1>8, <1>9

\* Sources, the merge and the ends of a search keep the invariant.
LEMMA SearchStep == ASSUME SearchInv, [Search!Next]_searchVars PROVE SearchInv'
<1>1. ASSUME NEW i, Search!Answer(i) PROVE SearchInv'
  BY <1>1, SearchAnswers
<1>2. CASE Search!Close
  BY <1>2 DEF Search!Close, SearchInv, AnswersTyped, CameOrWaits, SearchEnds, StreamedIsSeen,
              SeenIsStreamed, Search!OnceAndSorted, Search!Answered, Search!Wanted
<1>3. CASE Search!Merge
  BY <1>3, SearchMerge
<1>4. CASE Search!End
  BY <1>4 DEF Search!End, SearchInv, AnswersTyped, CameOrWaits, SearchEnds, StreamedIsSeen,
              SeenIsStreamed, Search!OnceAndSorted, Search!Answered, Search!Wanted
<1>5. CASE UNCHANGED searchVars
  <2>1. UNCHANGED <<answers, categories, asked, ch, closed, seen, batches, over>>
    BY <1>5 DEF searchVars
  <2>2. AnswersTyped' /\ CameOrWaits' /\ SearchEnds'
    BY <2>1 DEF SearchInv, AnswersTyped, CameOrWaits, SearchEnds
  <2>3. StreamedIsSeen' /\ SeenIsStreamed'
    BY <2>1 DEF SearchInv, StreamedIsSeen, SeenIsStreamed, Search!Answered, Search!Wanted
  <2>4. Search!OnceAndSorted'
    BY <2>1 DEF SearchInv, Search!OnceAndSorted
  <2> QED BY <2>2, <2>3, <2>4 DEF SearchInv
<1> QED BY <1>1, <1>2, <1>3, <1>4, <1>5 DEF Search!Next

-----------------------------------------------------------------------------
(* The download clients.                                                   *)

\* What an adapter reports as the id of a download.
IdForm(k) == NewClient(k).ids

LEMMA IdForms == ASSUME NEW k \in Kinds PROVE IdForm(k) \in {"lower", "upper", "number", "fresh"}
  BY DEF IdForm, Kinds, NewClient, Qbittorrent, Transmission, Deluge, Flood, Sabnzbd, Nzbget, RTorrent

\* A download of the daemon k has the fields and one of the states k knows.
Download(k, d) ==
  /\ d = [release |-> d.release, id |-> d.id, state |-> d.state, label |-> d.label]
  /\ d.state \in DOMAIN MapState(k)

\* Where ids are hashes, a daemon knows a release once, by its hash.
KnownOnce(k) ==
  \A d, e \in queue[k] : d.id = <<IdForm(k), d.release>> /\ (d.release = e.release => d = e)

\* What was imported by its hash is remembered.
Remembered == \A x \in started : x[1] \in HashKinds => <<IdForm(x[1]), x[2]>> \in done

\* An import is a daemon, a release and a state, and whether it is not the first.
Import(x) == x = <<x[1], x[2], x[3], x[4]>> /\ x[1] \in Kinds

ImportInv ==
  /\ DOMAIN queue = Kinds /\ queue = [k \in Kinds |-> queue[k]]
  /\ \A k \in Kinds : \A d \in queue[k] : Download(k, d)
  /\ \A k \in HashKinds : KnownOnce(k)
  /\ \A i \in DOMAIN clients : clients[i].kind \in Kinds
  /\ \A c \in setup : c.kind \in Kinds
  /\ \A x \in started : Import(x)
  /\ Remembered /\ ImportedOnceInPlace

-----------------------------------------------------------------------------

\* What adapters call completed is in its place, except for a qBittorrent or SABnzbd
\* download that is being moved (mapQBState, mapSABState).
LEMMA CompletedIsInPlace ==
  ASSUME NEW k \in Kinds, NEW s \in DOMAIN MapState(k), MapState(k)[s] = "completed"
  PROVE  s \in {"seeding", "stopped"} \/ (s = "moving" /\ k \in {"qbittorrent", "sabnzbd"})
<1>1. CASE k = "qbittorrent" BY <1>1 DEF MapState, MapQBState
<1>2. CASE k = "transmission" BY <1>2 DEF MapState, MapTransmissionState
<1>3. CASE k = "deluge" BY <1>3 DEF MapState, MapDelugeState
<1>4. CASE k = "flood" BY <1>4 DEF MapState, MapFloodState
<1>5. CASE k = "sabnzbd" BY <1>5 DEF MapState, MapSABState
<1>6. CASE k = "nzbget" BY <1>6 DEF MapState, MapNzbgetState
<1>7. CASE k = "rtorrent" BY <1>7 DEF MapState, MapTransmissionState
<1> QED BY <1>1, <1>2, <1>3, <1>4, <1>5, <1>6, <1>7 DEF Kinds

\* Every daemon may queue a download.
LEMMA QueuedIsAState == ASSUME NEW k \in Kinds PROVE "queued" \in DOMAIN MapState(k)
  BY DEF Kinds, MapState, MapQBState, MapTransmissionState, MapDelugeState, MapFloodState,
         MapSABState, MapNzbgetState

\* Changes of one daemon's queue that keep the form of its downloads, and what is known
\* of hashes, keep the invariant, if imports and their memory stay.
LEMMA QueueStep ==
  ASSUME ImportInv, NEW k \in Kinds, NEW q,
         queue' = [queue EXCEPT ![k] = q],
         \A d \in q : Download(k, d),
         k \in HashKinds =>
           \A d, e \in q : d.id = <<IdForm(k), d.release>> /\ (d.release = e.release => d = e),
         UNCHANGED <<setup, clients, done, started>>
  PROVE  ImportInv'
<1>1. \A j \in Kinds : queue'[j] = IF j = k THEN q ELSE queue[j]
  BY DEF ImportInv
<1>2. DOMAIN queue' = Kinds /\ queue' = [j \in Kinds |-> queue'[j]]
  BY DEF ImportInv
<1>3. ImportedOnceInPlace'
  BY DEF ImportInv, ImportedOnceInPlace, ImportedInPlace, OneImportPerHash
<1>4. \A j \in Kinds : \A d \in queue'[j] : Download(j, d)
  BY <1>1 DEF ImportInv
<1>5. \A j \in HashKinds : KnownOnce(j)'
  BY <1>1 DEF ImportInv, KnownOnce, HashKinds
<1> QED BY <1>2, <1>3, <1>4, <1>5 DEF ImportInv, Remembered, Import, Download, KnownOnce

-----------------------------------------------------------------------------

\* At first nothing is imported.
LEMMA ImportInit == Init => ImportInv
  BY SetupAssumption DEF Init, ImportInv, Download, KnownOnce, HashKinds, Import, Remembered,
         ImportedOnceInPlace, ImportedInPlace, OneImportPerHash

\* A release that a daemon gets is one it does not have.
LEMMA AddKeeps ==
  ASSUME ImportInv, NEW r \in Releases, AddTorrent(r) PROVE ImportInv'
<1>1. PICK i \in Targets(r) :
        LET k == clients[i].kind
            n == lastNumber[k] + 1 IN
        /\ \A d \in queue[k] : d.release # r
        /\ queue' = [queue EXCEPT ![k] = @ \union
             {[release |-> r, id |-> IdOf(k, r, n), state |-> "queued",
               label |-> clients[i].category /\ NewClient(k).adds]}]
  BY DEF AddTorrent
<1> DEFINE k == clients[i].kind
           d == [release |-> r, id |-> IdOf(k, r, lastNumber[k] + 1),
                 state |-> "queued", label |-> clients[i].category /\ NewClient(k).adds]
<1>2. k \in Kinds
  BY DEF ImportInv, Targets
<1>3. Download(k, d)
  BY <1>2, QueuedIsAState DEF Download
<1>4. queue' = [queue EXCEPT ![k] = queue[k] \union {d}]
  BY <1>1, <1>2 DEF ImportInv
<1>5. \A e \in queue[k] : e.release # r
  BY <1>1
<1>6. k \in HashKinds => d.id = <<IdForm(k), r>>
  BY DEF IdOf, IdForm
<1>7. d.release = r
  OBVIOUS
<1>8. UNCHANGED <<setup, clients, done, started>>
  BY DEF AddTorrent
<1> HIDE DEF k, d
<1>9. \A e \in queue[k] \union {d} : Download(k, e)
  BY <1>2, <1>3 DEF ImportInv
<1>10. ASSUME k \in HashKinds
       PROVE  \A e, f \in queue[k] \union {d} :
                e.id = <<IdForm(k), e.release>> /\ (e.release = f.release => e = f)
  BY <1>5, <1>6, <1>7, <1>10 DEF ImportInv, KnownOnce
<1> QED BY <1>2, <1>4, <1>8, <1>9, <1>10, QueueStep

\* A download that goes on to another state keeps its release and its id.
LEMMA ChangeKeeps ==
  ASSUME ImportInv, NEW k \in Kinds, NEW from, NEW s, Change(k, from, s) PROVE ImportInv'
<1>1. PICK d \in queue[k] : queue' = [queue EXCEPT ![k] = (@ \ {d}) \union {[d EXCEPT !.state = s]}]
  BY DEF Change
<1> DEFINE e == [release |-> d.release, id |-> d.id, state |-> s, label |-> d.label]
<1>2. Download(k, d)
  BY DEF ImportInv
<1>3. [d EXCEPT !.state = s] = e
  BY <1>2 DEF Download
<1>4. queue' = [queue EXCEPT ![k] = (queue[k] \ {d}) \union {e}]
  BY <1>1, <1>3 DEF ImportInv
<1>5. Download(k, e) /\ e.id = d.id /\ e.release = d.release
  BY DEF Change, Download
<1>6. UNCHANGED <<setup, clients, done, started>>
  BY DEF Change
<1> HIDE DEF e
<1>7. \A f \in (queue[k] \ {d}) \union {e} : Download(k, f)
  BY <1>5 DEF ImportInv
<1>8. ASSUME k \in HashKinds
      PROVE  \A f, g \in (queue[k] \ {d}) \union {e} :
               f.id = <<IdForm(k), f.release>> /\ (f.release = g.release => f = g)
  <2>1. KnownOnce(k)
    BY <1>8 DEF ImportInv
  <2>2. e.id = <<IdForm(k), e.release>>
    BY <1>5, <2>1 DEF KnownOnce
  <2>3. \A f \in queue[k] : f.id = <<IdForm(k), f.release>> /\ (f.release = e.release => f = d)
    BY <1>5, <2>1 DEF KnownOnce
  <2>4. \A f, g \in queue[k] : f.release = g.release => f = g
    BY <2>1 DEF KnownOnce
  <2> QED BY <2>2, <2>3, <2>4
<1> QED BY <1>4, <1>6, <1>7, <1>8, QueueStep

\* A download that is removed leaves the others as they are.
LEMMA RemoveKeeps == ASSUME ImportInv, NEW k \in Kinds, RemoveDownload(k) PROVE ImportInv'
<1>1. PICK d \in queue[k] : queue' = [queue EXCEPT ![k] = queue[k] \ {d}]
  BY DEF RemoveDownload, ImportInv
<1>2. UNCHANGED <<setup, clients, done, started>>
  BY DEF RemoveDownload
<1>3. \A e \in queue[k] \ {d} : Download(k, e)
  BY DEF ImportInv
<1>4. ASSUME k \in HashKinds
      PROVE  \A e, f \in queue[k] \ {d} :
               e.id = <<IdForm(k), e.release>> /\ (e.release = f.release => e = f)
  BY <1>4 DEF ImportInv, KnownOnce
<1> QED BY <1>1, <1>2, <1>3, <1>4, QueueStep

\* Daemons that start again give new numbers, and hashes stay.
LEMMA RenumberKeeps == ASSUME ImportInv, NEW k \in Kinds, Renumber(k) PROVE ImportInv'
<1>1. PICK num \in Injection(queue[k], 1..Cardinality(queue[k])) :
        queue' = [queue EXCEPT ![k] = {[d EXCEPT !.id = <<"number", num[d]>>] : d \in @}]
  BY DEF Renumber
<1> DEFINE renamed == {[d EXCEPT !.id = <<"number", num[d]>>] : d \in queue[k]}
<1>2. queue' = [queue EXCEPT ![k] = renamed]
  BY <1>1 DEF ImportInv
<1>3. UNCHANGED <<setup, clients, done, started>> /\ k \notin HashKinds
  BY DEF Renumber, HashKinds
<1>4. ASSUME NEW e \in renamed PROVE Download(k, e)
  <2>1. PICK d \in queue[k] : e = [d EXCEPT !.id = <<"number", num[d]>>]
    OBVIOUS
  <2>2. Download(k, d)
    BY DEF ImportInv
  <2>3. e = [release |-> d.release, id |-> <<"number", num[d]>>, state |-> d.state, label |-> d.label]
    BY <2>1, <2>2 DEF Download
  <2> QED BY <2>2, <2>3 DEF Download
<1> HIDE DEF renamed
<1> QED BY <1>2, <1>3, <1>4, QueueStep

\* A poll imports what it has not done, and remembers it.
LEMMA PollKeeps == ASSUME ImportInv, NEW i \in DOMAIN clients, Poll(i) PROVE ImportInv'
<1> DEFINE k == clients[i].kind
           new == {d \in GetDownloads(i) : MapState(k)[d.state] = "completed" /\ d.id \notin done}
           there == {d \in new : NewClient(k).path # "none"}
<1>1. /\ started' = started \union {<<k, d.release, d.state, StartedBefore(k, d.release)>> : d \in there}
      /\ \A d \in there : d.id \in done'
      /\ done \subseteq done'
      /\ UNCHANGED <<setup, clients, queue>>
  BY DEF Poll
<1>2. k \in Kinds /\ \A d \in there : d \in queue[k] /\ d.id \notin done
  BY DEF ImportInv, GetDownloads
<1>3. ASSUME NEW d \in there
      PROVE  d.state \in {"seeding", "stopped"} \/ (k = "qbittorrent" /\ d.state = "moving")
  <2>1. d.state \in DOMAIN MapState(k) /\ MapState(k)[d.state] = "completed"
    BY <1>2 DEF ImportInv, Download
  <2>2. d.state \in {"seeding", "stopped"} \/ (d.state = "moving" /\ k \in {"qbittorrent", "sabnzbd"})
    BY <1>2, <2>1, CompletedIsInPlace
  <2>3. k # "sabnzbd"
    BY DEF NewClient, Sabnzbd
  <2> QED BY <2>2, <2>3
<1> HIDE DEF k, new, there
<1>4. ImportedInPlace'
  BY <1>1, <1>3 DEF ImportInv, ImportedOnceInPlace, ImportedInPlace
<1>5. ASSUME k \in HashKinds, NEW d \in there
      PROVE  <<IdForm(k), d.release>> \in done' /\ <<IdForm(k), d.release>> \notin done
  BY <1>1, <1>2, <1>5 DEF ImportInv, KnownOnce
<1>6. Remembered'
  BY <1>1, <1>5 DEF ImportInv, Remembered
<1>7. \A x \in started' : Import(x)
  BY <1>1, <1>2 DEF ImportInv, Import
<1>8. OneImportPerHash'
  <2> SUFFICES ASSUME NEW x \in started', NEW y \in started', x[2] = y[2],
                      IdForm(x[1]) = IdForm(y[1]), x[1] \in HashKinds
               PROVE  x = y /\ ~x[4]
    BY DEF OneImportPerHash, IdForm
  <2>0. y[1] \in HashKinds
    BY <1>7 DEF Import, HashKinds, IdForm
  <2>1. CASE x \in started /\ y \in started
    BY <2>1 DEF ImportInv, ImportedOnceInPlace, OneImportPerHash, IdForm
  <2>2. CASE x \notin started /\ y \notin started
    <3>1. PICK d \in there : x = <<k, d.release, d.state, StartedBefore(k, d.release)>>
      BY <1>1, <2>2
    <3>2. PICK e \in there : y = <<k, e.release, e.state, StartedBefore(k, e.release)>>
      BY <1>1, <2>2
    <3>3. k \in HashKinds /\ d = e
      BY <1>2, <3>1, <3>2 DEF ImportInv, KnownOnce
    <3>4. ~StartedBefore(k, d.release)
      <4> SUFFICES ASSUME NEW z \in started, z[2] = d.release, IdForm(z[1]) = IdForm(k) PROVE FALSE
        BY DEF StartedBefore, IdForm
      <4>1. z[1] \in HashKinds
        BY <3>3 DEF ImportInv, Import, HashKinds, IdForm
      <4> QED BY <1>5, <3>3, <4>1 DEF ImportInv, Remembered
    <3> QED BY <3>1, <3>2, <3>3, <3>4
  <2>3. CASE x \in started /\ y \notin started
    <3>1. PICK e \in there : y = <<k, e.release, e.state, StartedBefore(k, e.release)>>
      BY <1>1, <2>3
    <3>2. k \in HashKinds /\ <<IdForm(k), e.release>> \in done
      BY <2>0, <2>3, <3>1 DEF ImportInv, Remembered
    <3> QED BY <1>5, <3>2
  <2>4. CASE x \notin started /\ y \in started
    <3>1. PICK d \in there : x = <<k, d.release, d.state, StartedBefore(k, d.release)>>
      BY <1>1, <2>4
    <3>2. k \in HashKinds /\ <<IdForm(k), d.release>> \in done
      BY <2>0, <2>4, <3>1 DEF ImportInv, Remembered
    <3> QED BY <1>5, <3>2
  <2> QED BY <2>1, <2>2, <2>3, <2>4
<1> QED BY <1>1, <1>4, <1>6, <1>7, <1>8 DEF ImportInv, ImportedOnceInPlace, KnownOnce

\* Users, daemons and the monitor keep the invariant.
LEMMA ImportStep == ASSUME ImportInv, [Next]_downloadVars PROVE ImportInv'
<1> USE DEF ImportInv, ImportedOnceInPlace, ImportedInPlace, OneImportPerHash, KnownOnce, Remembered
<1>0. CASE UNCHANGED downloadVars
  BY <1>0 DEF downloadVars
<1>1. ASSUME NEW c \in setup, CreateDownloadClient(c) PROVE ImportInv'
  BY SMTT(40), <1>1 DEF CreateDownloadClient
<1>2. ASSUME NEW i \in DOMAIN clients, UpdateDownloadClient(i) PROVE ImportInv'
  BY SMTT(40), <1>2 DEF UpdateDownloadClient
<1>3. ASSUME NEW i \in DOMAIN clients, DeleteDownloadClient(i) PROVE ImportInv'
  BY SMTT(40), <1>3 DEF DeleteDownloadClient
<1>4. CASE NewDownloadMonitor
  BY <1>4 DEF NewDownloadMonitor
<1>5. ASSUME NEW k \in {c.kind : c \in setup},
             PauseDownload(k) \/ ResumeDownload(k) \/ Proceed(k) \/ RemoveDownload(k) \/ Renumber(k)
      PROVE  ImportInv'
  <2>1. k \in Kinds
    OBVIOUS
  <2>2. ASSUME NEW from, NEW s, Change(k, from, s) PROVE ImportInv'
    BY <2>1, <2>2, ChangeKeeps
  <2> QED BY <1>5, <2>1, <2>2, RemoveKeeps, RenumberKeeps DEF PauseDownload, ResumeDownload, Proceed
<1> QED
  BY <1>0, <1>1, <1>2, <1>3, <1>4, <1>5, AddKeeps, PollKeeps DEF Next

\* A download that is known by a number has one of the first n.
Numbered(k, d, n) == d.id = <<IdForm(k), d.id[2]>> /\ d.id[2] \in 1..n

\* Numbers are given in order, and those of the downloads of a daemon differ; what the
\* monitor remembers is the ids of downloads, and it counts to the threshold.
NumbersInv ==
  /\ lastNumber \in [Kinds -> 0..MaxId]
  /\ \A k \in Kinds : \A d \in queue[k] :
       d.release \in Releases /\ (k \notin HashKinds => Numbered(k, d, lastNumber[k]))
  /\ \A k \in Kinds \ HashKinds : \A d, e \in queue[k] : d.id = e.id => d = e
  /\ DOMAIN clients \subseteq 1..MaxClient
  /\ done \subseteq Ids
  /\ missing \in [Ids -> 0..(NotFoundThreshold - 1)]

DownloadInv == ImportInv /\ NumbersInv

\* The downloads of one daemon differ in their ids, be they hashes or numbers.
LEMMA IdsDiffer ==
  ASSUME DownloadInv, NEW k \in Kinds
  PROVE  \A d, e \in queue[k] : d.id \in Ids /\ (d.id = e.id => d = e)
<1>1. CASE k \in HashKinds
  <2>1. \A r \in Releases : <<IdForm(k), r>> \in Ids
    BY <1>1 DEF Ids, HashKinds, IdForm
  <2>2. \A d, e \in queue[k] : d.id = <<IdForm(k), d.release>> /\ (d.release = e.release => d = e)
    BY <1>1 DEF DownloadInv, ImportInv, KnownOnce
  <2>3. \A d \in queue[k] : d.release \in Releases
    BY DEF DownloadInv, NumbersInv
  <2>4. \A d, e \in queue[k] : d.id = e.id => d.release = e.release
    BY <2>2
  <2> QED BY <2>1, <2>2, <2>3, <2>4
<1>2. CASE k \notin HashKinds
  <2>1. IdForm(k) \in {"number", "fresh"}
    BY <1>2, IdForms DEF HashKinds, IdForm
  <2>2. \A n \in 1..lastNumber[k] : n \in 1..MaxId
    BY Limits DEF DownloadInv, NumbersInv
  <2>3. \A n \in 1..MaxId : <<IdForm(k), n>> \in Ids
    BY <2>1 DEF Ids
  <2>4. \A d \in queue[k] : d.id = <<IdForm(k), d.id[2]>> /\ d.id[2] \in 1..lastNumber[k]
    BY <1>2 DEF DownloadInv, NumbersInv, Numbered
  <2>5. \A d, e \in queue[k] : d.id = e.id => d = e
    BY <1>2 DEF DownloadInv, NumbersInv
  <2>6. ASSUME NEW d \in queue[k] PROVE d.id \in Ids
    <3> DEFINE n == d.id[2]
    <3>1. n \in 1..MaxId /\ d.id = <<IdForm(k), n>>
      BY <2>2, <2>4
    <3> HIDE DEF n
    <3> QED BY <2>3, <3>1
  <2> QED BY <2>5, <2>6
<1> QED BY <1>1, <1>2

\* The invariant has the forms that TypeOK states.
LEMMA DownloadTypes == DownloadInv => TypeOK
<1> SUFFICES ASSUME DownloadInv PROVE TypeOK
  OBVIOUS
<1>1. \A i \in DOMAIN clients : i \in 1..MaxClient /\ clients[i].kind \in Kinds
  BY DEF DownloadInv, ImportInv, NumbersInv
<1>2. \A k \in Kinds : \A d, e \in queue[k] : d.state \in DOMAIN MapState(k) /\ (d.id = e.id => d = e)
  BY IdsDiffer DEF DownloadInv, ImportInv, Download
<1>3. \A x \in DOMAIN missing : missing[x] < NotFoundThreshold
  BY Limits DEF DownloadInv, NumbersInv
<1> QED BY <1>1, <1>2, <1>3 DEF TypeOK, DownloadInv, NumbersInv, Ids

\* At first no number is given.
LEMMA NumbersInit == Init => NumbersInv
  BY Limits DEF Init, NumbersInv, Ids

\* A change of one daemon's queue that keeps its numbers apart keeps the invariant.
LEMMA NumbersQueue ==
  ASSUME DownloadInv, NEW k \in Kinds, NEW q, NEW n \in 0..MaxId,
         queue' = [queue EXCEPT ![k] = q], lastNumber' = [lastNumber EXCEPT ![k] = n],
         \A d \in q : d.release \in Releases,
         k \notin HashKinds =>
           \A d, e \in q : Numbered(k, d, n) /\ (d.id = e.id => d = e),
         UNCHANGED <<clients, done, missing>>
  PROVE  NumbersInv'
<1>1. \A j \in Kinds : queue'[j] = IF j = k THEN q ELSE queue[j]
  BY DEF DownloadInv, ImportInv
<1>2. /\ lastNumber' \in [Kinds -> 0..MaxId]
      /\ \A j \in Kinds : lastNumber'[j] = IF j = k THEN n ELSE lastNumber[j]
  BY DEF DownloadInv, NumbersInv
<1>3. \A j \in Kinds : \A d \in queue'[j] :
        d.release \in Releases /\ (j \notin HashKinds => Numbered(j, d, lastNumber'[j]))
  BY <1>1, <1>2 DEF DownloadInv, NumbersInv
<1>4. \A j \in Kinds \ HashKinds : \A d, e \in queue'[j] : d.id = e.id => d = e
  BY <1>1 DEF DownloadInv, NumbersInv
<1> QED BY <1>2, <1>3, <1>4 DEF DownloadInv, NumbersInv

\* A new download gets the number after the last.
LEMMA NumbersAdd == ASSUME DownloadInv, NEW r \in Releases, AddTorrent(r) PROVE NumbersInv'
<1>1. PICK i \in Targets(r) :
        LET k == clients[i].kind
            n == lastNumber[k] + 1 IN
        /\ n <= MaxId
        /\ queue' = [queue EXCEPT ![k] = @ \union
             {[release |-> r, id |-> IdOf(k, r, n), state |-> "queued",
               label |-> clients[i].category /\ NewClient(k).adds]}]
        /\ lastNumber' = [lastNumber EXCEPT ![k] = n]
  BY DEF AddTorrent
<1> DEFINE k == clients[i].kind
           n == lastNumber[k] + 1
           d == [release |-> r, id |-> IdOf(k, r, n),
                 state |-> "queued", label |-> clients[i].category /\ NewClient(k).adds]
<1>2. k \in Kinds
  BY DEF DownloadInv, ImportInv, Targets
<1>3. lastNumber[k] \in 0..MaxId /\ n \in 0..MaxId
  BY <1>1, <1>2, Limits DEF DownloadInv, NumbersInv
<1>4. queue' = [queue EXCEPT ![k] = queue[k] \union {d}] /\ lastNumber' = [lastNumber EXCEPT ![k] = n]
  BY <1>1, <1>2 DEF DownloadInv, ImportInv
<1>5. d.release = r /\ (k \notin HashKinds => d.id = <<IdForm(k), n>>)
  BY DEF IdOf, IdForm
<1>6. n = lastNumber[k] + 1
  OBVIOUS
<1>7. UNCHANGED <<clients, done, missing>>
  BY DEF AddTorrent
<1> HIDE DEF k, n, d
<1>8. \A e \in queue[k] \union {d} : e.release \in Releases
  BY <1>2, <1>5 DEF DownloadInv, NumbersInv
<1>9. ASSUME k \notin HashKinds, NEW e \in queue[k] PROVE Numbered(k, e, n) /\ e.id[2] # n
  <2>1. Numbered(k, e, lastNumber[k])
    BY <1>2, <1>9 DEF DownloadInv, NumbersInv
  <2> QED BY <1>3, <1>6, <2>1 DEF Numbered
<1>10. ASSUME k \notin HashKinds
       PROVE  \A e, f \in queue[k] \union {d} : Numbered(k, e, n) /\ (e.id = f.id => e = f)
  <2>1. d.id = <<IdForm(k), n>> /\ n \in 1..n
    BY <1>3, <1>5, <1>6, <1>10, Limits
  <2>2. \A e, f \in queue[k] : e.id = f.id => e = f
    BY <1>2, <1>10 DEF DownloadInv, NumbersInv
  <2>3. Numbered(k, d, n) /\ d.id[2] = n
    BY <2>1 DEF Numbered
  <2> QED BY <1>9, <1>10, <2>2, <2>3
<1> QED BY <1>2, <1>3, <1>4, <1>7, <1>8, <1>10, NumbersQueue

\* A download keeps its number as it goes on.
LEMMA NumbersChange ==
  ASSUME DownloadInv, NEW k \in Kinds, NEW from, NEW s, Change(k, from, s) PROVE NumbersInv'
<1>1. PICK d \in queue[k] : queue' = [queue EXCEPT ![k] = (@ \ {d}) \union {[d EXCEPT !.state = s]}]
  BY DEF Change
<1> DEFINE e == [release |-> d.release, id |-> d.id, state |-> s, label |-> d.label]
           q == (queue[k] \ {d}) \union {e}
<1>2. [d EXCEPT !.state = s] = e
  BY DEF DownloadInv, ImportInv, Download
<1>3. queue' = [queue EXCEPT ![k] = q]
  BY <1>1, <1>2 DEF DownloadInv, ImportInv
<1>4. UNCHANGED <<clients, done, missing, lastNumber>>
  BY DEF Change
<1>5. lastNumber[k] \in 0..MaxId /\ lastNumber' = [lastNumber EXCEPT ![k] = lastNumber[k]]
  BY <1>4 DEF DownloadInv, NumbersInv
<1>6. e.id = d.id /\ e.release = d.release
  OBVIOUS
<1> HIDE DEF e
<1>7. \A f \in q : f.release \in Releases
  BY <1>6 DEF DownloadInv, NumbersInv
<1>8. ASSUME k \notin HashKinds
      PROVE  \A f, g \in q : Numbered(k, f, lastNumber[k]) /\ (f.id = g.id => f = g)
  BY <1>6, <1>8 DEF DownloadInv, NumbersInv, Numbered
<1> HIDE DEF q
<1> QED BY <1>3, <1>4, <1>5, <1>7, <1>8, NumbersQueue

\* Numbers are not given back.
LEMMA NumbersRemove == ASSUME DownloadInv, NEW k \in Kinds, RemoveDownload(k) PROVE NumbersInv'
<1>1. PICK d \in queue[k] : queue' = [queue EXCEPT ![k] = queue[k] \ {d}]
  BY DEF RemoveDownload, DownloadInv, ImportInv
<1>2. UNCHANGED <<clients, done, missing, lastNumber>>
  BY DEF RemoveDownload
<1>3. lastNumber[k] \in 0..MaxId /\ lastNumber' = [lastNumber EXCEPT ![k] = lastNumber[k]]
  BY <1>2 DEF DownloadInv, NumbersInv
<1> DEFINE q == queue[k] \ {d}
<1>4. /\ \A e \in q : e.release \in Releases
      /\ k \notin HashKinds => \A e, f \in q : Numbered(k, e, lastNumber[k]) /\ (e.id = f.id => e = f)
  BY DEF DownloadInv, NumbersInv
<1>5. queue' = [queue EXCEPT ![k] = q]
  BY <1>1
<1> HIDE DEF q
<1> QED BY <1>2, <1>3, <1>4, <1>5, NumbersQueue

\* A daemon has no more downloads than numbers, so that new ones fit.
LEMMA NumbersRenumber == ASSUME DownloadInv, NEW k \in Kinds, Renumber(k) PROVE NumbersInv'
<1> DEFINE c == Cardinality(queue[k])
           old == [d \in queue[k] |-> d.id[2]]
           last == lastNumber[k]
           all == queue[k]
<1>1. PICK num \in Injection(queue[k], 1..c) :
        queue' = [queue EXCEPT ![k] = {[d EXCEPT !.id = <<"number", num[d]>>] : d \in @}]
  BY DEF Renumber
<1>2. k \notin HashKinds /\ IdForm(k) = "number" /\ UNCHANGED <<clients, done, missing>> /\ lastNumber' = [lastNumber EXCEPT ![k] = c]
  BY DEF Renumber, HashKinds, IdForm
<1>3. last \in 0..MaxId
  BY DEF DownloadInv, NumbersInv
<1>4. old \in Injection(all, 1..last)
  BY <1>2 DEF DownloadInv, NumbersInv, Numbered, Injection, IsInjective
<1>5. c \in 0..MaxId
  <2> HIDE DEF old, last
  <2>1. last \in Int /\ last >= 0 /\ last <= MaxId
    BY <1>3, Limits
  <2>2. IsFiniteSet(1..last) /\ Cardinality(1..last) = last
    BY <2>1, FS_Interval
  <2> HIDE DEF all
  <2>3. IsFiniteSet(all) /\ Cardinality(all) <= last
    BY <1>4, <2>2, FS_Injection
  <2>4. Cardinality(all) \in Nat
    BY <2>3, FS_CardinalityType
  <2>5. Cardinality(all) \in 0..MaxId
    BY <2>1, <2>3, <2>4, Limits
  <2> QED BY <2>5 DEF all
<1> DEFINE q == {[d EXCEPT !.id = <<"number", num[d]>>] : d \in queue[k]}
<1>6. queue' = [queue EXCEPT ![k] = q]
  BY <1>1 DEF DownloadInv, ImportInv
<1> HIDE DEF c, old, last, all
<1>7. /\ \A d \in queue[k] : num[d] \in 1..c
      /\ \A d, e \in queue[k] : num[d] = num[e] => d = e
  BY <1>1 DEF Injection, IsInjective
<1>8. ASSUME NEW e \in q
      PROVE  \E d \in queue[k] :
               /\ e = [d EXCEPT !.id = <<"number", num[d]>>] /\ e.release = d.release
               /\ e.id = <<"number", num[d]>>
  <2>1. PICK d \in queue[k] : e = [d EXCEPT !.id = <<"number", num[d]>>]
    OBVIOUS
  <2>2. Download(k, d)
    BY DEF DownloadInv, ImportInv
  <2>3. e = [release |-> d.release, id |-> <<"number", num[d]>>, state |-> d.state, label |-> d.label]
    BY <2>1, <2>2 DEF Download
  <2> QED BY <2>1, <2>3
<1>9. \A e \in q : e.release \in Releases
  BY <1>8 DEF DownloadInv, NumbersInv
<1>10. \A e, f \in q : Numbered(k, e, c) /\ (e.id = f.id => e = f)
  BY <1>2, <1>7, <1>8 DEF Numbered
<1> HIDE DEF q
<1> QED BY <1>2, <1>5, <1>6, <1>9, <1>10, NumbersQueue

\* The greatest number of the clients is one of them, or none is there.
LEMMA GreatestClient ==
  ASSUME NEW S, S \subseteq 0..MaxClient, S # {} PROVE Max(S) \in S
<1> DEFINE T == {m \in Nat : m <= MaxClient /\ MaxClient - m \in S}
<1>1. PICK x \in S : x \in 0..MaxClient
  OBVIOUS
<1>2. MaxClient - x \in T
  BY <1>1, Limits
<1>3. PICK m \in T : \A n \in T : m <= n
  BY <1>2, LeastNumber
<1>4. ASSUME NEW y \in S PROVE MaxClient - m >= y
  <2>1. MaxClient - y \in T
    BY Limits
  <2> QED BY <1>3, <2>1, Limits
<1>5. \E g \in S : \A y \in S : g >= y
  BY <1>3, <1>4
<1> QED BY <1>5 DEF Max

\* A poll counts a download that is missing once, and not beyond the threshold.
LEMMA NumbersPoll == ASSUME DownloadInv, NEW i \in DOMAIN clients, Poll(i) PROVE NumbersInv'
<1> DEFINE k == clients[i].kind
           new == {d \in GetDownloads(i) : MapState(k)[d.state] = "completed" /\ d.id \notin done}
           there == {d \in new : NewClient(k).path # "none"}
           gone == {d \in new \ there : missing[d.id] + 1 >= NotFoundThreshold}
           of(x) == {d \in new : d.id = x}
<1>1. /\ done' = done \union {d.id : d \in there \union gone}
      /\ missing' = [x \in DOMAIN missing |->
                       IF \E d \in there \union gone : d.id = x THEN 0
                       ELSE missing[x] + Cardinality(of(x))]
      /\ UNCHANGED <<setup, clients, queue, lastNumber>>
  BY DEF Poll
<1>2. k \in Kinds
  BY DEF DownloadInv, ImportInv
<1>3. \A d \in new : d \in queue[k]
  BY DEF GetDownloads
<1>4. \A d, e \in new : d.id \in Ids /\ (d.id = e.id => d = e)
  BY <1>2, <1>3, IdsDiffer
<1>5. done' \subseteq Ids
  BY <1>1, <1>4 DEF DownloadInv, NumbersInv
<1>6. ASSUME NEW x \in Ids PROVE missing'[x] \in 0..(NotFoundThreshold - 1)
  <2>1. missing[x] \in 0..(NotFoundThreshold - 1) /\ x \in DOMAIN missing
    BY DEF DownloadInv, NumbersInv
  <2> DEFINE handled == \E d \in there \union gone : d.id = x
             more == Cardinality(of(x))
  <2>0. missing'[x] = IF handled THEN 0 ELSE missing[x] + more
    BY <1>1, <2>1
  <2> HIDE DEF handled, more
  <2>2. CASE handled
    BY <2>0, <2>2, Limits
  <2>3. CASE of(x) = {}
    <3>1. more = 0
      BY <2>3, FS_EmptySet DEF more
    <3> QED BY <2>0, <2>1, <3>1, Limits
  <2>4. ASSUME NEW d \in of(x), ~ handled
        PROVE  missing'[x] \in 0..(NotFoundThreshold - 1)
    <3>1. of(x) = {d}
      BY <1>4
    <3>2. more = 1
      BY <3>1, FS_Singleton DEF more
    <3>3. ~ (missing[x] + 1 >= NotFoundThreshold)
      BY <2>4 DEF handled
    <3> QED BY <2>0, <2>1, <2>4, <3>2, <3>3, Limits
  <2> QED BY <2>2, <2>3, <2>4
<1>7. missing' \in [Ids -> 0..(NotFoundThreshold - 1)]
  <2>1. DOMAIN missing = Ids
    BY DEF DownloadInv, NumbersInv
  <2> DEFINE f == missing'
  <2>2. f = [x \in Ids |-> f[x]]
    BY <1>1, <2>1
  <2> HIDE DEF f
  <2>3. \A x \in Ids : f[x] \in 0..(NotFoundThreshold - 1)
    BY <1>6 DEF f
  <2>4. f \in [Ids -> 0..(NotFoundThreshold - 1)]
    BY ONLY <2>2, <2>3
  <2> QED BY <2>4 DEF f
<1> HIDE DEF k, new, there, gone
<1> QED BY <1>1, <1>5, <1>7 DEF DownloadInv, NumbersInv

\* Users, daemons and the monitor keep numbers and counts as they should be.
LEMMA NumbersStep == ASSUME DownloadInv, [Next]_downloadVars PROVE NumbersInv'
<1>0. CASE UNCHANGED downloadVars
  BY <1>0 DEF downloadVars, DownloadInv, NumbersInv
<1>1. ASSUME NEW c \in setup, CreateDownloadClient(c) PROVE NumbersInv'
  <2> DEFINE S == DOMAIN clients \union {0}
             id == Max(S) + 1
  <2>1. /\ id <= MaxClient /\ UNCHANGED <<setup, queue, lastNumber, done, missing, started>>
        /\ DOMAIN clients' = DOMAIN clients \union {id}
    BY <1>1 DEF CreateDownloadClient
  <2>2. S \subseteq 0..MaxClient /\ S # {}
    BY Limits DEF DownloadInv, NumbersInv
  <2>3. Max(S) \in S
    BY <2>2, GreatestClient
  <2>4. id \in 1..MaxClient
    BY <2>1, <2>2, <2>3, Limits
  <2> QED BY <2>1, <2>4 DEF DownloadInv, NumbersInv
<1>2. ASSUME NEW i \in DOMAIN clients, UpdateDownloadClient(i) \/ DeleteDownloadClient(i) PROVE NumbersInv'
  <2>1. DOMAIN clients' \subseteq DOMAIN clients /\ UNCHANGED <<queue, lastNumber, done, missing>>
    BY <1>2 DEF UpdateDownloadClient, DeleteDownloadClient
  <2> QED BY <2>1 DEF DownloadInv, NumbersInv
<1>3. ASSUME NEW i \in DOMAIN clients, Poll(i) PROVE NumbersInv'
  BY <1>3, NumbersPoll
<1>4. CASE NewDownloadMonitor
  <2>1. missing' \in [Ids -> 0..(NotFoundThreshold - 1)]
    BY <1>4, Limits DEF NewDownloadMonitor, DownloadInv, NumbersInv
  <2> QED BY <1>4, <2>1 DEF NewDownloadMonitor, DownloadInv, NumbersInv
<1>5. ASSUME NEW k \in {c.kind : c \in setup},
             PauseDownload(k) \/ ResumeDownload(k) \/ Proceed(k) \/ RemoveDownload(k) \/ Renumber(k)
      PROVE  NumbersInv'
  <2>1. k \in Kinds
    BY DEF DownloadInv, ImportInv
  <2>2. ASSUME NEW from, NEW s, Change(k, from, s) PROVE NumbersInv'
    BY <2>1, <2>2, NumbersChange
  <2> QED BY <1>5, <2>1, <2>2, NumbersRemove, NumbersRenumber DEF PauseDownload, ResumeDownload, Proceed
<1> QED BY <1>0, <1>1, <1>2, <1>3, <1>4, <1>5, NumbersAdd DEF Next

\* Both invariants of the downloads are kept.
LEMMA DownloadStep == ASSUME DownloadInv, [Next]_downloadVars PROVE DownloadInv'
<1>1. ImportInv'
  BY ImportStep DEF DownloadInv
<1>2. NumbersInv'
  BY NumbersStep
<1> QED BY <1>1, <1>2 DEF DownloadInv

-----------------------------------------------------------------------------
(* The services.                                                           *)

\* A part has its invariant whichever part is run: it stands, or takes its steps.
AgentInv == Agent!TypeOK /\ Agent!SessionsOfTheListed

ServicesInv ==
  /\ DownloadInv /\ BrowserInv /\ AgentInv /\ EventInv /\ RequestInv /\ UpdateInv /\ SearchInv

\* Every part starts with its invariant.
LEMMA ServicesStart == ServicesInit => ServicesInv
<1> SUFFICES ASSUME ServicesInit PROVE ServicesInv
  OBVIOUS
<1>1. DownloadInv
  BY ImportInit, NumbersInit DEF ServicesInit, DownloadInv
<1>2. BrowserInv /\ AgentInv
  BY BrowserInit, AgentInit DEF ServicesInit, AgentInv
<1>3. EventInv /\ RequestInv
  BY EventInit, RequestInit DEF ServicesInit
<1>4. UpdateInv /\ SearchInv
  BY UpdateInit, SearchInit DEF ServicesInit
<1> QED BY <1>1, <1>2, <1>3, <1>4 DEF ServicesInv

\* A step of the services is one of each part, or leaves it alone.
LEMMA EveryPart ==
  ASSUME [ServicesNext]_vars
  PROVE  /\ [Next]_downloadVars /\ [Browser!Next]_browserVars /\ [Agent!Next]_agentVars
         /\ [Event!Next]_eventVars /\ [Ask!Next]_requestVars /\ [Update!Next]_updateVars
         /\ [Search!Next]_searchVars
<1>1. CASE RunDownloads BY <1>1 DEF RunDownloads
<1>2. CASE RunBrowser BY <1>2 DEF RunBrowser
<1>3. CASE RunAgent BY <1>3 DEF RunAgent
<1>4. CASE RunEvent BY <1>4 DEF RunEvent
<1>5. CASE RunAsk BY <1>5 DEF RunAsk
<1>6. CASE RunUpdate BY <1>6 DEF RunUpdate
<1>7. CASE RunSearch BY <1>7 DEF RunSearch
<1>8. CASE UNCHANGED vars BY <1>8 DEF vars
<1> QED BY <1>1, <1>2, <1>3, <1>4, <1>5, <1>6, <1>7, <1>8 DEF ServicesNext

\* Every step of the services keeps the invariants of all parts.
LEMMA ServicesKept == ASSUME ServicesInv, [ServicesNext]_vars PROVE ServicesInv'
<1>1. DownloadInv'
  BY EveryPart, DownloadStep DEF ServicesInv
<1>2. BrowserInv'
  BY EveryPart, BrowserStep DEF ServicesInv
<1>3. AgentInv'
  BY EveryPart, AgentTypeStep, SessionsStep DEF ServicesInv, AgentInv
<1>4. EventInv'
  BY EveryPart, EventStep DEF ServicesInv
<1>5. RequestInv'
  BY EveryPart, RequestStep DEF ServicesInv
<1>6. UpdateInv'
  BY EveryPart, UpdateStep DEF ServicesInv
<1>7. SearchInv'
  BY EveryPart, SearchStep DEF ServicesInv
<1> QED BY <1>1, <1>2, <1>3, <1>4, <1>5, <1>6, <1>7 DEF ServicesInv

\* So that they hold always.
LEMMA ServicesAlways == Spec => []ServicesInv
<1>1. ServicesInv /\ [ServicesNext]_vars => ServicesInv'
  BY ServicesKept
<1> QED BY <1>1, ServicesStart, PTL DEF Spec

\* What every part keeps has the form the code gives it: ids differ, channels do not
\* outgrow their capacity and take nothing once they are closed, attempts that count do
\* not outgrow the limit, and scores are percentages.
THEOREM TypeCorrect == Spec => []ServicesTypeOK
<1>1. ServicesInv => ServicesTypeOK
  <2> SUFFICES ASSUME ServicesInv PROVE ServicesTypeOK
    OBVIOUS
  <2>1. TypeOK /\ Search!TypeOK
    BY DownloadTypes, SearchInvImplies DEF ServicesInv
  <2>2. Browser!TypeOK /\ Agent!TypeOK /\ Event!TypeOK /\ Ask!TypeOK /\ Update!TypeOK
    BY DEF ServicesInv, BrowserInv, AgentInv, EventInv, RequestInv, UpdateInv, FileInv
  <2> QED BY <2>1, <2>2 DEF ServicesTypeOK
<1> QED BY <1>1, ServicesAlways, PTL

\* However often the server and the daemons start again, and whatever the user adds,
\* removes and configures: imports are of downloads that are complete and not on their
\* way, and while the saved set is kept a torrent is imported once for the clients that
\* spell its hash in one way (download_monitor.go:97-190).
THEOREM ImportsOnce == Spec => []ImportedOnceInPlace
<1>1. ServicesInv => ImportedOnceInPlace
  BY DEF ServicesInv, DownloadInv, ImportInv
<1> QED BY <1>1, ServicesAlways, PTL

\* A challenge makes one session at most, a one-time password lets one in, and visitors
\* do not make more attempts than the limit in a window, in whatever order their requests
\* are handled (auth.go:27-46, :134-190, :256-275).
THEOREM SignInIsLimited == Spec => []SignInLimited
<1>1. ServicesInv => SignInLimited
  BY DEF ServicesInv, BrowserInv, SignInLimited
<1> QED BY <1>1, ServicesAlways, PTL

\* However registrations and deletions interleave, a session is of an agent that is on
\* the list, is being put there, or is being deleted (agents.go:106-187).
THEOREM SessionsAreListed == Spec => []SessionsOfTheListed
<1>1. ServicesInv => SessionsOfTheListed
  BY DEF ServicesInv, AgentInv, SessionsOfTheListed
<1> QED BY <1>1, ServicesAlways, PTL

\* A browser gets the answer to what it asked, and no number stays pending that nobody
\* waits for (agents.go:906-1018).
THEOREM AnswersAlwaysMatch == Spec => []AnswersMatch
<1>1. ServicesInv => AnswersMatch
  BY DEF ServicesInv, RequestInv, AnswersMatch, Ask!AnswersMatch
<1> QED BY <1>1, ServicesAlways, PTL

\* The binary of a device is whole and of one version at any time, although downloads
\* break off, the agent is killed and checks overlap, unless a check has opened the file
\* between the test of another and its rename, or two wrote different versions into it
\* (client.go:2240-2324).
THEOREM BinaryStaysWhole == Spec => []BinaryIsWhole
<1>1. ServicesInv => BinaryIsWhole
  BY DEF ServicesInv, UpdateInv, FileInv, BinaryIsWhole
<1> QED BY <1>1, ServicesAlways, PTL

\* In whatever order the sources answer, a search streams every release of every indexer
\* that is wanted, each once for its indexer, and the best of a batch first
\* (misc.go:107-175, scorer.go:326-369).
THEOREM SearchIsWhole == Spec => []SearchWhole
<1>1. ServicesInv => SearchWhole
  BY SearchInvImplies DEF ServicesInv, SearchWhole
<1> QED BY <1>1, ServicesAlways, PTL
=============================================================================
