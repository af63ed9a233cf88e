--------------------------- MODULE AgentSessions ---------------------------
(***************************************************************************)
(* Sessions of agents (internal/api/agents.go): an agent answers a         *)
(* challenge, gets a token, is put on the list of the registry, and opens  *)
(* its stream with the token; a user deletes an agent, which takes it off  *)
(* the list and revokes its tokens.  An agent whose stream does not open   *)
(* or has ended registers again (Run, agentclient/client.go).  Handlers    *)
(* run concurrently; what each does under one lock is one step.            *)
(***************************************************************************)
EXTENDS Naturals, FiniteSets

CONSTANTS
  Agents,
  Deleters,  \* requests to delete an agent that run at one time
  MaxToken,  \* bound on registrations that get a token
  MaxFaults, \* bound on deletions, streams that end, sessions that expire and restarts
  None

VARIABLES
  agentNonces,     \* sync.Map: challenges not answered, named for the agents that hold them
  agentSessionMap, \* tokens and their agents
  lastToken,
  listed,          \* the agents of the registry
  agent,           \* where each agent is in Run, and the token of its last registration
  deleting,        \* what each request to delete an agent has done
  faults           \* how often the environment has interfered

agentVars == <<agentNonces, agentSessionMap, lastToken, listed, agent, deleting, faults>>

NotDeleting == [step |-> "none", agent |-> None]

Init ==
  /\ agentNonces = {} /\ agentSessionMap = {} /\ lastToken = 0 /\ listed = {}
  /\ agent = [a \in Agents |-> [step |-> "out", token |-> 0]]
  /\ deleting = [d \in Deleters |-> NotDeleting] /\ faults = 0

Valid(a) == [token |-> agent[a].token, agent |-> a] \in agentSessionMap

Fault == faults < MaxFaults /\ faults' = faults + 1

-----------------------------------------------------------------------------
(* An agent registers and connects.                                        *)

GetAgentChallenge(a) ==
  /\ agent[a].step = "out"
  /\ agentNonces' = agentNonces \union {a}
  /\ agent' = [agent EXCEPT ![a].step = "challenged"]
  /\ UNCHANGED <<agentSessionMap, lastToken, listed, deleting, faults>>

\* RegisterAgent: the challenge is burned and a session stored; a challenge that is too
\* old sends the agent back.
StoreAgentSession(a) ==
  /\ agent[a].step = "challenged" /\ lastToken < MaxToken
  /\ agentNonces' = agentNonces \ {a}
  /\ IF a \in agentNonces
     THEN /\ lastToken' = lastToken + 1
          /\ agentSessionMap' = agentSessionMap \union {[token |-> lastToken + 1, agent |-> a]}
          /\ agent' = [agent EXCEPT ![a] = [step |-> "stored", token |-> lastToken + 1]]
     ELSE /\ agent' = [agent EXCEPT ![a].step = "out"]
          /\ UNCHANGED <<agentSessionMap, lastToken>>
  /\ UNCHANGED <<listed, deleting, faults>>

\* The rest of RegisterAgent, and register when the answer arrives, or does not.
Register(a) ==
  /\ agent[a].step = "stored"
  /\ listed' = listed \union {a}
  /\ \/ agent' = [agent EXCEPT ![a].step = "in"] /\ UNCHANGED faults
     \/ agent' = [agent EXCEPT ![a].step = "out"] /\ Fault
  /\ UNCHANGED <<agentNonces, agentSessionMap, lastToken, deleting>>

\* Run that opens the stream again and does not register again.
ListenSSE_Again(a) ==
  /\ agent[a].step = "in"
  /\ agent' = [agent EXCEPT ![a].step = IF Valid(a) THEN "stream" ELSE "in"]
  /\ UNCHANGED <<agentNonces, agentSessionMap, lastToken, listed, deleting, faults>>

\* listenSSE: agentAuthMiddleware opens the stream to a live session.
ListenSSE(a) ==
  /\ agent[a].step = "in"
  /\ agent' = [agent EXCEPT ![a].step = IF Valid(a) THEN "stream" ELSE "out"]
  /\ UNCHANGED <<agentNonces, agentSessionMap, lastToken, listed, deleting, faults>>

-----------------------------------------------------------------------------
(* A user deletes an agent.                                                *)

FindAgent(d, a) ==
  /\ deleting[d] = NotDeleting /\ a \in listed /\ Fault
  /\ deleting' = [deleting EXCEPT ![d] = [step |-> "found", agent |-> a]]
  /\ UNCHANGED <<agentNonces, agentSessionMap, lastToken, listed, agent>>

SessionsOf(a) == {s \in agentSessionMap : s.agent = a}

\* DeleteAgent that revokes the sessions of an agent before it takes it off the list.
DeleteAgent_SessionsFirst(d) ==
  LET a == deleting[d].agent IN
  /\ \/ /\ deleting[d].step = "found"
        /\ agentSessionMap' = agentSessionMap \ SessionsOf(a)
        /\ deleting' = [deleting EXCEPT ![d].step = "removed"]
        /\ UNCHANGED listed
     \/ /\ deleting[d].step = "removed"
        /\ listed' = listed \ {a}
        /\ deleting' = [deleting EXCEPT ![d] = NotDeleting]
        /\ UNCHANGED agentSessionMap
  /\ UNCHANGED <<agentNonces, lastToken, agent, faults>>

\* Off the list; then without sessions.  The stream the agent has stays open.
DeleteAgent(d) ==
  LET a == deleting[d].agent IN
  /\ \/ /\ deleting[d].step = "found"
        /\ listed' = listed \ {a}
        /\ deleting' = [deleting EXCEPT ![d].step = "removed"]
        /\ UNCHANGED agentSessionMap
     \/ /\ deleting[d].step = "removed"
        /\ agentSessionMap' = agentSessionMap \ SessionsOf(a)
        /\ deleting' = [deleting EXCEPT ![d] = NotDeleting]
        /\ UNCHANGED listed
  /\ UNCHANGED <<agentNonces, lastToken, agent, faults>>

-----------------------------------------------------------------------------
(* The environment.                                                        *)

StreamEnds(a) ==
  /\ agent[a].step = "stream" /\ Fault
  /\ agent' = [agent EXCEPT ![a].step = "out"]
  /\ UNCHANGED <<agentNonces, agentSessionMap, lastToken, listed, deleting>>

\* A challenge is good for a minute, a session for 30 days.
ExpireNonce(a) ==
  /\ a \in agentNonces /\ Fault /\ agentNonces' = agentNonces \ {a}
  /\ UNCHANGED <<agentSessionMap, lastToken, listed, agent, deleting>>

ExpireSession ==
  /\ Fault
  /\ \E s \in agentSessionMap : agentSessionMap' = agentSessionMap \ {s}
  /\ UNCHANGED <<agentNonces, lastToken, listed, agent, deleting>>

\* The server stops and starts: challenges, sessions and requests are gone, the list is
\* on disk; agents find their streams closed and their requests refused.
Restart ==
  /\ Fault
  /\ agentNonces' = {} /\ agentSessionMap' = {}
  /\ agent' = [a \in Agents |->
                 IF agent[a].step \in {"stored", "stream"} THEN [agent[a] EXCEPT !.step = "out"]
                 ELSE agent[a]]
  /\ deleting' = [d \in Deleters |-> NotDeleting]
  /\ UNCHANGED <<lastToken, listed>>

Step(a) == GetAgentChallenge(a) \/ StoreAgentSession(a) \/ Register(a) \/ ListenSSE(a)

Next ==
  \/ \E a \in Agents : Step(a) \/ StreamEnds(a) \/ ExpireNonce(a)
  \/ \E d \in Deleters : DeleteAgent(d) \/ \E a \in Agents : FindAgent(d, a)
  \/ ExpireSession \/ Restart

\* Agents go on registering: Run does not end.
Fairness == \A a \in Agents : WF_agentVars(Step(a))

Spec == Init /\ [][Next]_agentVars /\ Fairness

-----------------------------------------------------------------------------
(* Properties.                                                             *)

\* Sessions, agents and deletions have the form the code gives them.
TypeOK ==
  /\ agentNonces \subseteq Agents /\ listed \subseteq Agents
  /\ lastToken \in 0..MaxToken /\ faults \in 0..MaxFaults
  /\ agentSessionMap \subseteq [token : 1..lastToken, agent : Agents]
  /\ agent \in [Agents -> [step : {"out", "challenged", "stored", "in", "stream"}, token : 0..lastToken]]
  /\ deleting \in [Deleters -> [step : {"none", "found", "removed"}, agent : Agents \union {None}]]

\* No session outlives its agent's place on the list: while the agent is not
\* registering and no deletion is under way, a session is of an agent on the list.
\* A registration between the two steps of a deletion does not break that, nor does a
\* deletion between the two steps of a registration (agents.go:128-131, :170-171).
SessionsOfTheListed ==
  \A s \in agentSessionMap :
    \/ s.agent \in listed
    \/ agent[s.agent].step = "stored"
    \/ \E d \in Deleters : deleting[d].step # "none" /\ deleting[d].agent = s.agent

\* For <>[]: an agent whose sessions were revoked, expired or lost connects again,
\* without a user, once deletions, restarts and failures have come to an end.
AgentsConnected == \A a \in Agents : agent[a].step = "stream"
=============================================================================
