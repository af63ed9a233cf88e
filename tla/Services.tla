------------------------------ MODULE Services ------------------------------
(***************************************************************************)
(* The services of the server that share no state with each other, in one  *)
(* model: a behaviour is one of one part, and the others do not move.  The *)
(* names of DownloadClients, the largest, are taken as they are.           *)
(***************************************************************************)
EXTENDS DownloadClients, Integers, Sequences

CONSTANTS
  None, Error,
  Visitors, MaxTime, MaxNonce, MaxCode, NonceLife, OtpLife, SessionLife,
    authRateMaxAttempts, authRateWindow,              \* BrowserSessions
  Agents, Deleters, MaxToken, MaxFaults,              \* AgentSessions
  Browsers, Handlers, Capacity, MaxChange, MaxLeave,  \* BrowserEvents
  Askers, Questions, MaxNumber,                       \* AgentRequests
  Events, MaxVersion, MaxMishaps,                     \* AgentUpdate
  Indexers, Worlds, Searches, ChanSize                \* ReleaseSearch

\* Bounds and limits are numbers, and those of the code are positive.
ASSUME LimitAssumption ==
  /\ {MaxTime, MaxNonce, MaxCode, MaxToken, MaxFaults, MaxChange, MaxLeave, MaxNumber,
      MaxVersion, MaxMishaps, MaxId, MaxClient} \subseteq Nat
  /\ {NonceLife, OtpLife, SessionLife, authRateMaxAttempts, authRateWindow, Capacity, ChanSize,
      MaxVersion, NotFoundThreshold} \subseteq Nat \ {0}

\* Nothing is not a question, and a failure is not an answer.
ASSUME NothingAssumption == None \notin Questions

VARIABLES
  part,
  now, challenges, uiNonces, uiSessions, authAttempts, password, activeOTP, codes, request,
    tried, passed,
  agentNonces, agentSessionMap, lastToken, listed, agent, deleting, faults,
  latest, collected, listing, streams, channel, ended, shown, left,
  handler, answer, pending, lastId, jobs, results,
  hosted, version, registered, told, exe, tmp, running, mode, check, mishaps, disturbed, slipped,
  answers, categories, asked, ch, closed, seen, batches, over

Browser == INSTANCE BrowserSessions WITH Requests <- Visitors
Agent   == INSTANCE AgentSessions
Event   == INSTANCE BrowserEvents
Ask     == INSTANCE AgentRequests WITH Requests <- Askers, MaxId <- MaxNumber
Update  == INSTANCE AgentUpdate WITH MaxFaults <- MaxMishaps
Search  == INSTANCE ReleaseSearch WITH Requests <- Searches

\* What indexers answer, when they do, are sequences of releases.
ASSUME WorldAssumption ==
  \A w \in Worlds : \A i \in DOMAIN w :
    w[i] # Error => w[i] \in Seq(Search!Release)

Parts == {"downloads", "browser", "agent", "event", "ask", "update", "search"}

-----------------------------------------------------------------------------

\* A part that is not run stands at one of its initial states.
ServicesInit ==
  /\ part \in Parts
  /\ Init /\ Browser!Init /\ Agent!Init /\ Event!Init /\ Ask!Init /\ Update!Init
  /\ Search!Init
  /\ part # "downloads" => \A c \in setup : c.kind \in {"qbittorrent", "nzbget"}
  /\ part # "search" => answers = <<>> /\ categories = {}

browserVars == <<now, challenges, uiNonces, uiSessions, authAttempts, password, activeOTP, codes,
                 request, tried, passed>>
agentVars == <<agentNonces, agentSessionMap, lastToken, listed, agent, deleting, faults>>
eventVars == <<latest, collected, listing, streams, channel, ended, shown, left>>
requestVars == <<handler, answer, pending, lastId, jobs, results>>
updateVars == <<hosted, version, registered, told, exe, tmp, running, mode, check, mishaps,
                disturbed, slipped>>
searchVars == <<answers, categories, asked, ch, closed, seen, batches, over>>

vars == <<downloadVars, browserVars, agentVars, eventVars, requestVars, updateVars, searchVars, part>>

RunDownloads ==
  /\ part = "downloads" /\ Next
  /\ UNCHANGED <<browserVars, agentVars, eventVars, requestVars,
                 updateVars, searchVars, part>>
RunBrowser ==
  /\ part = "browser" /\ Browser!Next
  /\ UNCHANGED <<downloadVars, agentVars, eventVars, requestVars,
                 updateVars, searchVars, part>>
RunAgent ==
  /\ part = "agent" /\ Agent!Next
  /\ UNCHANGED <<downloadVars, browserVars, eventVars, requestVars,
                 updateVars, searchVars, part>>
RunEvent ==
  /\ part = "event" /\ Event!Next
  /\ UNCHANGED <<downloadVars, browserVars, agentVars, requestVars,
                 updateVars, searchVars, part>>
RunAsk ==
  /\ part = "ask" /\ Ask!Next
  /\ UNCHANGED <<downloadVars, browserVars, agentVars, eventVars,
                 updateVars, searchVars, part>>
RunUpdate ==
  /\ part = "update" /\ Update!Next
  /\ UNCHANGED <<downloadVars, browserVars, agentVars, eventVars,
                 requestVars, searchVars, part>>
RunSearch ==
  /\ part = "search" /\ Search!Next
  /\ UNCHANGED <<downloadVars, browserVars, agentVars, eventVars,
                 requestVars, updateVars, part>>

ServicesNext == RunDownloads \/ RunBrowser \/ RunAgent \/ RunEvent \/ RunAsk \/ RunUpdate \/ RunSearch

Spec == ServicesInit /\ [][ServicesNext]_vars

-----------------------------------------------------------------------------
(* The properties of the parts, under their names; those of DownloadClients *)
(* hold of the other parts, where no client is configured.                  *)

\* What every part keeps has the form the code gives it.
ServicesTypeOK ==
  /\ part = "downloads" => TypeOK
  /\ part = "browser" => Browser!TypeOK
  /\ part = "agent" => Agent!TypeOK
  /\ part = "event" => Event!TypeOK
  /\ part = "ask" => Ask!TypeOK
  /\ part = "update" => Update!TypeOK
  /\ part = "search" => Search!TypeOK

\* BrowserSessions: challenges and one-time passwords are used once, and guesses are few.
SignInLimited == part = "browser" => Browser!SignInLimited

\* AgentSessions: a deleted agent has no session.
SessionsOfTheListed == part = "agent" => Agent!SessionsOfTheListed

\* AgentRequests: a browser gets the answer to its own question, and no number stays pending.
AnswersMatch == part = "ask" => Ask!AnswersMatch

\* AgentUpdate: the binary of the device is whole.
BinaryIsWhole == part = "update" => Update!BinaryIsWhole

\* ReleaseSearch: every release of every indexer is streamed, once, and the best of a
\* batch first.
SearchWhole == part = "search" => Search!SearchWhole
=============================================================================
