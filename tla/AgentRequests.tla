--------------------------- MODULE AgentRequests ---------------------------
(***************************************************************************)
(* What a browser asks of a device and waits for: the listing of a         *)
(* directory, the Proton versions (internal/api/agents.go).  The handler   *)
(* stores a channel under a number, sends the job, and takes what comes    *)
(* first, the result or the end of ten seconds.  The job and the result    *)
(* may get lost: the stream drops, the device fails.                       *)
(***************************************************************************)
EXTENDS Naturals, FiniteSets, Functions

CONSTANTS
  Requests,  \* handlers that run at one time
  Questions, \* paths to list, and "proton"
  MaxId,     \* bound on the numbers given
  None

VARIABLES
  handler,      \* each handler's step, its question, its number
  answer,       \* what is in each handler's channel
  pending,      \* browsePending, protonPending: numbers and the handlers that wait
  lastId,
  jobs, results \* on their way: numbers and questions

requestVars == <<handler, answer, pending, lastId, jobs, results>>

NoRequest == [step |-> "none", question |-> None, id |-> 0]

Init ==
  /\ handler = [r \in Requests |-> NoRequest] /\ answer = [r \in Requests |-> None]
  /\ pending = <<>> /\ lastId = 0 /\ jobs = {} /\ results = {}

\* requestID of the time in seconds.
RequestID_Coarse == 1

\* requestID: the time in nanoseconds, which is taken to be later whenever a handler
\* reads it.  Two that read the same would share a number; no look-up would notice.
\* Listings and Proton versions have maps and prefixes of their own, so that only two
\* of one kind could.
RequestID == lastId + 1

\* BrowseAgentDir and ListProtonVersions; the broker may drop the job.
Ask(r, q) ==
  LET id == RequestID IN
  /\ handler[r].step = "none" /\ lastId < MaxId
  /\ lastId' = lastId + 1
  /\ handler' = [handler EXCEPT ![r] = [step |-> "waiting", question |-> q, id |-> id]]
  /\ answer' = [answer EXCEPT ![r] = None]
  /\ pending' = [i \in DOMAIN pending \union {id} |-> IF i = id THEN r ELSE pending[i]]
  /\ jobs' \in {jobs, jobs \union {<<id, q>>}}
  /\ UNCHANGED results

\* browseDir and listProton on the device; the POST may fail.
Answer(j) ==
  /\ jobs' = jobs \ {j}
  /\ results' \in {results, results \union {j}}
  /\ UNCHANGED <<handler, answer, pending, lastId>>

\* ReceiveBrowseResult, ReceiveProtonResult: a result that nobody waits for is dropped,
\* and so is a second one.
Receive(x) ==
  /\ results' = results \ {x}
  /\ answer' = [r \in Requests |->
                  IF x[1] \in DOMAIN pending /\ pending[x[1]] = r /\ answer[r] = None THEN x[2]
                  ELSE answer[r]]
  /\ UNCHANGED <<handler, pending, lastId, jobs>>

\* The deferred delete.
Forget(r) == pending' = Restrict(pending, DOMAIN pending \ {handler[r].id})

Respond(r) ==
  /\ handler[r].step = "waiting" /\ answer[r] # None
  /\ handler' = [handler EXCEPT ![r].step = "answered"]
  /\ Forget(r)
  /\ UNCHANGED <<answer, lastId, jobs, results>>

\* A handler that does not give up before the device has the job.
TimeOut_Sent(r) ==
  /\ handler[r].step = "waiting" /\ handler[r].id \in {j[1] : j \in jobs \union results}
  /\ handler' = [handler EXCEPT ![r].step = "late"]
  /\ Forget(r)
  /\ UNCHANGED <<answer, lastId, jobs, results>>

\* The ten seconds are over; the result may be in the channel.
TimeOut(r) ==
  /\ handler[r].step = "waiting"
  /\ handler' = [handler EXCEPT ![r].step = "late"]
  /\ Forget(r)
  /\ UNCHANGED <<answer, lastId, jobs, results>>

\* The handler is done, and may serve another browser.
Done(r) ==
  /\ handler[r].step \in {"answered", "late"}
  /\ handler' = [handler EXCEPT ![r] = NoRequest]
  /\ UNCHANGED <<answer, pending, lastId, jobs, results>>

Next ==
  \/ \E r \in Requests : Respond(r) \/ TimeOut(r) \/ Done(r) \/ \E q \in Questions : Ask(r, q)
  \/ \E j \in jobs : Answer(j)
  \/ \E x \in results : Receive(x)

\* Time goes on.
Fairness == \A r \in Requests : WF_requestVars(TimeOut(r))

Spec == Init /\ [][Next]_requestVars /\ Fairness

-----------------------------------------------------------------------------
(* Properties.                                                             *)

\* Requests, answers and what is on its way have the form the code gives them.
TypeOK ==
  /\ handler \in [Requests -> [step : {"none", "waiting", "answered", "late"},
                               question : Questions \union {None}, id : 0..MaxId]]
  /\ answer \in [Requests -> Questions \union {None}]
  /\ DOMAIN pending \subseteq 1..MaxId /\ \A i \in DOMAIN pending : pending[i] \in Requests
  /\ jobs \union results \subseteq (1..MaxId) \X Questions

\* A browser gets the answer to what it asked, not the late answer to an earlier
\* request or the one to a request that runs beside it (agents.go:923, :982).
RightAnswer ==
  \A r \in Requests : handler[r].step = "answered" => answer[r] = handler[r].question

\* Numbers of handlers that have given up do not pile up: what is pending is waited
\* for (agents.go:926).
PendingIsWaitedFor ==
  \A i \in DOMAIN pending : handler[pending[i]].step = "waiting" /\ handler[pending[i]].id = i

\* Answers and browsers are never mixed up, and nothing is left of a request.
AnswersMatch == RightAnswer /\ PendingIsWaitedFor

\* For <>[]: every request comes to an end, with or without an answer, whatever gets
\* lost: once browsers ask no more, nobody waits.
NobodyWaits == \A r \in Requests : handler[r].step # "waiting"
=============================================================================
