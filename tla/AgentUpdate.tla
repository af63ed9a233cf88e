---------------------------- MODULE AgentUpdate ----------------------------
(***************************************************************************)
(* How an agent replaces itself (checkAndUpdate, agentclient/client.go)    *)
(* by the binary the server has (internal/api/agentbinary.go): it checks   *)
(* when it connects and when the server tells it to, which the server does *)
(* when the version that registers is another (RegisterAgent,              *)
(* internal/api/agents.go).  Checks may run side by side; they share the   *)
(* file they download to.  The service manager starts an agent again that  *)
(* has ended (systemd, Linux; a file that is open for writing cannot be    *)
(* run, nor a running one opened for writing).                             *)
(***************************************************************************)
EXTENDS Naturals, FiniteSets

CONSTANTS
  Events,     \* goroutines of CHECK_UPDATE
  MaxVersion, \* bound on the versions the server is given
  MaxFaults,  \* bound on lost connections, failed downloads and tests, and crashes
  None

VARIABLES
  hosted, version, \* the server: the binary, and version.txt
  registered,      \* the registry: the name and the version of the last registration
  told,            \* CHECK_UPDATE is going to be sent
  exe, tmp,        \* the device: the binary and the one beside it: the versions whose bytes
                   \* may be in it, and the checks that did not write theirs to the end
  running, mode,   \* the version that runs; "down", "register", "check" or "stream"
  check,           \* each check: its step, and the version it downloads
  mishaps,
  disturbed,       \* history: since the agent registered last, a check has failed or a version come
  slipped          \* history: a check opened the file that another tests or has tested, or
                   \* to which another writes the bytes of another version

updateVars == <<hosted, version, registered, told, exe, tmp, running, mode, check, mishaps, disturbed, slipped>>

Checks == Events \union {"connect"}
Idle == [step |-> "idle", version |-> 0]
Binary(v) == [versions |-> {v}, unfinished |-> {}]
Whole(f) == f.unfinished = {} /\ \E v \in f.versions : f.versions = {v}

Init ==
  /\ hosted = 1 /\ version = 1 /\ registered = [name |-> "device", version |-> 1] /\ told = FALSE
  /\ exe = Binary(1) /\ tmp = None /\ running = 1 /\ mode = "stream"
  /\ check = [c \in Checks |-> Idle] /\ mishaps = 0 /\ disturbed = FALSE /\ slipped = FALSE

Fault == mishaps < MaxFaults /\ mishaps' = mishaps + 1
At(step) == {c \in Checks : check[c].step = step}
Ends(c) == check' = [check EXCEPT ![c] = Idle]

-----------------------------------------------------------------------------
(* The server, and the life of the agent.                                  *)

\* The image of the server has a new binary and its version.txt; the two are written
\* one after the other.
Deploy ==
  /\ \/ hosted = version /\ hosted < MaxVersion /\ hosted' = hosted + 1 /\ UNCHANGED version
     \/ hosted # version /\ version' = hosted /\ UNCHANGED hosted
  /\ disturbed' = TRUE
  /\ UNCHANGED <<registered, told, exe, tmp, running, mode, check, mishaps, slipped>>

\* main, by the service manager; a binary with a piece missing does not run, a mixture that
\* passed its test does.
Start ==
  /\ mode = "down" /\ exe.unfinished = {}
  /\ running' \in exe.versions /\ mode' = "register"
  /\ UNCHANGED <<hosted, version, registered, told, exe, tmp, check, mishaps, disturbed, slipped>>

Exit == mode' = "down" /\ check' = [c \in Checks |-> Idle]

\* Run: registers, and checks before it opens the stream.
Register ==
  /\ mode = "register" /\ mode' = "check"
  /\ registered' = [name |-> "device", version |-> running]
  /\ told' = (running # version \/ told) /\ disturbed' = FALSE
  /\ check' = [check EXCEPT !["connect"].step = "ask"]
  /\ UNCHANGED <<hosted, version, exe, tmp, running, mishaps, slipped>>

OpenStream ==
  /\ mode = "check" /\ check["connect"] = Idle /\ mode' = "stream"
  /\ UNCHANGED <<hosted, version, registered, told, exe, tmp, running, check, mishaps, disturbed, slipped>>

\* Two seconds after a registration; without a stream nothing is sent.
CheckUpdate ==
  /\ told /\ told' = FALSE
  /\ IF mode = "stream"
     THEN \E c \in Events : check[c] = Idle /\ check' = [check EXCEPT ![c].step = "ask"]
     ELSE UNCHANGED check
  /\ UNCHANGED <<hosted, version, registered, exe, tmp, running, mode, mishaps, disturbed, slipped>>

StreamEnds ==
  /\ mode = "stream" /\ Fault /\ mode' = "register"
  /\ UNCHANGED <<hosted, version, registered, told, exe, tmp, running, check, disturbed, slipped>>

Crash ==
  /\ mode # "down" /\ Fault /\ Exit
  /\ UNCHANGED <<hosted, version, registered, told, exe, tmp, running, disturbed, slipped>>

-----------------------------------------------------------------------------
(* checkAndUpdate.                                                         *)

AskVersion(c) ==
  /\ check[c].step = "ask"
  /\ IF version = running THEN Ends(c) ELSE check' = [check EXCEPT ![c].step = "download"]
  /\ UNCHANGED <<hosted, version, registered, told, exe, tmp, running, mode, mishaps, disturbed, slipped>>

\* The version is not answered, or the download refused: the check ends before it opens a file.
Refused(c) ==
  /\ check[c].step \in {"ask", "download"} /\ Fault /\ Ends(c) /\ disturbed' = TRUE
  /\ UNCHANGED <<hosted, version, registered, told, exe, tmp, running, mode, slipped>>

\* A connection that fails here ends the agent: its answer is looked into (client.go:2275).
LoseDownload(c) ==
  /\ check[c].step = "download" /\ Fault /\ Exit
  /\ UNCHANGED <<hosted, version, registered, told, exe, tmp, running, disturbed, slipped>>

\* Those that have the file open to write it.
Writers == IF tmp = None THEN {} ELSE tmp.unfinished \intersect At("write")

\* The file is opened and truncated; not while it is run for another check.  Who has it
\* open goes on at an offset of its own.
Download(c) ==
  /\ check[c].step = "download"
  /\ IF tmp # None /\ At("test") # {}
     THEN Ends(c) /\ disturbed' = TRUE /\ UNCHANGED <<tmp, slipped>>
     ELSE LET mixed == {check[w].version : w \in Writers} \ {hosted} IN
          /\ tmp' = [versions |-> mixed \union {hosted}, unfinished |-> Writers \union {c}]
          /\ slipped' = (slipped \/ mixed # {} \/ At("test") \union At("rename") # {})
          /\ check' = [check EXCEPT ![c] = [step |-> "write", version |-> hosted]]
          /\ UNCHANGED disturbed
  /\ UNCHANGED <<hosted, version, registered, told, exe, running, mode, mishaps>>

\* The download is written to its end, or breaks off and what has the name is removed.
\* A file that was removed meanwhile stays removed.
Write(c) ==
  /\ check[c].step = "write"
  /\ \/ /\ tmp' = IF tmp = None THEN None ELSE [tmp EXCEPT !.unfinished = @ \ {c}]
        /\ check' = [check EXCEPT ![c].step = "start"]
        /\ UNCHANGED <<mishaps, disturbed>>
     \/ Fault /\ tmp' = None /\ Ends(c) /\ disturbed' = TRUE
  /\ UNCHANGED <<hosted, version, registered, told, exe, running, mode, slipped>>

\* checkAndUpdate that does not test what it has downloaded.
StartTest_Untested(c) ==
  /\ check[c].step = "start" /\ check' = [check EXCEPT ![c].step = "rename"]
  /\ UNCHANGED <<hosted, version, registered, told, exe, tmp, running, mode, mishaps, disturbed, slipped>>

\* The new binary is run with --test-connection, if it is there, nobody has it open to write
\* it, and no piece is missing.
StartTest(c) ==
  /\ check[c].step = "start"
  /\ IF tmp # None /\ tmp.unfinished = {}
     THEN check' = [check EXCEPT ![c].step = "test"] /\ UNCHANGED <<tmp, disturbed>>
     ELSE Ends(c) /\ tmp' = None /\ disturbed' = TRUE
  /\ UNCHANGED <<hosted, version, registered, told, exe, running, mode, mishaps, slipped>>

\* It registers under the agent's id, as "test" and without a version, so the server
\* tells the agent to check; or the test fails, with or without that.
Test(c) ==
  /\ check[c].step = "test"
  /\ \/ /\ registered' = [name |-> "test", version |-> 0] /\ told' = TRUE
        /\ check' = [check EXCEPT ![c].step = "rename"] /\ UNCHANGED <<tmp, mishaps, disturbed>>
     \/ /\ Fault /\ tmp' = None /\ Ends(c) /\ disturbed' = TRUE
        /\ \/ registered' = [name |-> "test", version |-> 0] /\ told' = TRUE
           \/ UNCHANGED <<registered, told>>
  /\ UNCHANGED <<hosted, version, exe, running, mode, slipped>>

\* The file takes the place of the binary, and the agent ends to be started again.
Replace(c) ==
  /\ check[c].step = "rename"
  /\ IF tmp = None
     THEN Ends(c) /\ disturbed' = TRUE /\ UNCHANGED <<exe, tmp, mode>>
     ELSE exe' = tmp /\ tmp' = None /\ Exit /\ UNCHANGED disturbed
  /\ UNCHANGED <<hosted, version, registered, told, running, mishaps, slipped>>

Proceed(c) == AskVersion(c) \/ Download(c) \/ Write(c) \/ StartTest(c) \/ Test(c) \/ Replace(c)

Next ==
  \/ Deploy \/ Start \/ Register \/ OpenStream \/ CheckUpdate \/ StreamEnds \/ Crash
  \/ \E c \in Checks : Proceed(c) \/ Refused(c) \/ LoseDownload(c)

\* The service manager starts the agent, what runs goes on, a deployment ends.
Fairness ==
  /\ WF_updateVars(Start) /\ WF_updateVars(Register) /\ WF_updateVars(OpenStream)
  /\ WF_updateVars(CheckUpdate) /\ WF_updateVars(hosted # version /\ Deploy)
  /\ \A c \in Checks : WF_updateVars(Proceed(c))

-----------------------------------------------------------------------------
(* Properties.                                                             *)

\* Versions, files and checks have the form the code gives them; only a connected
\* agent runs checks besides the one it makes to connect.
TypeOK ==
  /\ {hosted, version, running} \subseteq 1..MaxVersion
  /\ exe \in [versions : SUBSET (1..MaxVersion), unfinished : SUBSET Checks]
  /\ tmp \in [versions : SUBSET (1..MaxVersion), unfinished : SUBSET Checks] \union {None}
  /\ mode \in {"down", "register", "check", "stream"}
  /\ \A c \in Checks : check[c].step # "idle" => mode # "down"
  /\ registered \in [name : {"device", "test"}, version : 0..MaxVersion]

\* The binary of the device is whole at any time, and of one version, although downloads break
\* off, the agent is killed and checks overlap (client.go:2300-2322: "verify the new binary is
\* functional before committing", "atomically replace"); except when a check opens the file
\* that another tests or is about to rename, or two write it in different versions.
BinaryIsWhole == slipped \/ Whole(exe)

\* For <>[]: an agent that connects after the last deployment comes to run the server's
\* version, and is listed under its own name and that version, unless a check fails
\* after that.
UpToDate ==
  \/ running = version /\ registered = [name |-> "device", version |-> version]
  \/ disturbed \/ slipped
=============================================================================
