----------------------------- MODULE MCServices -----------------------------
(***************************************************************************)
(* Services for TLC.                                                       *)
(***************************************************************************)
EXTENDS Services

Client(k, p, c) == [kind |-> k, priority |-> p, category |-> c, enable |-> TRUE]

MCSetups ==
  { {Client("qbittorrent", 2, TRUE), Client("nzbget", 1, FALSE)},
    {Client("transmission", 1, FALSE), Client("sabnzbd", 1, TRUE)},
    {Client("rtorrent", 1, FALSE), Client("flood", 2, FALSE)},
    {Client("qbittorrent", 1, FALSE), Client("deluge", 2, FALSE)},
    {Client("deluge", 1, FALSE), Client("flood", 2, FALSE)} }

\* Releases with the categories of two sources, one indexer's own, and none; large and
\* small, of every tier; one that two sources have of one indexer, and that another
\* indexer has as well.
MCRelease(n, cats, tier, title, size, seeders) ==
  [name |-> n, indexer |-> "i1", cats |-> cats, tier |-> tier, title |-> title, type |-> "game",
   installer |-> tier = 2, size |-> size, seeders |-> seeders, nzb |-> FALSE]
Fit == MCRelease("fit", {4050}, 2, 100, 90, 50)
FitAgain == MCRelease("fit", {2000}, 2, 100, 90, 3)
FitElsewhere == [Fit EXCEPT !.indexer = "i2"]
Own == MCRelease("own", {104050, 4000}, 3, 100, 20, 120)
Small == MCRelease("small", {100400}, 4, 60, 0, 0)
Bare == [MCRelease("bare", {0}, 1, 50, 5, 0) EXCEPT !.nzb = TRUE]
Patch == [MCRelease("patch", {4010}, 4, 100, 12, 9) EXCEPT !.type = "update"]
MCIndexers == {"prowlarr", "jackett", "hydra"}

MCWorlds ==
  {<<>>} \union
  [MCIndexers -> {<<>>, <<Small, Fit, Small>>, <<Patch, Own, FitAgain>>, <<Bare, FitElsewhere, Own>>, Error}]
MCSearches == {{}, {4000}, {2000, 4030}}

-----------------------------------------------------------------------------
partVars ==
  CASE part = "downloads" -> downloadVars [] part = "browser" -> browserVars
    [] part = "agent" -> agentVars        [] part = "event" -> eventVars
    [] part = "ask" -> requestVars        [] part = "update" -> updateVars
    [] part = "search" -> searchVars

\* The k-th action that the Fairness of a part is about.
Fair(k) ==
  /\ part' = part
  /\ \/ part = "downloads" /\ k \in DOMAIN clients /\ Poll(k)
     \/ part = "agent" /\ k \in 1..2 /\ Agent!Step(<<"a1", "a2">>[k])
     \/ part = "event" /\ \/ k = 1 /\ Event!CollectQueue
                          \/ k = 2 /\ Event!RunQueueBroadcaster
                          \/ k = 3 /\ Event!Connect("b1")
                          \/ k = 4 /\ Event!Show("b1")
                          \/ k = 5 /\ "b1" \notin streams \union ended /\ Event!Leave("b1")
     \/ part = "ask" /\ k \in 1..2 /\ Ask!TimeOut(<<"r1", "r2">>[k])
     \/ part = "update" /\ \/ k = 1 /\ Update!Start
                           \/ k = 2 /\ Update!Register
                           \/ k = 3 /\ Update!OpenStream
                           \/ k = 4 /\ Update!CheckUpdate
                           \/ k = 5 /\ hosted # version /\ Update!Deploy
                           \/ k \in 6..8 /\ Update!Proceed(<<"connect", "e1", "e2">>[k - 5])
     \/ part = "search" /\ \/ k \in 1..3 /\ Search!Answer(<<"prowlarr", "jackett", "hydra">>[k])
                           \/ k = 4 /\ Search!Close
                           \/ k = 5 /\ Search!Merge
                           \/ k = 6 /\ Search!End

FairSpec == Spec /\ \A k \in 1..8 : WF_partVars(Fair(k))

\* What is downloaded is imported, and AgentSessions, BrowserEvents, AgentRequests,
\* AgentUpdate and ReleaseSearch come to their ends: in one formula, since TLC builds
\* a graph for each it is given.
ServicesSettle ==
  /\ ListedIsImported
  /\ <>[]( /\ part = "agent" => Agent!AgentsConnected
           /\ part = "event" => Event!QueueShown
           /\ part = "ask" => Ask!NobodyWaits
           /\ part = "update" => Update!UpToDate
           /\ part = "search" => Search!SearchOver )
=============================================================================
