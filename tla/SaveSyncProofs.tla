--------------------------- MODULE SaveSyncProofs ---------------------------
(***************************************************************************)
(* What SaveSync keeps for every set of devices, every number of snapshots *)
(* kept and every fault, while no request is served during an upload; and  *)
(* that the devices come to agree while all of them can be reached.        *)
(***************************************************************************)
EXTENDS SaveSync, FiniteSetTheorems, TLAPS

LEMMA InitInv == Init => SyncInv
<1> SUFFICES ASSUME Init PROVE SyncInv OBVIOUS
<1> USE BoundsAssumption DEF Init
<1>1. TypeOK
  BY DEF TypeOK, Saves, Half, Torn, None, Stamp, Version
<1>2. OneAtATime /\ LookedIsLatest /\ WritingIsNewest
  BY DEF OneAtATime, LookedIsLatest, WritingIsNewest, Serving
<1>3. StampsDiffer /\ StampsPast /\ JobsFollow /\ LastSnapshotKept
  BY DEF StampsDiffer, StampsPast, JobsFollow, LastSnapshotKept
<1>4. SavesWhole
  BY DEF SavesWhole, RestoresWhole, None, Torn
<1> QED BY <1>1, <1>2, <1>3, <1>4 DEF SyncInv

\* An upload that has been started, and no more, is not being served.
StoreUnchanged ==
  /\ UNCHANGED <<store, clock, prev, looked, dir, syncs, kept>>
  /\ \A a \in Agents : Serving(a)' = Serving(a) /\ (up[a] = "writing")' = (up[a] = "writing")

LEMMA StoreParts ==
  ASSUME SyncInv, StoreUnchanged
  PROVE  /\ OneAtATime' /\ StampsDiffer' /\ StampsPast' /\ LookedIsLatest'
         /\ WritingIsNewest' /\ JobsFollow' /\ LastSnapshotKept'
<1> USE DEF SyncInv, StoreUnchanged
<1>1. OneAtATime'
  BY DEF OneAtATime
<1>2. StampsDiffer' /\ StampsPast' /\ JobsFollow' /\ LastSnapshotKept'
  BY DEF StampsDiffer, StampsPast, JobsFollow, LastSnapshotKept
<1>3. LookedIsLatest'
  BY DEF LookedIsLatest
<1>4. WritingIsNewest'
  BY DEF WritingIsNewest
<1> QED BY <1>1, <1>2, <1>3, <1>4

-----------------------------------------------------------------------------
(* Devices.                                                                *)

LEMMA PlayInv ==
  ASSUME SyncInv, NEW a \in Agents, Play(a)
  PROVE  SyncInv'
<1> USE DEF Play, uploadVars
<1>1. TypeOK'
  <2>1. made' \in 1..MaxVersion
    BY BoundsAssumption DEF SyncInv, TypeOK
  <2>2. made' \in Saves
    BY <2>1, BoundsAssumption DEF Saves, Half
  <2>3. local' \in [Agents -> Saves]
    BY <2>2 DEF SyncInv, TypeOK
  <2>4. made' \in 0..MaxVersion
    BY <2>1, BoundsAssumption
  <2>5. dirty' \subseteq Agents
    BY DEF SyncInv, TypeOK
  <2> QED BY <2>3, <2>4, <2>5 DEF SyncInv, TypeOK
<1>2. StoreUnchanged
  BY DEF StoreUnchanged, Serving
<1>3. SavesWhole'
  BY BoundsAssumption DEF SyncInv, TypeOK, SavesWhole, RestoresWhole, Torn
<1> QED BY <1>1, <1>2, <1>3, StoreParts DEF SyncInv

LEMMA StartUploadInv ==
  ASSUME SyncInv, NEW a \in Agents, StartUpload(a)
  PROVE  SyncInv'
<1> USE DEF StartUpload
<1>1. TypeOK'
  BY DEF SyncInv, TypeOK
<1>2. StoreUnchanged
  BY DEF StoreUnchanged, Serving, SyncInv, TypeOK
<1>3. SavesWhole'
  BY DEF SyncInv, TypeOK, SavesWhole, RestoresWhole
<1> QED BY <1>1, <1>2, <1>3, StoreParts DEF SyncInv

\* What a request finds is complete.
LEMMA ServedIsWhole ==
  ASSUME "overlap" \notin Env, SyncInv, Served
  PROVE  \A s \in store : s.saves # Torn
BY DEF SyncInv, TypeOK, Served, Serving, Snapshot

LEMMA FetchInv ==
  ASSUME "overlap" \notin Env, SyncInv, NEW a \in Agents, Fetch(a)
  PROVE  SyncInv'
<1> USE DEF Fetch, uploadVars
<1>1. TypeOK'
  <2>1. \A s \in store : s.saves \in Saves
    BY DEF SyncInv, TypeOK, Snapshot
  <2>2. got' \in [Agents -> SUBSET Saves]
    BY <2>1 DEF SyncInv, TypeOK, Newest
  <2> QED BY <2>2 DEF SyncInv, TypeOK
<1>2. StoreUnchanged
  BY DEF StoreUnchanged, Serving
<1>3. SavesWhole'
  BY ServedIsWhole DEF SyncInv, TypeOK, SavesWhole, RestoresWhole, Newest
<1> QED BY <1>1, <1>2, <1>3, StoreParts DEF SyncInv

LEMMA WriteSavesInv ==
  ASSUME SyncInv, NEW a \in Agents, WriteSaves(a)
  PROVE  SyncInv'
<1> USE DEF WriteSaves, uploadVars
<1>1. TypeOK'
  BY DEF SyncInv, TypeOK
<1>2. StoreUnchanged
  BY DEF StoreUnchanged, Serving
<1>3. SavesWhole'
  BY DEF SyncInv, TypeOK, SavesWhole, RestoresWhole
<1> QED BY <1>1, <1>2, <1>3, StoreParts DEF SyncInv

LEMMA WindowEndsInv ==
  ASSUME SyncInv, NEW a \in Agents, WindowEnds(a)
  PROVE  SyncInv'
<1> USE DEF WindowEnds, uploadVars
<1>1. TypeOK'
  BY DEF SyncInv, TypeOK
<1>2. StoreUnchanged
  BY DEF StoreUnchanged, Serving
<1>3. SavesWhole'
  BY DEF SyncInv, SavesWhole, RestoresWhole
<1> QED BY <1>1, <1>2, <1>3, StoreParts DEF SyncInv

-----------------------------------------------------------------------------
(* Uploads.                                                                *)

LEMMA LookUpLatestInv ==
  ASSUME "overlap" \notin Env, SyncInv, NEW a \in Agents, LookUpLatest(a)
  PROVE  SyncInv'
<1> USE DEF LookUpLatest, deviceVars
<1>1. \A b \in Agents : ~Serving(b)
  BY DEF Served
<1>2. PICK agent \in Agents \union {NoAgent}, at \in 0..MaxStamp :
        /\ Remember(a, agent, at) /\ at <= clock
        /\ \A s \in store : s.at < at \/ (s.at = at /\ s.agent = agent)
  <2>1. CASE store = {} /\ Remember(a, NoAgent, 0)
    <3>1. 0 \in 0..MaxStamp /\ 0 <= clock
      BY BoundsAssumption DEF SyncInv, TypeOK
    <3>2. \A s \in store : s.at < 0 \/ (s.at = 0 /\ s.agent = NoAgent)
      BY <2>1
    <3> QED BY <2>1, <3>1, <3>2
  <2>2. CASE \E s \in Newest(store) : Remember(a, s.agent, s.at)
    <3>1. PICK s \in Newest(store) : Remember(a, s.agent, s.at)
      BY <2>2
    <3>2. s \in store /\ s.agent \in Agents /\ s.at \in 0..MaxStamp /\ s.at <= clock
      BY <3>1, BoundsAssumption DEF Newest, SyncInv, TypeOK, Snapshot, Stamp, StampsPast
    <3>3. \A r \in store : r.at < s.at \/ r = s
      BY <3>1, <3>2, BoundsAssumption
         DEF Newest, SyncInv, StampsDiffer, TypeOK, Snapshot, Stamp
    <3> QED BY <3>1, <3>2, <3>3
  <2> QED BY <2>1, <2>2
<1> USE DEF Remember
<1>3. TypeOK'
  <2>1. \A s \in store : s.saves # Torn
    BY ServedIsWhole
  <2> QED BY <1>2, <2>1 DEF SyncInv, TypeOK
<1>4. \A b \in Agents : Serving(b)' <=> b = a
  BY <1>1 DEF Serving, SyncInv, TypeOK
<1>5. OneAtATime'
  BY <1>4 DEF OneAtATime
<1>6. StampsDiffer' /\ StampsPast' /\ JobsFollow' /\ LastSnapshotKept'
  BY DEF SyncInv, StampsDiffer, StampsPast, JobsFollow, LastSnapshotKept
<1>7. LookedIsLatest'
  BY <1>2, <1>4 DEF LookedIsLatest, SyncInv, TypeOK
<1>8. WritingIsNewest'
  BY <1>1 DEF WritingIsNewest, Serving, SyncInv, TypeOK
<1>9. SavesWhole'
  BY DEF SyncInv, SavesWhole, RestoresWhole
<1> QED BY <1>3, <1>5, <1>6, <1>7, <1>8, <1>9 DEF SyncInv

\* The other handlers wait while an upload is being served.
LEMMA OthersWait ==
  ASSUME SyncInv, NEW a \in Agents, Serving(a)
  PROVE  \A b \in Agents \ {a} : ~Serving(b) /\ up[b] # "writing"
BY DEF SyncInv, OneAtATime, Serving

LEMMA MakeDirInv ==
  ASSUME SyncInv, NEW a \in Agents, MakeDir(a)
  PROVE  SyncInv'
<1> USE DEF MakeDir, deviceVars
<1> DEFINE new == [agent |-> a, at |-> clock + 1, saves |-> Torn]
<1>1. /\ clock + 1 \in Stamp /\ clock' = clock + 1 /\ clock \in Nat
      /\ new \in Snapshot /\ store' = store \union {new}
  BY BoundsAssumption DEF SyncInv, TypeOK, Stamp, Snapshot, Saves, Half, Torn
<1>2. \A b \in Agents \ {a} : ~Serving(b) /\ up[b] # "writing" /\ up'[b] = up[b]
  BY OthersWait DEF Serving, SyncInv, TypeOK
<1>3. /\ up'[a] = "writing" /\ dir'[a] = clock + 1
      /\ \A b \in Agents : Serving(b)' <=> b = a
  BY <1>2 DEF Serving, SyncInv, TypeOK
<1>4. /\ \A s \in store : s.at \in Nat /\ s.at < new.at /\ s.agent \in Agents
      /\ \A j \in syncs : j.at \in Nat /\ j.looked \in Nat /\ j.at < new.at
  BY <1>1, BoundsAssumption DEF SyncInv, StampsPast, TypeOK, Snapshot, Stamp
<1>5. TypeOK'
  <2>1. \A s \in store : s.saves # Torn
    BY <1>2 DEF SyncInv, TypeOK, Snapshot
  <2>2. \A s \in store' : s.saves = Torn => up'[s.agent] = "writing" /\ dir'[s.agent] = s.at
    BY <1>1, <1>3, <2>1
  <2>3. store' \subseteq Snapshot /\ clock' \in 0..MaxStamp /\ dir' \in [Agents -> 0..MaxStamp]
    BY <1>1, BoundsAssumption DEF SyncInv, TypeOK, Stamp
  <2>4. up' \in [Agents -> {"none", "posted", "looked", "writing"}]
    BY DEF SyncInv, TypeOK
  <2> QED BY <2>2, <2>3, <2>4 DEF SyncInv, TypeOK
<1>6. OneAtATime'
  BY <1>3 DEF OneAtATime
<1>7. StampsDiffer'
  BY <1>1, <1>4 DEF SyncInv, StampsDiffer
<1>8. StampsPast'
  BY <1>1, <1>4 DEF SyncInv, StampsPast
<1>9. LookedIsLatest'
  BY <1>1, <1>3 DEF SyncInv, LookedIsLatest, Serving, TypeOK
<1>10. WritingIsNewest'
  BY <1>1, <1>2, <1>3, <1>4 DEF SyncInv, WritingIsNewest, LookedIsLatest, Serving, TypeOK
<1>11. JobsFollow'
  BY <1>1, <1>4 DEF SyncInv, JobsFollow
<1>12. SavesWhole' /\ LastSnapshotKept'
  BY DEF SyncInv, SavesWhole, RestoresWhole, LastSnapshotKept
<1> QED BY <1>5, <1>6, <1>7, <1>8, <1>9, <1>10, <1>11, <1>12 DEF SyncInv

\* What a handler that returns leaves of its own state.
LEMMA HandlerGone ==
  ASSUME TypeOK, NEW a \in Agents, HandlerEnds(a)
  PROVE  /\ up' = [up EXCEPT ![a] = "none"]
         /\ up' \in [Agents -> {"none", "posted", "looked", "writing"}]
         /\ sent' \in [Agents -> Saves] /\ looked' \in [Agents -> 0..MaxStamp]
         /\ prev' \in [Agents -> Agents \union {NoAgent}] /\ dir' \in [Agents -> 0..MaxStamp]
         /\ up'[a] = "none" /\ sent'[a] = None
         /\ \A b \in Agents \ {a} : up'[b] = up[b] /\ sent'[b] = sent[b]
<1>1. None \in Saves /\ 0 \in 0..MaxStamp
  BY BoundsAssumption DEF None, Saves, Half
<1> QED BY <1>1 DEF HandlerEnds, Remember, TypeOK

\* What an upload that ends leaves of the store: its own directory, complete, and of
\* the others those that Pruned keeps.
LEMMA UploadDoneStore ==
  ASSUME SyncInv, NEW a \in Agents, up[a] = "writing",
         NEW snap, snap = [agent |-> a, at |-> dir[a], saves |-> sent[a]]
  PROVE  /\ snap \in Pruned(a, Written(a) \union {snap})
         /\ Pruned(a, Written(a) \union {snap}) \subseteq Written(a) \union {snap}
         /\ \A s \in Written(a) : s.agent # a => s \in Pruned(a, Written(a) \union {snap})
<1> DEFINE all == Written(a) \union {snap}
<1>1. \A r \in all : r.at \in Nat /\ r.at <= snap.at
  <2>1. snap.at = clock
    BY DEF SyncInv, WritingIsNewest
  <2>2. clock \in Nat
    BY BoundsAssumption DEF SyncInv, TypeOK
  <2>3. \A r \in store : r.at \in Nat /\ r.at <= clock
    BY BoundsAssumption DEF SyncInv, TypeOK, Snapshot, Stamp, StampsPast
  <2> QED BY <2>1, <2>2, <2>3 DEF Written
<1>2. snap.at \in Nat
  BY <1>1
<1>3. { r \in all : r.agent = a /\ r.at > snap.at } = {}
  BY <1>1, <1>2
<1>4. Cardinality({ r \in all : r.agent = a /\ r.at > snap.at }) < Keep
  BY <1>3, FS_EmptySet, BoundsAssumption
<1> HIDE DEF all
<1>5. snap \in Pruned(a, all)
  BY <1>4 DEF Pruned, all
<1>6. Pruned(a, all) \subseteq all /\ \A s \in all : s.agent # a => s \in Pruned(a, all)
  BY DEF Pruned
<1> QED BY <1>5, <1>6 DEF all

LEMMA UploadDoneInv ==
  ASSUME SyncInv, NEW a \in Agents, UploadDone(a)
  PROVE  SyncInv'
<1> DEFINE snap == [agent |-> a, at |-> dir[a], saves |-> sent[a]]
           job == [agent |-> a, at |-> dir[a], prev |-> prev[a], looked |-> looked[a]]
<1>1. /\ up[a] = "writing" /\ HandlerEnds(a)
      /\ store' = Pruned(a, Written(a) \union {snap})
      /\ kept' = { s \in kept : s.agent # a } \union {snap}
      /\ syncs' = syncs \union {job}
      /\ UNCHANGED <<clock, conflict, told, asked, deviceVars>>
  BY DEF UploadDone
<1>2. /\ snap \in store' /\ store' \subseteq Written(a) \union {snap}
      /\ \A s \in Written(a) : s.agent # a => s \in store'
  BY <1>1, UploadDoneStore
<1>3. /\ dir[a] = clock /\ clock \in Nat /\ dir[a] \in Stamp /\ looked[a] < clock
      /\ \A j \in syncs : j.at < clock
      /\ \A s \in Written(a) : s.at \in Nat /\ s.at < clock
      /\ snap \in Snapshot
      /\ job \in [agent: Agents, at: Stamp, prev: Agents \union {NoAgent}, looked: 0..MaxStamp]
  <2>1. /\ dir[a] = clock /\ clock \in Nat /\ dir[a] \in Stamp /\ looked[a] < clock
        /\ \A j \in syncs : j.at < clock
    <3>1. clock \in Nat
      BY BoundsAssumption DEF SyncInv, TypeOK
    <3>2. /\ dir[a] = clock /\ dir[a] \in Stamp /\ looked[a] < clock
          /\ \A j \in syncs : j.at < clock
      BY <1>1 DEF SyncInv, WritingIsNewest
    <3> QED BY <3>1, <3>2
  <2>2. snap \in Snapshot
    BY <2>1 DEF SyncInv, TypeOK, Snapshot
  <2>3. job \in [agent: Agents, at: Stamp, prev: Agents \union {NoAgent}, looked: 0..MaxStamp]
    BY <2>1 DEF SyncInv, TypeOK
  <2>4. ASSUME NEW s \in Written(a) PROVE s.at \in Nat /\ s.at < clock
    <3>1. s \in store /\ s.at \in Nat /\ s.at <= clock
      BY BoundsAssumption DEF Written, SyncInv, TypeOK, Snapshot, Stamp, StampsPast
    <3>2. ASSUME s.at = clock PROVE FALSE
      <4> DEFINE torn == [agent |-> a, at |-> dir[a], saves |-> Torn]
      <4>1. torn \in store /\ torn.at = s.at
        BY <1>1, <2>1, <3>2 DEF SyncInv, WritingIsNewest
      <4>2. s = torn
        BY <3>1, <4>1 DEF SyncInv, StampsDiffer
      <4> QED BY <4>2 DEF Written
    <3> QED BY <2>1, <3>1, <3>2
  <2> QED BY <2>1, <2>2, <2>3, <2>4
<1>4. snap.at = clock /\ snap.agent = a /\ snap.saves = sent[a] /\ snap.saves # Torn
  BY <1>3 DEF SyncInv, SavesWhole
<1>5. Written(a) \subseteq store
  BY DEF Written
<1>6. \A b \in Agents \ {a} : ~Serving(b) /\ up[b] # "writing" /\ up'[b] = up[b]
  BY <1>1, OthersWait, HandlerGone DEF Serving, SyncInv
<1>7. \A b \in Agents : ~Serving(b)' /\ up'[b] # "writing"
  BY <1>1, <1>6, HandlerGone DEF Serving, SyncInv
<1> HIDE DEF snap, job
<1>8. TypeOK'
  <2>1. store' \subseteq Snapshot /\ kept' \subseteq Snapshot
    BY <1>1, <1>2, <1>3, <1>5 DEF SyncInv, TypeOK
  <2>2. \A s \in store' : s.saves # Torn
    <3>1. \A s \in Written(a) : s.saves # Torn
      BY <1>5, <1>6 DEF Written, SyncInv, TypeOK, Snapshot
    <3> QED BY <1>2, <1>4, <3>1
  <2>3. /\ up' \in [Agents -> {"none", "posted", "looked", "writing"}]
        /\ sent' \in [Agents -> Saves] /\ looked' \in [Agents -> 0..MaxStamp]
        /\ prev' \in [Agents -> Agents \union {NoAgent}] /\ dir' \in [Agents -> 0..MaxStamp]
    BY <1>1, HandlerGone DEF SyncInv
  <2>4. syncs' \subseteq
          [agent: Agents, at: Stamp, prev: Agents \union {NoAgent}, looked: 0..MaxStamp]
    BY <1>1, <1>3 DEF SyncInv, TypeOK
  <2> QED BY <1>1, <2>1, <2>2, <2>3, <2>4 DEF SyncInv, TypeOK, deviceVars
<1>9. OneAtATime' /\ LookedIsLatest' /\ WritingIsNewest'
  BY <1>7 DEF OneAtATime, LookedIsLatest, WritingIsNewest
<1>10. StampsDiffer'
  BY <1>2, <1>3, <1>4, <1>5 DEF SyncInv, StampsDiffer
<1>11. StampsPast'
  <2>1. job.looked < job.at /\ job.at <= clock
    BY <1>3 DEF job
  <2>2. \A s \in store' : s.at <= clock
    BY <1>2, <1>3, <1>4
  <2> QED BY <1>1, <2>1, <2>2 DEF SyncInv, StampsPast
<1>12. JobsFollow'
  <2> SUFFICES ASSUME NEW j \in syncs', NEW s \in store', j.looked <= s.at, s.at < j.at
               PROVE  s.agent = j.prev
    BY DEF JobsFollow
  <2>1. j.at \in Nat /\ j.looked \in Nat /\ j.at <= clock
    BY <1>1, <1>3, BoundsAssumption DEF SyncInv, TypeOK, StampsPast, job, Stamp
  <2>2. s \in Written(a)
    BY <1>2, <1>3, <1>4, <2>1
  <2>3. CASE j \in syncs
    BY <1>5, <2>2, <2>3 DEF SyncInv, JobsFollow
  <2>4. CASE j = job
    <3>1. j.looked = looked[a] /\ j.prev = prev[a] /\ looked[a] \in Nat
      BY <2>1, <2>4 DEF job
    <3>2. s.at < looked[a] \/ (s.at = looked[a] /\ s.agent = prev[a]) \/ s.at = dir[a]
      BY <1>1, <1>5, <2>2 DEF SyncInv, LookedIsLatest, Serving
    <3> QED BY <1>3, <2>2, <3>1, <3>2
  <2> QED BY <1>1, <2>3, <2>4
<1>13. SavesWhole'
  <2>1. \A b \in Agents : sent'[b] # Torn
    BY <1>1, HandlerGone, BoundsAssumption DEF SyncInv, SavesWhole, None, Torn
  <2> QED BY <1>1, <1>4, <2>1 DEF SyncInv, SavesWhole, RestoresWhole, deviceVars
<1>14. LastSnapshotKept'
  BY <1>1, <1>2 DEF SyncInv, LastSnapshotKept, Written
<1> QED BY <1>8, <1>9, <1>10, <1>11, <1>12, <1>13, <1>14 DEF SyncInv

LEMMA UploadFailsInv ==
  ASSUME SyncInv, NEW a \in Agents, UploadFails(a)
  PROVE  SyncInv'
<1> USE DEF UploadFails, deviceVars
<1>1. /\ up[a] = "writing" /\ HandlerEnds(a)
      /\ store' = Written(a) /\ Written(a) \subseteq store
  BY DEF Written
<1>2. \A b \in Agents \ {a} : ~Serving(b) /\ up[b] # "writing"
  BY <1>1, OthersWait DEF Serving
<1>3. \A b \in Agents : ~Serving(b)' /\ up'[b] # "writing"
  BY <1>1, <1>2, HandlerGone DEF Serving, SyncInv
<1>4. TypeOK'
  <2>1. \A s \in store' : s.saves # Torn
    BY <1>1, <1>2 DEF Written, SyncInv, TypeOK, Snapshot
  <2>2. /\ up' \in [Agents -> {"none", "posted", "looked", "writing"}]
        /\ sent' \in [Agents -> Saves] /\ looked' \in [Agents -> 0..MaxStamp]
        /\ prev' \in [Agents -> Agents \union {NoAgent}] /\ dir' \in [Agents -> 0..MaxStamp]
    BY <1>1, HandlerGone DEF SyncInv
  <2> QED BY <1>1, <2>1, <2>2 DEF SyncInv, TypeOK
<1>5. OneAtATime' /\ LookedIsLatest' /\ WritingIsNewest'
  BY <1>3 DEF OneAtATime, LookedIsLatest, WritingIsNewest
<1>6. StampsDiffer' /\ StampsPast' /\ JobsFollow'
  BY <1>1 DEF SyncInv, StampsDiffer, StampsPast, JobsFollow
<1>7. SavesWhole'
  <2>1. \A b \in Agents : sent'[b] # Torn
    BY <1>1, HandlerGone, BoundsAssumption DEF SyncInv, SavesWhole, None, Torn
  <2> QED BY <2>1 DEF SyncInv, SavesWhole, RestoresWhole
<1>8. LastSnapshotKept'
  <2> SUFFICES ASSUME NEW s \in kept PROVE s \in Written(a)
    BY <1>1 DEF LastSnapshotKept
  <2> DEFINE torn == [agent |-> a, at |-> dir[a], saves |-> Torn]
  <2>1. torn \in store /\ s \in store /\ s.saves # Torn
    BY <1>1 DEF SyncInv, WritingIsNewest, LastSnapshotKept, SavesWhole
  <2>2. s.at # dir[a]
    BY <2>1 DEF SyncInv, StampsDiffer
  <2> QED BY <2>1, <2>2 DEF Written
<1> QED BY <1>4, <1>5, <1>6, <1>7, <1>8 DEF SyncInv

-----------------------------------------------------------------------------
(* postSnapshotSync, and the user.                                         *)

LEMMA PostSnapshotSyncInv ==
  ASSUME SyncInv, NEW j \in syncs, PostSnapshotSync(j)
  PROVE  SyncInv'
<1> USE DEF PostSnapshotSync, uploadVars, deviceVars
<1>1. syncs' \subseteq syncs /\ asked' \subseteq Agents /\ told' \subseteq Stamp
  BY DEF Ask, SyncInv, TypeOK
<1>2. conflict' \in (Agents \X Agents) \union {NoConflict}
  <2>1. j.agent \in Agents /\ j.prev \in Agents \union {NoAgent}
    BY DEF SyncInv, TypeOK
  <2> QED BY <2>1 DEF Disputed, SyncInv, TypeOK
<1>3. TypeOK'
  BY <1>1, <1>2 DEF SyncInv, TypeOK
<1>4. OneAtATime' /\ LookedIsLatest' /\ StampsDiffer' /\ LastSnapshotKept'
  BY DEF SyncInv, OneAtATime, LookedIsLatest, StampsDiffer, LastSnapshotKept, Serving
<1>5. WritingIsNewest' /\ StampsPast' /\ JobsFollow'
  BY <1>1 DEF SyncInv, WritingIsNewest, StampsPast, JobsFollow
<1>6. SavesWhole'
  BY DEF SyncInv, SavesWhole, RestoresWhole
<1> QED BY <1>3, <1>4, <1>5, <1>6 DEF SyncInv

\* A copy of a snapshot of the device, whole or not, and a newer timestamp.
LEMMA PutCopyInv ==
  ASSUME "overlap" \notin Env, SyncInv, NEW a \in Agents, NEW saves \in Saves, saves # Torn,
         Promotable(a), PutCopy(a, saves),
         UNCHANGED <<uploadVars, syncs, deviceVars, kept>>,
         conflict' \in {conflict, NoConflict}, told' \subseteq told \union {clock + 1},
         asked' \subseteq Agents
  PROVE  SyncInv'
<1> USE DEF Promotable, PutCopy, uploadVars, deviceVars
<1> DEFINE new == [agent |-> a, at |-> clock + 1, saves |-> saves]
<1>1. \A b \in Agents : ~Serving(b) /\ ~Serving(b)' /\ up[b] # "writing" /\ up'[b] # "writing"
  BY DEF Served, Serving
<1>2. /\ clock \in Nat /\ clock' = clock + 1 /\ clock' \in Stamp /\ clock' \in 0..MaxStamp
      /\ new \in Snapshot /\ new.saves # Torn
  BY BoundsAssumption DEF SyncInv, TypeOK, Stamp, Snapshot
<1>3. /\ \A s \in store : s.at \in Nat /\ s.at < new.at
      /\ \A j \in syncs : j.at \in Nat /\ j.looked \in Nat /\ j.at < new.at
  BY <1>2, BoundsAssumption DEF SyncInv, StampsPast, TypeOK, Snapshot, Stamp
<1>4. store' = store \union {new} /\ new.at = clock'
  BY <1>2
<1> HIDE DEF new
<1>5. TypeOK'
  <2>1. \A s \in store' : s.saves # Torn
    BY <1>2, <1>4, ServedIsWhole
  <2>2. conflict' \in (Agents \X Agents) \union {NoConflict} /\ told' \subseteq Stamp
    BY <1>2 DEF SyncInv, TypeOK
  <2> QED BY <1>2, <1>4, <2>1, <2>2 DEF SyncInv, TypeOK
<1>6. OneAtATime' /\ LookedIsLatest' /\ WritingIsNewest'
  BY <1>1 DEF OneAtATime, LookedIsLatest, WritingIsNewest
<1>7. StampsDiffer'
  BY <1>3, <1>4 DEF SyncInv, StampsDiffer
<1>8. StampsPast'
  BY <1>2, <1>3, <1>4 DEF SyncInv, StampsPast
<1>9. JobsFollow'
  <2> SUFFICES ASSUME NEW j \in syncs, NEW s \in store', j.looked <= s.at, s.at < j.at
               PROVE  s.agent = j.prev
    BY DEF JobsFollow
  <2>1. s \in store
    BY <1>2, <1>3, <1>4
  <2> QED BY <2>1 DEF SyncInv, JobsFollow
<1>10. SavesWhole' /\ LastSnapshotKept'
  BY <1>4 DEF SyncInv, SavesWhole, RestoresWhole, LastSnapshotKept
<1> QED BY <1>5, <1>6, <1>7, <1>8, <1>9, <1>10 DEF SyncInv

LEMMA PromoteInv ==
  ASSUME "overlap" \notin Env, SyncInv, NEW a \in Agents, Promote(a) \/ PromoteFails(a)
  PROVE  SyncInv'
<1>1. \A s \in store : s.saves \in Saves /\ s.saves # Torn
  BY ServedIsWhole DEF Promote, PromoteFails, Promotable, SyncInv, TypeOK, Snapshot
<1>2. Half \in Saves /\ Half # Torn
  BY BoundsAssumption DEF Half, Torn, Saves
<1>3. CASE Promote(a)
  <2>1. PICK s \in store : PutCopy(a, s.saves)
    BY <1>3 DEF Promote, LatestOf, Newest
  <2>2. asked' \subseteq Agents
    BY <1>3 DEF Promote, Ask, SyncInv, TypeOK
  <2> QED BY <1>1, <1>3, <2>1, <2>2, PutCopyInv DEF Promote
<1>4. CASE PromoteFails(a)
  <2>1. PICK s \in store : \E saves \in {Half, s.saves} : PutCopy(a, saves)
    BY <1>4 DEF PromoteFails, LatestOf, Newest
  <2>2. PICK saves \in Saves \ {Torn} : PutCopy(a, saves)
    BY <1>1, <1>2, <2>1
  <2>3. asked' \subseteq Agents
    BY <1>4 DEF PromoteFails, SyncInv, TypeOK
  <2> QED BY <1>4, <2>2, <2>3, PutCopyInv DEF PromoteFails
<1> QED BY <1>3, <1>4

LEMMA DismissInv == SyncInv /\ Dismiss => SyncInv'
<1> SUFFICES ASSUME SyncInv, Dismiss PROVE SyncInv' OBVIOUS
<1> USE DEF Dismiss, uploadVars, deviceVars
<1>1. TypeOK'
  BY DEF SyncInv, TypeOK
<1>2. StoreUnchanged
  BY DEF StoreUnchanged, Serving
<1>3. SavesWhole'
  BY DEF SyncInv, SavesWhole, RestoresWhole
<1> QED BY <1>1, <1>2, <1>3, StoreParts DEF SyncInv

LEMMA DeleteSnapshotInv ==
  ASSUME "overlap" \notin Env, SyncInv, NEW s \in store, DeleteSnapshot(s)
  PROVE  SyncInv'
<1> USE DEF DeleteSnapshot, uploadVars, deviceVars
<1>1. \A b \in Agents : ~Serving(b) /\ ~Serving(b)' /\ up'[b] # "writing"
  BY DEF Served, Serving
<1>2. store' \subseteq store /\ kept' \subseteq kept
  OBVIOUS
<1>3. TypeOK'
  BY <1>2 DEF SyncInv, TypeOK
<1>4. OneAtATime' /\ LookedIsLatest' /\ WritingIsNewest'
  BY <1>1 DEF OneAtATime, LookedIsLatest, WritingIsNewest
<1>5. StampsDiffer' /\ StampsPast' /\ JobsFollow'
  BY <1>2 DEF SyncInv, StampsDiffer, StampsPast, JobsFollow
<1>6. SavesWhole' /\ LastSnapshotKept'
  BY DEF SyncInv, SavesWhole, RestoresWhole, LastSnapshotKept
<1> QED BY <1>3, <1>4, <1>5, <1>6 DEF SyncInv

-----------------------------------------------------------------------------
(* The specification.                                                      *)

LEMMA NextInv ==
  ASSUME "overlap" \notin Env, SyncInv, [Next]_vars
  PROVE  SyncInv'
<1>1. CASE UNCHANGED vars
  <2> USE <1>1 DEF vars, uploadVars, deviceVars
  <2>1. TypeOK'
    BY DEF SyncInv, TypeOK
  <2>2. StoreUnchanged
    BY DEF StoreUnchanged, Serving
  <2>3. SavesWhole'
    BY DEF SyncInv, SavesWhole, RestoresWhole
  <2> QED BY <2>1, <2>2, <2>3, StoreParts DEF SyncInv
<1>2. ASSUME NEW a \in Agents, Device(a) PROVE SyncInv'
  BY <1>2, PlayInv, StartUploadInv, FetchInv, WriteSavesInv, WindowEndsInv DEF Device
<1>3. ASSUME NEW a \in Agents, Upload(a) PROVE SyncInv'
  BY <1>3, LookUpLatestInv, MakeDirInv, UploadDoneInv, UploadFailsInv DEF Upload
<1>4. ASSUME NEW a \in Agents, Promote(a) \/ PromoteFails(a) PROVE SyncInv'
  BY <1>4, PromoteInv
<1>5. ASSUME NEW j \in syncs, PostSnapshotSync(j) PROVE SyncInv'
  BY <1>5, PostSnapshotSyncInv
<1>6. ASSUME NEW s \in store, DeleteSnapshot(s) PROVE SyncInv'
  BY <1>6, DeleteSnapshotInv
<1> QED BY <1>1, <1>2, <1>3, <1>4, <1>5, <1>6, DismissInv DEF Next

LEMMA SpecInv ==
  ASSUME "overlap" \notin Env
  PROVE  Spec => []SyncInv
<1>1. Init => SyncInv
  BY InitInv
<1>2. SyncInv /\ [Next]_vars => SyncInv'
  BY NextInv
<1> QED BY <1>1, <1>2, PTL DEF Spec

\* Every variable keeps its type, and the directory of an upload is half-written only while
\* the upload is being served: those that fail leave nothing (UploadSaveSnapshot).  What a
\* promotion that failed leaves is Half, which the types allow.
THEOREM TypeCorrect ==
  ASSUME "overlap" \notin Env
  PROVE  Spec => []TypeOK
<1>1. SyncInv => TypeOK
  BY DEF SyncInv
<1> QED BY <1>1, SpecInv, PTL

\* Neither pruneOldSnapshots nor a failed upload nor a promotion takes the last
\* snapshot that a device was told is stored, whatever Keep is.
THEOREM SnapshotsKept ==
  ASSUME "overlap" \notin Env
  PROVE  Spec => []LastSnapshotKept
<1>1. SyncInv => LastSnapshotKept
  BY DEF SyncInv
<1> QED BY <1>1, SpecInv, PTL

\* postSnapshotSync tells every conflict between two devices: what it pushes without
\* one follows saves of the same device, promotions and deletions in between included.
THEOREM ConflictsAlwaysTold ==
  ASSUME "overlap" \notin Env
  PROVE  Spec => []ConflictsAreTold
<1>1. ASSUME SyncInv PROVE ConflictsAreTold
  <2> SUFFICES ASSUME NEW j \in syncs, NEW s \in store,
                      ~Disputed(j), j.looked <= s.at, s.at < j.at
               PROVE  s.agent = j.agent
    BY DEF ConflictsAreTold
  <2>1. s.agent = j.prev
    BY <1>1 DEF SyncInv, JobsFollow
  <2>2. s.agent \in Agents
    BY <1>1 DEF SyncInv, TypeOK, Snapshot
  <2> QED BY <2>1, <2>2, NamesAssumption DEF Disputed
<1> QED BY <1>1, SpecInv, PTL

\* restoreLatestSave never leaves half an upload on a device, whatever fails: what
\* ServeLatestSave answers with is an upload that was extracted to its end, or a copy that a
\* promotion made of one, which is Half if the promotion failed.
THEOREM RestoresAlwaysWhole ==
  ASSUME "overlap" \notin Env
  PROVE  Spec => []RestoresWhole
<1>1. SyncInv => RestoresWhole
  BY DEF SyncInv, SavesWhole
<1> QED BY <1>1, SpecInv, PTL

-----------------------------------------------------------------------------
(* The devices agree.  First what steps that let the devices alone keep.   *)

Reachable == {"overlap", "two_restores", "offline", "delete_latest"} \intersect Env = {}

\* Nothing that is held or stored comes from nowhere.
LEMMA OwnStep ==
  ASSUME SyncInv, UploadsAreOwn, Stored' \subseteq Stored \union {Torn, Half},
         \A a \in Agents : Held(a)' \subseteq Held(a) \union Stored,
         \A a \in Agents : up'[a] # "none" =>
           \/ up[a] # "none" /\ sent'[a] = sent[a]
           \/ a \in dirty \ dirty' /\ sent'[a] = local[a],
         \A a \in dirty' : a \in dirty /\ local'[a] = local[a]
  PROVE  UploadsAreOwn'
<1>1. ASSUME NEW v, NEW a \in Agents, Unshared(v, a), v # Torn
      PROVE  Unshared(v, a)'
  <2>1. v \notin Stored /\ v # None /\ v # Half /\ \A b \in Agents \ {a} : v \notin Held(b)
    BY <1>1 DEF Unshared
  <2> QED BY <1>1, <2>1 DEF Unshared
<1>2. \A a \in Agents : local[a] # Torn /\ sent[a] # Torn
  BY DEF SyncInv, SavesWhole, RestoresWhole
<1>3. ASSUME NEW a \in Agents, up'[a] # "none"
      PROVE  sent'[a] \notin Stored' \union {None, Half} /\ \A b \in Agents \ {a} : sent'[a] \notin Held(b)'
  <2>1. Unshared(sent'[a], a) /\ sent'[a] # Torn
    BY <1>2, <1>3 DEF UploadsAreOwn
  <2> QED BY <1>1, <2>1 DEF Unshared
<1>4. ASSUME NEW a \in Agents, a \in dirty'
      PROVE  /\ local'[a] \notin Stored' \union {None, Half}
             /\ \A b \in Agents \ {a} : local'[a] \notin Held(b)'
             /\ up'[a] # "none" => local'[a] # sent'[a]
  <2>1. Unshared(local'[a], a) /\ local'[a] # Torn
    BY <1>2, <1>4 DEF UploadsAreOwn
  <2>2. up'[a] # "none" => local'[a] # sent'[a]
    BY <1>4 DEF UploadsAreOwn
  <2> QED BY <1>1, <2>1, <2>2 DEF Unshared
<1> QED BY <1>3, <1>4 DEF UploadsAreOwn, Unshared

\* Saves the server is not about to get, on devices that are let alone.
LEMMA LetAlone ==
  ASSUME AgreeInv, SyncInv', UNCHANGED deviceVars,
         \A s \in store' : s.saves \in Stored \union {Torn, Half},
         \A a \in Agents : sent'[a] \in {sent[a], None},
         \A a \in Agents : up'[a] # "none" => up[a] # "none" /\ sent'[a] = sent[a]
  PROVE  RestoresAreQuiet' /\ VersionsAreMade' /\ UploadsAreOwn'
<1> USE DEF deviceVars
<1>1. RestoresAreQuiet'
  BY DEF AgreeInv, RestoresAreQuiet
<1>2. VersionsAreMade'
  <2>1. None \in 0..made
    BY BoundsAssumption DEF None, AgreeInv, SyncInv, TypeOK
  <2> QED BY <2>1 DEF AgreeInv, VersionsAreMade, Stored
<1>3. Stored' \subseteq Stored \union {Torn, Half}
  BY DEF Stored
<1>4. \A a \in Agents : Held(a)' \subseteq Held(a) \union Stored
  BY DEF Held
<1>5. UploadsAreOwn'
  BY <1>3, <1>4, OwnStep DEF AgreeInv
<1> QED BY <1>1, <1>2, <1>5

LEMMA FollowedStill ==
  ASSUME SyncInv, LatestIsFollowed, UNCHANGED <<deviceVars, asked, told, syncs>>,
         Newest(Whole)' \subseteq Newest(Whole), Stored' \subseteq Stored \union {Torn}
  PROVE  LatestIsFollowed'
<1> SUFFICES ASSUME NEW s \in Newest(Whole)', s.at \notin told', NEW a \in Agents \ {s.agent},
                    ~ToBeAsked(a, s)'
             PROVE  \/ got'[a] = {s.saves}
                    \/ got'[a] = {} /\ (local'[a] = s.saves \/ local'[a] \notin Stored' \union {None})
  BY DEF LatestIsFollowed, FollowsOrLeads
<1>1. ~ToBeAsked(a, s)
  BY DEF ToBeAsked
<1>2. FollowsOrLeads(a, s.saves)
  BY <1>1 DEF LatestIsFollowed
<1>3. local[a] # Torn
  BY DEF SyncInv, SavesWhole, RestoresWhole
<1> QED BY <1>2, <1>3 DEF FollowsOrLeads, deviceVars

LEMMA LookUpLatestAgree ==
  ASSUME AgreeInv, SyncInv', NEW a \in Agents, LookUpLatest(a)
  PROVE  AgreeInv'
<1>1. /\ UNCHANGED <<deviceVars, sent, asked, told, syncs, store>>
      /\ \A b \in Agents : up'[b] # "none" => up[b] # "none"
  BY DEF LookUpLatest, AgreeInv, SyncInv, TypeOK
<1>2. RestoresAreQuiet' /\ VersionsAreMade' /\ UploadsAreOwn' /\ Stored' \subseteq Stored \union {Torn}
  BY <1>1, LetAlone DEF Stored
<1>3. LatestIsFollowed'
  BY <1>1, <1>2, FollowedStill DEF AgreeInv, Whole
<1> QED BY <1>2, <1>3 DEF AgreeInv

LEMMA MakeDirAgree ==
  ASSUME AgreeInv, SyncInv', NEW a \in Agents, MakeDir(a)
  PROVE  AgreeInv'
<1>1. /\ UNCHANGED <<deviceVars, sent, asked, told, syncs>>
      /\ store' = store \union {[agent |-> a, at |-> clock', saves |-> Torn]}
      /\ \A b \in Agents : up'[b] # "none" => up[b] # "none"
  BY DEF MakeDir, AgreeInv, SyncInv, TypeOK
<1>2. RestoresAreQuiet' /\ VersionsAreMade' /\ UploadsAreOwn' /\ Stored' \subseteq Stored \union {Torn}
  BY <1>1, LetAlone DEF Stored
<1>3. Whole' = Whole
  BY <1>1 DEF Whole
<1>4. LatestIsFollowed'
  BY <1>1, <1>2, <1>3, FollowedStill DEF AgreeInv
<1> QED BY <1>2, <1>4 DEF AgreeInv

LEMMA UploadFailsAgree ==
  ASSUME AgreeInv, SyncInv', NEW a \in Agents, UploadFails(a)
  PROVE  AgreeInv'
<1>1. /\ UNCHANGED <<deviceVars, asked, told, syncs>>
      /\ up[a] = "writing" /\ store' = Written(a) /\ HandlerEnds(a)
  BY DEF UploadFails
<1>5. /\ \A b \in Agents : sent'[b] \in {sent[b], None}
      /\ \A b \in Agents : up'[b] # "none" => up[b] # "none" /\ sent'[b] = sent[b]
  BY <1>1, HandlerGone DEF AgreeInv, SyncInv
<1>2. RestoresAreQuiet' /\ VersionsAreMade' /\ UploadsAreOwn' /\ Stored' \subseteq Stored \union {Torn}
  BY <1>1, <1>5, LetAlone DEF Stored, Written
<1>3. Whole' = Whole
  <2> DEFINE torn == [agent |-> a, at |-> dir[a], saves |-> Torn]
  <2>1. torn \in store
    BY <1>1 DEF AgreeInv, SyncInv, WritingIsNewest
  <2>2. \A s \in store : s.at = dir[a] => s = torn
    BY <2>1 DEF AgreeInv, SyncInv, StampsDiffer
  <2> QED BY <1>1, <2>2 DEF Whole, Written
<1>4. LatestIsFollowed'
  BY <1>1, <1>2, <1>3, FollowedStill DEF AgreeInv
<1> QED BY <1>2, <1>4 DEF AgreeInv

LEMMA DeleteSnapshotAgree ==
  ASSUME Reachable, AgreeInv, SyncInv', NEW s \in store, DeleteSnapshot(s)
  PROVE  AgreeInv'
<1>1. /\ UNCHANGED <<deviceVars, sent, asked, told, syncs, up>>
      /\ s \notin Newest(store) /\ store' = store \ {s} /\ Served
  BY DEF DeleteSnapshot, Reachable, uploadVars
<1>2. RestoresAreQuiet' /\ VersionsAreMade' /\ UploadsAreOwn' /\ Stored' \subseteq Stored \union {Torn}
  BY <1>1, LetAlone DEF Stored
<1>3. Whole = store /\ Whole' = store'
  BY <1>1, ServedIsWhole DEF AgreeInv, Reachable, Whole
<1>4. ASSUME NEW r \in Newest(store') PROVE r \in Newest(store)
  <2>1. \A q \in store : q.at \in Nat
    BY BoundsAssumption DEF AgreeInv, SyncInv, TypeOK, Snapshot, Stamp
  <2>2. PICK t \in store : ~(t.at <= s.at)
    BY <1>1 DEF Newest
  <2>3. t \in store' /\ s.at <= t.at
    BY <1>1, <2>1, <2>2
  <2>4. t.at <= r.at /\ r \in store
    BY <1>1, <2>3 DEF Newest
  <2>5. s.at <= r.at
    BY <2>1, <2>3, <2>4
  <2> QED BY <1>1, <2>4, <2>5 DEF Newest
<1>5. LatestIsFollowed'
  BY <1>1, <1>2, <1>3, <1>4, FollowedStill DEF AgreeInv
<1> QED BY <1>2, <1>5 DEF AgreeInv

\* A job that is handled asks the other devices, or publishes a conflict.
LEMMA PostSnapshotSyncAgree ==
  ASSUME Reachable, AgreeInv, SyncInv', NEW j \in syncs, PostSnapshotSync(j)
  PROVE  AgreeInv'
<1>1. /\ UNCHANGED <<deviceVars, sent, up, store>> /\ syncs' = syncs \ {j}
      /\ \/ told' = told \union {j.at} /\ asked' = asked
         \/ told' = told /\ asked' = asked \union (Agents \ {j.agent})
  BY DEF PostSnapshotSync, Ask, Reachable, uploadVars
<1>2. RestoresAreQuiet' /\ VersionsAreMade' /\ UploadsAreOwn'
  BY <1>1, LetAlone DEF Stored
<1>3. ASSUME NEW s \in Newest(Whole), s.at \notin told', NEW a \in Agents \ {s.agent}, ToBeAsked(a, s)
      PROVE  ToBeAsked(a, s)'
  <2>1. CASE a \in asked
    BY <1>1, <2>1 DEF ToBeAsked
  <2>2. CASE a \notin asked
    <3>1. PICK k \in syncs : k.at = s.at /\ k.agent = s.agent
      BY <1>3, <2>2 DEF ToBeAsked
    <3>2. CASE k # j
      BY <1>1, <3>1, <3>2 DEF ToBeAsked
    <3>3. CASE k = j
      BY <1>1, <1>3, <3>1, <3>3 DEF ToBeAsked
    <3> QED BY <3>2, <3>3
  <2> QED BY <2>1, <2>2
<1>4. LatestIsFollowed'
  <2> SUFFICES ASSUME NEW s \in Newest(Whole), s.at \notin told', NEW a \in Agents \ {s.agent}
               PROVE  ToBeAsked(a, s)' \/ FollowsOrLeads(a, s.saves)
    BY <1>1 DEF LatestIsFollowed, FollowsOrLeads, Whole, Stored, deviceVars
  <2>1. s.at \notin told
    BY <1>1
  <2> QED BY <1>3, <2>1 DEF AgreeInv, LatestIsFollowed
<1> QED BY <1>2, <1>4 DEF AgreeInv

LEMMA DismissAgree ==
  ASSUME AgreeInv, SyncInv', Dismiss
  PROVE  AgreeInv'
<1>1. UNCHANGED <<deviceVars, sent, asked, told, syncs, up, store>>
  BY DEF Dismiss, uploadVars
<1>2. RestoresAreQuiet' /\ VersionsAreMade' /\ UploadsAreOwn' /\ Stored' \subseteq Stored \union {Torn}
  BY <1>1, LetAlone DEF Stored
<1>3. LatestIsFollowed'
  BY <1>1, <1>2, FollowedStill DEF AgreeInv, Whole
<1> QED BY <1>2, <1>3 DEF AgreeInv

\* A promotion asks all devices; about the snapshot of one that fails the user is told.
LEMMA PromoteAgree ==
  ASSUME Reachable, AgreeInv, SyncInv', NEW a \in Agents, Promote(a) \/ PromoteFails(a)
  PROVE  AgreeInv'
<1>1. PICK saves \in Stored \union {Half} : PutCopy(a, saves)
  BY DEF Promote, PromoteFails, LatestOf, Newest, Stored
<1>2. /\ UNCHANGED <<deviceVars, sent, up>>
      /\ Agents \subseteq asked' \/ told' = told \union {clock + 1}
  BY DEF Promote, PromoteFails, Ask, Reachable, uploadVars
<1>3. store' = store \union {[agent |-> a, at |-> clock + 1, saves |-> saves]}
  BY <1>1 DEF PutCopy
<1>4. \A s \in store' : s.saves \in Stored \union {Torn, Half}
  BY <1>3 DEF Stored
<1>5. RestoresAreQuiet' /\ VersionsAreMade' /\ UploadsAreOwn'
  BY <1>2, <1>4, LetAlone
<1>6. ASSUME Agents \subseteq asked' PROVE LatestIsFollowed'
  <2>1. \A b \in Agents : \A s : ToBeAsked(b, s)'
    BY <1>6 DEF ToBeAsked
  <2> QED BY <2>1 DEF LatestIsFollowed
<1>7. ASSUME told' = told \union {clock + 1} PROVE LatestIsFollowed'
  <2> DEFINE new == [agent |-> a, at |-> clock + 1, saves |-> saves]
  <2>1. /\ new \in Whole'
        /\ clock \in Nat /\ \A s \in store : s.at \in Nat /\ s.at <= clock
    <3>1. saves # Torn
      <4>1. \A s \in store : s.saves # Torn
        BY ServedIsWhole DEF Promote, PromoteFails, Promotable, AgreeInv, Reachable
      <4> QED BY <4>1, BoundsAssumption DEF Stored, Half, Torn
    <3>2. clock \in Nat /\ \A s \in store : s.at \in Nat /\ s.at <= clock
      BY BoundsAssumption DEF AgreeInv, SyncInv, StampsPast, TypeOK, Snapshot, Stamp
    <3> QED BY <1>3, <3>1, <3>2 DEF Whole
  <2>2. \A s \in Newest(Whole)' : s.at = clock + 1
    <3> SUFFICES ASSUME NEW s \in Newest(Whole') PROVE s.at = clock + 1
      OBVIOUS
    <3>1. s \in store' /\ new.at <= s.at
      BY <2>1 DEF Newest, Whole
    <3> QED BY <1>3, <2>1, <3>1
  <2>3. ASSUME NEW s \in Newest(Whole)' PROVE s.at \in told'
    BY <1>7, <2>2
  <2> QED BY <2>3 DEF LatestIsFollowed
<1>8. LatestIsFollowed'
  BY <1>2, <1>6, <1>7
<1> QED BY <1>5, <1>8 DEF AgreeInv

\* What an upload stores was nobody else's, and its job will ask the others.
LEMMA UploadDoneAgree ==
  ASSUME AgreeInv, SyncInv', NEW a \in Agents, UploadDone(a)
  PROVE  AgreeInv'
<1> DEFINE snap == [agent |-> a, at |-> dir[a], saves |-> sent[a]]
           job == [agent |-> a, at |-> dir[a], prev |-> prev[a], looked |-> looked[a]]
<1>1. /\ up[a] = "writing" /\ HandlerEnds(a)
      /\ store' = Pruned(a, Written(a) \union {snap}) /\ syncs' = syncs \union {job}
      /\ UNCHANGED <<clock, told, asked, deviceVars>>
  BY DEF UploadDone
<1>2. /\ snap \in store' /\ store' \subseteq store \union {snap}
      /\ up'[a] = "none" /\ sent'[a] = None
      /\ \A b \in Agents \ {a} : up'[b] = up[b] /\ sent'[b] = sent[b]
  BY <1>1, UploadDoneStore, HandlerGone DEF AgreeInv, SyncInv, Written
<1>3. snap.at = clock /\ snap.saves = sent[a] /\ snap.agent = a /\ job.agent = a /\ job.at = snap.at
  BY <1>1 DEF AgreeInv, SyncInv, WritingIsNewest
<1> HIDE DEF snap, job
<1>4. Stored' \subseteq Stored \union {sent[a]} /\ Unshared(sent[a], a)
  BY <1>1, <1>2, <1>3 DEF Stored, AgreeInv, UploadsAreOwn
<1>5. RestoresAreQuiet'
  BY <1>1 DEF AgreeInv, RestoresAreQuiet, deviceVars
<1>6. VersionsAreMade'
  <2>1. \A s \in store' : s.saves \in 0..made \union {Torn, Half}
    BY <1>2, <1>3 DEF AgreeInv, VersionsAreMade
  <2>2. None \in 0..made
    BY BoundsAssumption DEF None, AgreeInv, SyncInv, TypeOK
  <2> QED BY <1>1, <1>2, <2>1, <2>2 DEF AgreeInv, VersionsAreMade, deviceVars
<1>7. UploadsAreOwn'
  <2>1. ASSUME NEW b \in Agents PROVE Held(b)' \subseteq Held(b)
    <3>1. local'[b] = local[b] /\ got'[b] = got[b]
      BY <1>1 DEF deviceVars
    <3>2. up'[b] = "none" \/ (up'[b] = up[b] /\ sent'[b] = sent[b])
      BY <1>2
    <3> QED BY <3>1, <3>2 DEF Held
  <2>2. ASSUME NEW v, NEW b \in Agents, Unshared(v, b), v # sent[a]
        PROVE  v \notin Stored' \union {None, Half} /\ \A c \in Agents \ {b} : v \notin Held(c)'
    <3>1. v \notin Stored /\ v # None /\ v # Half /\ \A c \in Agents \ {b} : v \notin Held(c)
      BY <2>2 DEF Unshared
    <3>2. v \notin Stored'
      BY <1>4, <2>2, <3>1
    <3>3. \A c \in Agents \ {b} : v \notin Held(c)'
      BY <2>1, <3>1
    <3> QED BY <3>1, <3>2, <3>3
  <2>3. ASSUME NEW b \in Agents, up'[b] # "none"
        PROVE  /\ sent'[b] \notin Stored' \union {None, Half}
               /\ \A c \in Agents \ {b} : sent'[b] \notin Held(c)'
    <3>1. b # a /\ up[b] # "none" /\ Unshared(sent[b], b) /\ sent'[b] = sent[b]
      BY <1>2, <2>3 DEF AgreeInv, UploadsAreOwn
    <3>2. sent[b] # sent[a]
      BY <1>4, <3>1 DEF Unshared, Held
    <3> QED BY <2>2, <3>1, <3>2
  <2>4. ASSUME NEW b \in Agents, b \in dirty'
        PROVE  /\ local'[b] \notin Stored' \union {None, Half}
               /\ \A c \in Agents \ {b} : local'[b] \notin Held(c)'
               /\ up'[b] # "none" => local'[b] # sent'[b]
    <3>1. b \in dirty /\ local'[b] = local[b]
      BY <1>1, <2>4 DEF deviceVars
    <3>2. Unshared(local[b], b) /\ (up[b] # "none" => local[b] # sent[b])
      BY <3>1 DEF AgreeInv, UploadsAreOwn
    <3>3. local[b] # sent[a]
      BY <1>1, <1>4, <3>2 DEF Unshared, Held
    <3> QED BY <1>2, <2>2, <3>1, <3>2, <3>3
  <2> QED BY <2>3, <2>4 DEF UploadsAreOwn, Unshared
<1>8. LatestIsFollowed'
  <2>1. snap \in Whole'
    BY <1>2, <1>3 DEF Whole, AgreeInv, SyncInv, SavesWhole
  <2>2. clock \in Nat /\ \A s \in store' : s.at \in Nat /\ s.at <= clock
    <3>1. clock \in Nat /\ \A s \in store : s.at \in Nat /\ s.at <= clock
      BY BoundsAssumption DEF AgreeInv, SyncInv, StampsPast, TypeOK, Snapshot, Stamp
    <3> QED BY <1>2, <1>3, <3>1
  <2>3. \A s \in Newest(Whole)' : s = snap
    <3> SUFFICES ASSUME NEW s \in Newest(Whole') PROVE s = snap
      OBVIOUS
    <3>1. s \in store' /\ snap.at <= s.at
      BY <2>1 DEF Newest, Whole
    <3>2. s.at = snap.at
      BY <1>3, <2>2, <3>1
    <3> QED BY <1>2, <3>1, <3>2 DEF SyncInv, StampsDiffer
  <2>4. job \in syncs'
    BY <1>1
  <2>5. ASSUME NEW s \in Newest(Whole)', NEW b \in Agents \ {s.agent} PROVE ToBeAsked(b, s)'
    <3>1. s.at = job.at /\ s.agent = job.agent
      BY <1>3, <2>3, <2>5
    <3> QED BY <2>4, <3>1 DEF ToBeAsked
  <2> QED BY <2>5 DEF LatestIsFollowed
<1> QED BY <1>5, <1>6, <1>7, <1>8 DEF AgreeInv

-----------------------------------------------------------------------------
(* Devices.                                                                *)

LEMMA PlayAgree ==
  ASSUME AgreeInv, SyncInv', NEW a \in Agents, Play(a)
  PROVE  AgreeInv'
<1>1. /\ made' = made + 1 /\ made \in Nat /\ made' < Half
      /\ local' = [local EXCEPT ![a] = made']
      /\ dirty' = dirty \/ (a \notin quiet /\ dirty' = dirty \union {a})
      /\ UNCHANGED <<store, up, sent, syncs, told, asked, got, quiet>>
  BY BoundsAssumption DEF Play, uploadVars, AgreeInv, SyncInv, TypeOK, Half
<1>2. local'[a] = made' /\ \A b \in Agents \ {a} : local'[b] = local[b]
  BY <1>1 DEF AgreeInv, SyncInv, TypeOK
<1>3. RestoresAreQuiet'
  BY <1>1 DEF AgreeInv, RestoresAreQuiet
<1>4. VersionsAreMade'
  <2>1. 0..made \subseteq 0..made' /\ made' \in 0..made'
    BY <1>1
  <2> QED BY <1>1, <1>2, <2>1 DEF AgreeInv, VersionsAreMade
<1>5. made' \notin Stored \union {None, Half}
  <2>1. made' \notin 0..made /\ made' # Torn /\ made' # Half /\ made' # None
    BY <1>1, BoundsAssumption DEF Play, AgreeInv, SyncInv, TypeOK, Half, Torn, None
  <2> QED BY <2>1 DEF AgreeInv, VersionsAreMade, Stored
<1>6. \A b \in Agents : made' \notin Held(b)
  <2>1. made' \notin 0..made \union {Half}
    BY <1>1, BoundsAssumption DEF Half
  <2> QED BY <2>1 DEF AgreeInv, VersionsAreMade, Held
<1>7. \A b \in Agents : Held(b)' \subseteq Held(b) \union {made'}
  BY <1>1, <1>2 DEF Held
<1>8. \A b \in Agents \ {a} : Held(b)' = Held(b)
  BY <1>1, <1>2 DEF Held
<1>9. UploadsAreOwn'
  <2>1. ASSUME NEW v, NEW b \in Agents, Unshared(v, b), v # made'
        PROVE  v \notin Stored' \union {None, Half} /\ \A c \in Agents \ {b} : v \notin Held(c)'
    BY <1>1, <1>7, <2>1 DEF Unshared, Stored
  <2>2. ASSUME NEW b \in Agents, up'[b] # "none"
        PROVE  /\ sent'[b] \notin Stored' \union {None, Half}
               /\ \A c \in Agents \ {b} : sent'[b] \notin Held(c)'
    <3>1. Unshared(sent[b], b) /\ sent'[b] = sent[b]
      BY <1>1, <2>2 DEF AgreeInv, UploadsAreOwn
    <3>2. sent[b] # made'
      BY <1>1, <1>6, <2>2 DEF Held
    <3> QED BY <2>1, <3>1, <3>2
  <2>3. ASSUME NEW b \in Agents, b \in dirty'
        PROVE  /\ local'[b] \notin Stored' \union {None, Half}
               /\ \A c \in Agents \ {b} : local'[b] \notin Held(c)'
               /\ up'[b] # "none" => local'[b] # sent'[b]
    <3>1. CASE b = a
      <4>1. up'[a] # "none" => sent'[a] # made'
        BY <1>1, <1>6 DEF Held
      <4> QED BY <1>1, <1>2, <1>5, <1>6, <1>8, <3>1, <4>1 DEF Stored
    <3>2. CASE b # a
      <4>1. b \in dirty /\ local'[b] = local[b] /\ sent'[b] = sent[b] /\ up'[b] = up[b]
        BY <1>1, <1>2, <2>3, <3>2
      <4>2. Unshared(local[b], b) /\ (up[b] # "none" => local[b] # sent[b])
        BY <4>1 DEF AgreeInv, UploadsAreOwn
      <4>3. local[b] # made'
        BY <1>6 DEF Held
      <4> QED BY <2>1, <4>1, <4>2, <4>3
    <3> QED BY <3>1, <3>2
  <2> QED BY <2>2, <2>3 DEF UploadsAreOwn, Unshared
<1>10. LatestIsFollowed'
  <2> SUFFICES ASSUME NEW s \in Newest(Whole), s.at \notin told, NEW b \in Agents \ {s.agent},
                      ~ToBeAsked(b, s)
               PROVE  \/ got[b] = {s.saves}
                      \/ got[b] = {} /\ (local'[b] = s.saves \/ local'[b] \notin Stored \union {None})
    BY <1>1 DEF LatestIsFollowed, FollowsOrLeads, ToBeAsked, Whole, Stored
  <2>1. FollowsOrLeads(b, s.saves)
    BY DEF AgreeInv, LatestIsFollowed
  <2> QED BY <1>2, <1>5, <2>1 DEF FollowsOrLeads
<1> QED BY <1>3, <1>4, <1>9, <1>10 DEF AgreeInv

LEMMA StartUploadAgree ==
  ASSUME AgreeInv, SyncInv', NEW a \in Agents, StartUpload(a)
  PROVE  AgreeInv'
<1>1. /\ a \in dirty /\ up[a] = "none" /\ dirty' = dirty \ {a}
      /\ up'[a] = "posted" /\ sent'[a] = local[a]
      /\ \A b \in Agents \ {a} : up'[b] = up[b] /\ sent'[b] = sent[b]
      /\ UNCHANGED <<store, syncs, told, asked, got, quiet, local, made>>
  BY DEF StartUpload, AgreeInv, SyncInv, TypeOK
<1>2. RestoresAreQuiet'
  BY <1>1 DEF AgreeInv, RestoresAreQuiet
<1>3. VersionsAreMade'
  <2>1. local[a] \in 0..made
    BY <1>1 DEF AgreeInv, VersionsAreMade, UploadsAreOwn, Unshared
  <2> QED BY <1>1, <2>1 DEF AgreeInv, VersionsAreMade
<1>4. \A b \in Agents : Held(b)' \subseteq Held(b)
  BY <1>1 DEF Held
<1>5. UploadsAreOwn'
  BY <1>1, <1>4, OwnStep DEF AgreeInv, Stored
<1>6. LatestIsFollowed'
  BY <1>1 DEF AgreeInv, LatestIsFollowed, FollowsOrLeads, ToBeAsked, Whole, Stored
<1> QED BY <1>2, <1>3, <1>5, <1>6 DEF AgreeInv

\* What a device downloads is the latest snapshot.
LEMMA FetchAgree ==
  ASSUME Reachable, AgreeInv, SyncInv', NEW a \in Agents, Fetch(a)
  PROVE  AgreeInv'
<1>1. /\ asked' = asked \ {a} /\ got[a] = {}
      /\ UNCHANGED <<store, up, sent, syncs, told, local, made>>
  BY DEF Fetch, Reachable, uploadVars
<1>2. Whole = store
  BY ServedIsWhole DEF Fetch, AgreeInv, Reachable, Whole
<1>3. \/ store = {} /\ UNCHANGED <<got, quiet, dirty>>
      \/ \E s \in Newest(store) :
           /\ got' = [got EXCEPT ![a] = {s.saves}]
           /\ quiet' = quiet \union {a} /\ dirty' = dirty \ {a}
  BY <1>1 DEF Fetch
<1>4. RestoresAreQuiet'
  BY <1>1, <1>3 DEF AgreeInv, RestoresAreQuiet, SyncInv, TypeOK
<1>5. got \in [Agents -> SUBSET Saves] /\ \A s \in Newest(store) : s \in store /\ s.saves # Torn
  BY <1>2 DEF AgreeInv, SyncInv, TypeOK, Newest, Whole
<1>6. \A b \in Agents : got'[b] \subseteq got[b] \union Stored /\ Torn \notin got'[b]
  BY <1>3, <1>5 DEF Stored, SyncInv, SavesWhole
<1>7. VersionsAreMade'
  <2>1. \A b \in Agents : got'[b] \subseteq 0..made \union {Half}
    BY <1>6 DEF AgreeInv, VersionsAreMade, Stored
  <2> QED BY <1>1, <2>1 DEF AgreeInv, VersionsAreMade
<1>8. UploadsAreOwn'
  <2>1. \A b \in Agents : Held(b)' \subseteq Held(b) \union Stored
    BY <1>1, <1>6 DEF Held
  <2> QED BY <1>1, <1>3, <2>1, OwnStep DEF AgreeInv, Stored
<1>9. LatestIsFollowed'
  <2> SUFFICES ASSUME NEW s \in Newest(store), s.at \notin told, NEW b \in Agents \ {s.agent},
                      ~ToBeAsked(b, s)'
               PROVE  \/ got'[b] = {s.saves}
                      \/ got'[b] = {} /\ (local[b] = s.saves \/ local[b] \notin Stored \union {None})
    BY <1>1, <1>2 DEF LatestIsFollowed, FollowsOrLeads, Whole, Stored
  <2>1. CASE b = a
    <3>1. store # {}
      BY DEF Newest
    <3>2. \A r \in Newest(store) : r = s
      <4>1. \A q \in store : q.at \in Nat
        BY BoundsAssumption DEF AgreeInv, SyncInv, TypeOK, Snapshot, Stamp
      <4> QED BY <4>1 DEF Newest, AgreeInv, SyncInv, StampsDiffer
    <3> QED BY <1>3, <1>5, <2>1, <3>1, <3>2
  <2>2. CASE b # a
    <3>1. got'[b] = got[b] /\ ~ToBeAsked(b, s)
      BY <1>1, <1>3, <1>5, <2>2 DEF ToBeAsked
    <3>2. FollowsOrLeads(b, s.saves)
      BY <1>2, <3>1 DEF AgreeInv, LatestIsFollowed
    <3> QED BY <3>1, <3>2 DEF FollowsOrLeads
  <2> QED BY <2>1, <2>2
<1> QED BY <1>4, <1>7, <1>8, <1>9 DEF AgreeInv

LEMMA WriteSavesAgree ==
  ASSUME AgreeInv, SyncInv', NEW a \in Agents, WriteSaves(a)
  PROVE  AgreeInv'
<1>1. PICK v \in got[a] : got' = [got EXCEPT ![a] = @ \ {v}] /\ local' = [local EXCEPT ![a] = v]
  BY DEF WriteSaves
<1>2. /\ got'[a] = got[a] \ {v} /\ local'[a] = v
      /\ \A b \in Agents \ {a} : got'[b] = got[b] /\ local'[b] = local[b]
      /\ UNCHANGED <<store, up, sent, syncs, told, asked, quiet, dirty, made>>
  BY <1>1 DEF WriteSaves, uploadVars, AgreeInv, SyncInv, TypeOK
<1>3. RestoresAreQuiet'
  BY <1>2 DEF AgreeInv, RestoresAreQuiet
<1>4. VersionsAreMade'
  BY <1>2 DEF AgreeInv, VersionsAreMade
<1>5. a \notin dirty
  BY DEF AgreeInv, RestoresAreQuiet
<1>6. \A b \in Agents : Held(b)' \subseteq Held(b)
  BY <1>2 DEF Held
<1>7. UploadsAreOwn'
  <2>1. \A b \in Agents : Held(b)' \subseteq Held(b) \union Stored
    BY <1>6
  <2>2. \A b \in dirty' : b \in dirty /\ local'[b] = local[b]
    BY <1>2, <1>5 DEF AgreeInv, SyncInv, TypeOK
  <2>3. Stored' \subseteq Stored \union {Torn}
    BY <1>2 DEF Stored
  <2> QED BY <1>2, <2>1, <2>2, <2>3, OwnStep DEF AgreeInv
<1>8. LatestIsFollowed'
  <2> SUFFICES ASSUME NEW s \in Newest(Whole), s.at \notin told, NEW b \in Agents \ {s.agent},
                      ~ToBeAsked(b, s)
               PROVE  \/ got'[b] = {s.saves}
                      \/ got'[b] = {} /\ (local'[b] = s.saves \/ local'[b] \notin Stored \union {None})
    BY <1>2 DEF LatestIsFollowed, FollowsOrLeads, ToBeAsked, Whole, Stored
  <2>1. FollowsOrLeads(b, s.saves)
    BY DEF AgreeInv, LatestIsFollowed
  <2> QED BY <1>2, <2>1 DEF FollowsOrLeads
<1> QED BY <1>3, <1>4, <1>7, <1>8 DEF AgreeInv

LEMMA WindowEndsAgree ==
  ASSUME AgreeInv, SyncInv', NEW a \in Agents, WindowEnds(a)
  PROVE  AgreeInv'
<1>1. /\ got[a] = {} /\ quiet' = quiet \ {a}
      /\ UNCHANGED <<store, up, sent, syncs, told, asked, got, local, dirty, made>>
  BY DEF WindowEnds, uploadVars
<1>2. RestoresAreQuiet'
  BY <1>1 DEF AgreeInv, RestoresAreQuiet
<1>3. VersionsAreMade' /\ UploadsAreOwn'
  BY <1>1 DEF AgreeInv, VersionsAreMade, UploadsAreOwn, Unshared, Held, Stored
<1>4. LatestIsFollowed'
  BY <1>1 DEF AgreeInv, LatestIsFollowed, FollowsOrLeads, ToBeAsked, Whole, Stored
<1> QED BY <1>2, <1>3, <1>4 DEF AgreeInv

LEMMA InitAgree == Init => AgreeInv
<1> SUFFICES ASSUME Init PROVE AgreeInv OBVIOUS
<1> USE DEF Init
<1>1. RestoresAreQuiet /\ UploadsAreOwn
  BY DEF RestoresAreQuiet, UploadsAreOwn
<1>2. VersionsAreMade
  BY DEF VersionsAreMade, None
<1>3. LatestIsFollowed
  BY DEF LatestIsFollowed, Newest, Whole
<1> QED BY <1>1, <1>2, <1>3, InitInv DEF AgreeInv

LEMMA NextAgree ==
  ASSUME Reachable, AgreeInv, [Next]_vars
  PROVE  AgreeInv'
<1>0. SyncInv'
  BY NextInv DEF AgreeInv, Reachable
<1>1. CASE UNCHANGED vars
  <2>1. RestoresAreQuiet' /\ VersionsAreMade' /\ UploadsAreOwn'
    BY <1>1 DEF vars, uploadVars, deviceVars, AgreeInv, RestoresAreQuiet, VersionsAreMade,
       UploadsAreOwn, Unshared, Held, Stored
  <2>2. LatestIsFollowed'
    BY <1>1 DEF vars, uploadVars, deviceVars, AgreeInv, LatestIsFollowed, FollowsOrLeads,
       ToBeAsked, Whole, Stored
  <2> QED BY <1>0, <2>1, <2>2 DEF AgreeInv
<1>2. ASSUME NEW a \in Agents, Device(a) PROVE AgreeInv'
  BY <1>0, <1>2, PlayAgree, StartUploadAgree, FetchAgree, WriteSavesAgree, WindowEndsAgree
     DEF Device
<1>3. ASSUME NEW a \in Agents, Upload(a) PROVE AgreeInv'
  BY <1>0, <1>3, LookUpLatestAgree, MakeDirAgree, UploadDoneAgree, UploadFailsAgree DEF Upload
<1>4. ASSUME NEW a \in Agents, Promote(a) \/ PromoteFails(a) PROVE AgreeInv'
  BY <1>0, <1>4, PromoteAgree
<1>5. ASSUME NEW j \in syncs, PostSnapshotSync(j) PROVE AgreeInv'
  BY <1>0, <1>5, PostSnapshotSyncAgree
<1>6. ASSUME NEW s \in store, DeleteSnapshot(s) PROVE AgreeInv'
  BY <1>0, <1>6, DeleteSnapshotAgree
<1>7. CASE Dismiss
  BY <1>0, <1>7, DismissAgree
<1> QED BY <1>1, <1>2, <1>3, <1>4, <1>5, <1>6, <1>7 DEF Next

\* When every request has been handled, the devices have the saves of the latest snapshot,
\* or saves the server has not, unless the server has published a conflict about it or
\* answered its promotion with an error: uploads that fail, deletions, prunings, promotions
\* and saves made during a restore included (postSnapshotSync, PromoteAgentSnapshot,
\* restoreLatestSave).
THEOREM DevicesAlwaysAgree ==
  ASSUME {"overlap", "two_restores", "offline", "delete_latest"} \intersect Env = {}
  PROVE  Spec => []DevicesAgree
<1>0. Reachable
  BY DEF Reachable
<1>1. AgreeInv => DevicesAgree
  <2> SUFFICES ASSUME AgreeInv, Quiet, NEW s \in Newest(store), s.at \notin told,
                      NEW a \in Agents \ {s.agent}, local[a] \in Stored \union {None}
               PROVE  local[a] = s.saves
    BY DEF DevicesAgree
  <2>1. Whole = store
    BY DEF Quiet, AgreeInv, SyncInv, TypeOK, Whole, Snapshot
  <2>2. ~ToBeAsked(a, s) /\ got[a] = {}
    BY DEF Quiet, ToBeAsked
  <2> QED BY <2>1, <2>2 DEF AgreeInv, LatestIsFollowed, FollowsOrLeads
<1>2. AgreeInv /\ [Next]_vars => AgreeInv'
  BY <1>0, NextAgree
<1> QED BY <1>1, <1>2, InitAgree, PTL DEF Spec
=============================================================================
