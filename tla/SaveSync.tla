------------------------------ MODULE SaveSync ------------------------------
(***************************************************************************)
(* The server's side of save synchronisation for one game: the snapshots   *)
(* of each device, the upload that adds one, pruning, conflict detection,  *)
(* the restores it asks the other devices for, and the promotion of a      *)
(* device's snapshot when the user settles a conflict.                     *)
(* internal/api/saves.go; the devices as SaveWatcher has them, in short.   *)
(*                                                                         *)
(* Saves are a number: a version that some device has made by playing on   *)
(* from what it had, None, Torn, the directory of an upload that is being  *)
(* written, or Half, what a promotion that failed has copied.              *)
(***************************************************************************)
EXTENDS Naturals, FiniteSets

CONSTANTS
  Agents,      \* the devices that have the game
  Keep,        \* snapshots that pruning leaves to a device (10 in the code)
  MaxVersion,  \* bound on the versions made
  MaxStamp,    \* bound on the snapshot directories made
  Env,         \* what the environment may do, a subset of EnvKinds
  NoAgent, NoConflict

EnvKinds ==
  { "overlap",         \* a request is served while an upload is being served
    "upload_fail",     \* an archive breaks off
    "promote_fail",    \* a promotion's copy breaks off, or the game is not found after it
    "offline",         \* a device is offline, or a RESTORE_SAVE is lost
    "two_restores",    \* a device handles a RESTORE_SAVE while it restores
    "quiet_play",      \* a device saves in the suppression window of a restore
    "delete",          \* the user deletes snapshots that are not the latest
    "delete_latest" }  \* the user deletes any snapshot

ASSUME EnvAssumption == Env \subseteq EnvKinds
ASSUME BoundsAssumption ==
  Keep \in Nat \ {0} /\ MaxVersion \in Nat /\ MaxStamp \in Nat
ASSUME NamesAssumption == NoAgent \notin Agents /\ NoConflict \notin Agents \X Agents

None     == 0
Torn     == MaxVersion + 1
Half     == MaxVersion + 2
Version  == 1..MaxVersion
Saves    == 0..Half
Stamp    == 1..MaxStamp
Snapshot == [agent: Agents, at: Stamp, saves: Saves]

VARIABLES
  store,       \* the snapshot directories; Torn while an upload writes one
  clock,       \* the last timestamp given to a directory
  up,          \* where each device's upload is
  sent,        \* the saves it has archived
  prev,        \* the device that had the latest snapshot when the upload looked
  looked,      \* history: the timestamp of that snapshot, 0 if there was none
  dir,         \* the timestamp of the directory it writes
  syncs,       \* postSnapshotSync goroutines to run
  conflict,    \* the conflict an open page shows: uploader and holder of the latest
  told,        \* history: the timestamps of snapshots for which the server published a
               \* conflict or answered the user's promotion with an error
  asked,       \* devices with a RESTORE_SAVE to handle
  got,         \* the saves each device has downloaded and not yet written
  quiet,       \* devices that suppress uploads, during a restore and after it
  local,       \* the saves on each device
  dirty,       \* devices that will upload: an event or a timer is pending
  made,        \* versions made so far
  kept         \* history: the last snapshot of each device that was answered 200

uploadVars == <<up, sent, prev, looked, dir>>
deviceVars == <<got, quiet, local, dirty, made>>
vars == <<store, clock, uploadVars, syncs, conflict, told, asked, deviceVars, kept>>

Init ==
  /\ store = {} /\ clock = 0
  /\ up = [a \in Agents |-> "none"]
  /\ sent = [a \in Agents |-> None]
  /\ prev = [a \in Agents |-> NoAgent]
  /\ looked = [a \in Agents |-> 0]
  /\ dir = [a \in Agents |-> 0]
  /\ syncs = {} /\ conflict = NoConflict /\ told = {} /\ asked = {}
  /\ got = [a \in Agents |-> {}] /\ quiet = {}
  /\ local = [a \in Agents |-> None]
  /\ dirty = {} /\ made = 0
  /\ kept = {}

\* findLatestSnapshotDir; no two directories have the same timestamp here.
Newest(snaps) == { s \in snaps : \A r \in snaps : r.at <= s.at }

\* A request that comes while no upload is being served.
Serving(a) == up[a] \in {"looked", "writing"}
Served == "overlap" \in Env \/ \A a \in Agents : ~Serving(a)

-----------------------------------------------------------------------------
(* A device, in short: SaveWatcher has its events, timers and uploads.     *)

\* What is saved in the suppression window starts no upload.
Play(a) ==
  /\ made < MaxVersion
  /\ "quiet_play" \in Env \/ a \notin quiet
  /\ made' = made + 1
  /\ local' = [local EXCEPT ![a] = made']
  /\ dirty' = IF a \in quiet THEN dirty ELSE dirty \union {a}
  /\ UNCHANGED <<store, clock, uploadVars, syncs, conflict, told, asked, got, quiet, kept>>

StartUpload(a) ==
  /\ a \in dirty /\ up[a] = "none"
  /\ dirty' = dirty \ {a}
  /\ up' = [up EXCEPT ![a] = "posted"]
  /\ sent' = [sent EXCEPT ![a] = local[a]]
  /\ UNCHANGED <<store, clock, prev, looked, dir, syncs, conflict, told, asked, got, quiet, local,
                 made, kept>>

\* RESTORE_SAVE: ServeLatestSave answers, uploads are suppressed.
Fetch(a) ==
  /\ a \in asked /\ Served
  /\ "two_restores" \in Env \/ got[a] = {}
  /\ asked' = asked \ {a}
  /\ \/ store = {} /\ UNCHANGED <<got, quiet, dirty>>
     \/ \E s \in Newest(store) :
          /\ got' = [got EXCEPT ![a] = @ \union {s.saves}]
          /\ quiet' = quiet \union {a}
          /\ dirty' = dirty \ {a}
  /\ UNCHANGED <<store, clock, uploadVars, syncs, conflict, told, local, made, kept>>

\* Every file of the downloaded snapshot is copied over what the device has.
WriteSaves(a) ==
  /\ \E v \in got[a] :
       /\ got' = [got EXCEPT ![a] = @ \ {v}]
       /\ local' = [local EXCEPT ![a] = v]
  /\ UNCHANGED <<store, clock, uploadVars, syncs, conflict, told, asked, quiet, dirty, made, kept>>

\* A restore that takes longer than the window is in SaveWatcher.
WindowEnds(a) ==
  /\ a \in quiet /\ got[a] = {}
  /\ quiet' = quiet \ {a}
  /\ UNCHANGED <<store, clock, uploadVars, syncs, conflict, told, asked, got, local, dirty, made,
                 kept>>

-----------------------------------------------------------------------------
(* UploadSaveSnapshot.                                                     *)

Remember(a, agent, at) ==
  /\ prev' = [prev EXCEPT ![a] = agent]
  /\ looked' = [looked EXCEPT ![a] = at]

\* findLatestSnapshotDir that reads the directory of the uploader only.
LookUpLatest_Own(a) ==
  LET own == { s \in store : s.agent = a } IN
  /\ up[a] = "posted" /\ Served
  /\ up' = [up EXCEPT ![a] = "looked"]
  /\ \/ own = {} /\ Remember(a, NoAgent, 0)
     \/ \E s \in Newest(own) : Remember(a, s.agent, s.at)
  /\ UNCHANGED <<store, clock, sent, dir, syncs, conflict, told, asked, deviceVars, kept>>

\* The latest snapshot is looked up before the new one is written.
LookUpLatest(a) ==
  /\ up[a] = "posted" /\ Served
  /\ up' = [up EXCEPT ![a] = "looked"]
  /\ \/ store = {} /\ Remember(a, NoAgent, 0)
     \/ \E s \in Newest(store) : Remember(a, s.agent, s.at)
  /\ UNCHANGED <<store, clock, sent, dir, syncs, conflict, told, asked, deviceVars, kept>>

MakeDir(a) ==
  /\ up[a] = "looked"
  /\ clock < MaxStamp
  /\ clock' = clock + 1
  /\ dir' = [dir EXCEPT ![a] = clock']
  /\ store' = store \union {[agent |-> a, at |-> clock', saves |-> Torn]}
  /\ up' = [up EXCEPT ![a] = "writing"]
  /\ UNCHANGED <<sent, prev, looked, syncs, conflict, told, asked, deviceVars, kept>>

\* Sorted the other way round.
Pruned_Newest(a, snaps) ==
  { s \in snaps : s.agent = a => Cardinality({ r \in snaps : r.agent = a /\ r.at < s.at }) < Keep }

\* pruneOldSnapshots: the newest Keep directories of a device stay.
Pruned(a, snaps) ==
  { s \in snaps : s.agent = a => Cardinality({ r \in snaps : r.agent = a /\ r.at > s.at }) < Keep }

Written(a) == { s \in store : ~(s.agent = a /\ s.at = dir[a]) }

\* The handler returns, and what it knew is gone.
HandlerEnds(a) ==
  /\ up' = [up EXCEPT ![a] = "none"]
  /\ sent' = [sent EXCEPT ![a] = None]
  /\ Remember(a, NoAgent, 0)
  /\ dir' = [dir EXCEPT ![a] = 0]

UploadDone(a) ==
  LET snap == [agent |-> a, at |-> dir[a], saves |-> sent[a]]
      job  == [agent |-> a, at |-> dir[a], prev |-> prev[a], looked |-> looked[a]]
  IN
  /\ up[a] = "writing" /\ HandlerEnds(a)
  /\ store' = Pruned(a, Written(a) \union {snap})
  /\ kept' = { s \in kept : s.agent # a } \union {snap}
  /\ syncs' = syncs \union {job}
  /\ UNCHANGED <<clock, conflict, told, asked, deviceVars>>

\* Without RemoveAll.
UploadFails_KeepsDir(a) ==
  /\ "upload_fail" \in Env
  /\ up[a] = "writing" /\ HandlerEnds(a)
  /\ UNCHANGED <<store, clock, syncs, conflict, told, asked, deviceVars, kept>>

\* The archive breaks off: the directory is removed.
UploadFails(a) ==
  /\ "upload_fail" \in Env
  /\ up[a] = "writing" /\ HandlerEnds(a)
  /\ store' = Written(a)
  /\ UNCHANGED <<clock, syncs, conflict, told, asked, deviceVars, kept>>

-----------------------------------------------------------------------------
(* postSnapshotSync, and the user.                                         *)

\* RESTORE_SAVE reaches the devices that are online.
Ask(devices) ==
  \E reached \in IF "offline" \in Env THEN SUBSET devices ELSE {devices} :
    asked' = asked \union reached

Disputed(j) == j.prev \notin {NoAgent, j.agent}

\* A conflict is published once, to the pages that are open and not slow, and kept
\* nowhere: a page shows it, or nobody sees it.
PostSnapshotSync(j) ==
  /\ j \in syncs
  /\ syncs' = syncs \ {j}
  /\ \/ /\ Disputed(j)
        /\ told' = told \union {j.at}
        /\ conflict' \in {conflict, <<j.agent, j.prev>>}
        /\ UNCHANGED asked
     \/ ~Disputed(j) /\ Ask(Agents \ {j.agent}) /\ UNCHANGED <<conflict, told>>
  /\ UNCHANGED <<store, clock, uploadVars, deviceVars, kept>>

\* The user closes the page or the dialog, and decides nothing.
Dismiss ==
  /\ conflict # NoConflict
  /\ conflict' = NoConflict
  /\ UNCHANGED <<store, clock, uploadVars, syncs, told, asked, deviceVars, kept>>

\* PromoteAgentSnapshot, for one of the two devices in the conflict.
Promotable(a) ==
  /\ conflict # NoConflict /\ a \in {conflict[1], conflict[2]}
  /\ Served /\ clock < MaxStamp

LatestOf(a) == Newest({ s \in store : s.agent = a })

PutCopy(a, saves) ==
  /\ clock' = clock + 1
  /\ store' = store \union {[agent |-> a, at |-> clock + 1, saves |-> saves]}

\* A promotion that only makes the copy.
Promote_NotSent(a) ==
  /\ Promotable(a)
  /\ \E s \in LatestOf(a) : PutCopy(a, s.saves)
  /\ conflict' = NoConflict
  /\ UNCHANGED <<told, asked, uploadVars, syncs, deviceVars, kept>>

\* The device's newest snapshot gets a new timestamp, nothing is pruned, and all devices
\* are asked to restore.
Promote(a) ==
  /\ Promotable(a)
  /\ \E s \in LatestOf(a) : PutCopy(a, s.saves)
  /\ conflict' = NoConflict
  /\ Ask(Agents)
  /\ UNCHANGED <<told, uploadVars, syncs, deviceVars, kept>>

\* The copy fails and what it has copied stays, the latest snapshot from now on; or the
\* game is not found after the copy.  The browser gets an error and keeps the dialog.
PromoteFails(a) ==
  /\ "promote_fail" \in Env /\ Promotable(a)
  /\ \E s \in LatestOf(a) : \E saves \in {Half, s.saves} : PutCopy(a, saves)
  /\ told' = told \union {clock + 1}
  /\ UNCHANGED <<conflict, asked, uploadVars, syncs, deviceVars, kept>>

\* A deletion of a snapshot that is still being written is left out.
DeleteSnapshot(s) ==
  /\ s \in store /\ s.saves # Torn /\ Served
  /\ "delete_latest" \in Env \/ ("delete" \in Env /\ s \notin Newest(store))
  /\ store' = store \ {s}
  /\ kept' = kept \ {s}
  /\ UNCHANGED <<clock, uploadVars, syncs, conflict, told, asked, deviceVars>>

-----------------------------------------------------------------------------
Device(a) ==
  Play(a) \/ StartUpload(a) \/ Fetch(a) \/ WriteSaves(a) \/ WindowEnds(a)
Upload(a) == LookUpLatest(a) \/ MakeDir(a) \/ UploadDone(a) \/ UploadFails(a)

Next ==
  \/ \E a \in Agents : Device(a) \/ Upload(a) \/ Promote(a) \/ PromoteFails(a)
  \/ Dismiss
  \/ \E j \in syncs : PostSnapshotSync(j)
  \/ \E s \in store : DeleteSnapshot(s)

Spec == Init /\ [][Next]_vars
-----------------------------------------------------------------------------
(* Properties                                                              *)

\* Every variable ranges over the states the code's types allow, and the directory of an
\* upload is half-written only while the upload is being served.  (What a promotion that
\* failed has copied is Half, and stays.)
TypeOK ==
  /\ store \subseteq Snapshot /\ clock \in 0..MaxStamp
  /\ up \in [Agents -> {"none", "posted", "looked", "writing"}]
  /\ sent \in [Agents -> Saves] /\ looked \in [Agents -> 0..MaxStamp]
  /\ prev \in [Agents -> Agents \union {NoAgent}]
  /\ dir \in [Agents -> 0..MaxStamp]
  /\ syncs \subseteq [agent: Agents, at: Stamp, prev: Agents \union {NoAgent}, looked: 0..MaxStamp]
  /\ conflict \in (Agents \X Agents) \union {NoConflict}
  /\ told \subseteq Stamp /\ asked \subseteq Agents
  /\ got \in [Agents -> SUBSET Saves] /\ quiet \subseteq Agents /\ local \in [Agents -> Saves]
  /\ dirty \subseteq Agents /\ made \in 0..MaxVersion
  /\ kept \subseteq Snapshot
  /\ \A s \in store : s.saves = Torn => up[s.agent] = "writing" /\ dir[s.agent] = s.at

\* "Retains the last 10 snapshots per device": pruning, failed uploads and
\* promotions never take the last snapshot a device was told is stored.
LastSnapshotKept == kept \subseteq store

\* "If the previous latest was from a DIFFERENT agent, a conflict is emitted": saves
\* that will be pushed to the other devices without a conflict come right after
\* saves of the same device.
ConflictsAreTold ==
  \A j \in syncs : \A s \in store :
    (~Disputed(j) /\ s.saves # Torn /\ j.looked <= s.at /\ s.at < j.at) => s.agent = j.agent

\* "The agent uses this to restore the latest save": no device is left with half an
\* upload, that of one that failed included.  It may be left with Half: a promotion that
\* fails leaves what it has copied as the latest snapshot, and the code serves that.
RestoresWhole == \A a \in Agents : local[a] # Torn

Quiet ==
  /\ dirty = {} /\ syncs = {} /\ asked = {}
  /\ \A a \in Agents : up[a] = "none" /\ got[a] = {}

Stored == { s.saves : s \in store }

\* When nothing is left to do, a device that has no saves, or saves the server has, has
\* those of the latest snapshot, but for the device that uploaded it; unless the server
\* has published a conflict about that snapshot, whether or not anybody saw it, or has
\* answered the promotion that made it with an error.
DevicesAgree ==
  Quiet => \A s \in Newest(store) : \A a \in Agents \ {s.agent} :
             (s.at \notin told /\ local[a] \in Stored \union {None}) => local[a] = s.saves
-----------------------------------------------------------------------------
(* The inductive invariant of SaveSyncProofs, in named parts; it holds     *)
(* while requests are not served during an upload.                         *)

OneAtATime == \A a, b \in Agents : Serving(a) /\ Serving(b) => a = b

\* No two directories have a timestamp in common, and none has one of the future.
StampsDiffer == \A s, r \in store : s.at = r.at => s = r
StampsPast ==
  /\ \A s \in store : s.at <= clock
  /\ \A j \in syncs : j.looked < j.at /\ j.at <= clock

\* Nothing is newer than what the upload found, but for the directory it writes.
LookedIsLatest ==
  \A a \in Agents : Serving(a) =>
    /\ looked[a] <= clock
    /\ \A s \in store :
         \/ s.at < looked[a]
         \/ s.at = looked[a] /\ s.agent = prev[a]
         \/ up[a] = "writing" /\ s.at = dir[a] /\ s.agent = a

WritingIsNewest ==
  \A a \in Agents : up[a] = "writing" =>
    /\ dir[a] = clock /\ dir[a] \in Stamp /\ looked[a] < clock
    /\ [agent |-> a, at |-> dir[a], saves |-> Torn] \in store
    /\ \A j \in syncs : j.at < clock

\* The snapshots between the one an upload found and its own are of that one's device.
JobsFollow ==
  \A j \in syncs : \A s \in store :
    (j.looked <= s.at /\ s.at < j.at) => s.agent = j.prev

\* Nothing outside the store is torn.
SavesWhole ==
  /\ RestoresWhole
  /\ \A a \in Agents : sent[a] # Torn /\ Torn \notin got[a]
  /\ \A s \in kept : s.saves # Torn

SyncInv ==
  /\ TypeOK /\ OneAtATime /\ StampsDiffer /\ StampsPast /\ LookedIsLatest
  /\ WritingIsNewest /\ JobsFollow /\ SavesWhole /\ LastSnapshotKept

(* What DevicesAgree needs besides; it holds while every device is online  *)
(* and restores one snapshot at a time, and the latest is not deleted.     *)

\* A device that restores starts no upload.
RestoresAreQuiet ==
  \A a \in Agents : (got[a] # {} => a \in quiet) /\ (a \in quiet => a \notin dirty)

\* Whatever is stored, held or sent has been made.
VersionsAreMade ==
  /\ \A s \in store : s.saves \in 0..made \union {Torn, Half}
  /\ \A a \in Agents :
       sent[a] \in 0..made /\ {local[a]} \union got[a] \subseteq 0..made \union {Half}

\* Saves that a device has, restores or uploads.
Held(a) == {local[a]} \union got[a] \union IF up[a] = "none" THEN {} ELSE {sent[a]}

\* Version v is nowhere but on device a.
Unshared(v, a) == v \notin Stored \union {None, Half} /\ \A b \in Agents \ {a} : v \notin Held(b)

\* A version is uploaded once, and by the device that made it.
UploadsAreOwn ==
  \A a \in Agents :
    /\ up[a] # "none" => Unshared(sent[a], a)
    /\ a \in dirty => Unshared(local[a], a) /\ (up[a] # "none" => local[a] # sent[a])

\* Device a will be asked to restore, or the job of the snapshot s of another is still to
\* say whether it is disputed.
ToBeAsked(a, s) ==
  a \in asked \/ \E j \in syncs : j.at = s.at /\ j.agent = s.agent

\* Device a has saves v, is about to have them, or has some the server has not.
FollowsOrLeads(a, v) ==
  \/ got[a] = {v}
  \/ got[a] = {} /\ (local[a] = v \/ local[a] \notin Stored \union {None})

Whole == { s \in store : s.saves # Torn }

LatestIsFollowed ==
  \A s \in Newest(Whole) : s.at \notin told =>
    \A a \in Agents \ {s.agent} : ToBeAsked(a, s) \/ FollowsOrLeads(a, s.saves)

AgreeInv ==
  SyncInv /\ RestoresAreQuiet /\ VersionsAreMade /\ UploadsAreOwn /\ LatestIsFollowed
=============================================================================
