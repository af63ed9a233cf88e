------------------------- MODULE SaveWatcherProofs -------------------------
(***************************************************************************)
(* What the save watcher keeps for any number of restores, any delays with *)
(* 0 < Backoff <= Debounce < Suppress, and any environment in which a      *)
(* download does not outlast the window it opens.                          *)
(***************************************************************************)
EXTENDS SaveWatcher, TLAPS

-----------------------------------------------------------------------------
(* Types.                                                                  *)

TypeInv == TypeOK /\ env \in Envs

LEMMA TypeInvInit == Init => TypeInv
BY TimeAssumption DEF Init, TypeInv, TypeOK, NoTimer, NoUpload, Entries, Causes, Version, Empty

\* What scheduleUploadLocked leaves in the timer.
LEMMA ScheduleProperties ==
  ASSUME NEW c \in Causes, NEW delay \in 0..Debounce, Schedule(c, delay)
  PROVE  /\ timer' \in 0..NoTimer /\ cause' \in Causes /\ fired' = fired
         /\ Suppressed => timer' = NoTimer
         /\ ~Suppressed => timer' # NoTimer /\ cause' = c
BY TimeAssumption DEF Schedule, StopTimer, NoTimer, Causes, Uploading

LEMMA TypeInvStep == TypeInv /\ [Next]_vars => TypeInv'
<1> SUFFICES ASSUME TypeInv, [Next]_vars PROVE TypeInv' OBVIOUS
<1> USE DEF TypeInv
<1>0. /\ Debounce \in Nat /\ Backoff \in Nat /\ Suppress \in Nat /\ MaxVersion \in Nat
      /\ 0 < Backoff /\ Backoff <= Debounce /\ Debounce < Suppress
  BY TimeAssumption
<1>n. NoUpload \in [at: {"none", "build", "post"}, cause: Causes, game: Entries, version: Version]
  BY <1>0 DEF NoUpload, Causes, Entries, Version, Empty
<1>1. CASE SaveGame \/ OtherDeviceUploads
  <2>1. made' \in Version
    BY <1>0, <1>1 DEF SaveGame, OtherDeviceUploads, TypeOK, Version
  <2> QED BY <1>1, <2>1 DEF SaveGame, OtherDeviceUploads, TypeOK, Causes, entryVars, timerVars,
             restoreVars, diskVars, serverVars
<1>2. CASE GameExits
  BY <1>2 DEF GameExits, TypeOK, Causes, entryVars, timerVars, restoreVars, diskVars, serverVars
<1>3. ASSUME NEW e \in events, HandleEvent(e) PROVE TypeInv'
  <2>1. e \in Causes /\ 0 \in 0..Debounce /\ Debounce \in 0..Debounce
    BY <1>0 DEF TypeOK
  <2>2. timer' \in 0..NoTimer /\ cause' \in Causes /\ fired' = fired
    BY <1>3, <2>1, ScheduleProperties DEF HandleEvent, TypeOK, timerVars
  <2> QED BY <1>3, <2>2 DEF HandleEvent, TypeOK, entryVars, restoreVars, diskVars, serverVars
<1>4. CASE TimerFires
  BY <1>0, <1>4 DEF TimerFires, StopTimer, NoTimer, TypeOK, Causes, entryVars, restoreVars,
     diskVars, serverVars
<1>5. ASSUME NEW c \in fired, Callback(c) PROVE TypeInv'
  <2>1. up' \in [at: {"none", "build", "post"}, cause: Causes, game: Entries, version: Version]
    <3>1. c \in Causes /\ game \in Entries
      BY <1>5 DEF TypeOK
    <3> QED BY <1>n, <1>5, <3>1 DEF Callback, TypeOK
  <2> QED BY <1>5, <2>1 DEF Callback, TypeOK, entryVars, restoreVars, diskVars, serverVars
<1>6. CASE Archive
  <2>1. up' \in [at: {"none", "build", "post"}, cause: Causes, game: Entries, version: Version]
    BY <1>n, <1>6 DEF Archive, TypeOK
  <2> QED BY <1>6, <2>1 DEF Archive, TypeOK, entryVars, timerVars, restoreVars, diskVars, serverVars
<1>7. CASE PostSnapshot
  BY <1>n, <1>7 DEF PostSnapshot, TypeOK, entryVars, timerVars, restoreVars, diskVars,
             serverVars
<1>8. ASSUME NEW p \in Restores, Restore(p) PROVE TypeInv'
  <2>1. CASE StartRestore(p) \/ PreRestore(p)
    BY <2>1 DEF StartRestore, PreRestore, TypeOK, entryVars, timerVars, restoreVars, diskVars,
       serverVars
  <2>2. CASE FetchSnapshot(p)
    BY <1>0, <2>2 DEF FetchSnapshot, StopTimer, NoTimer, Causes, TypeOK, entryVars, timerVars,
       diskVars, serverVars
  <2>3. CASE WriteFiles(p)
    <3>1. 0 \in Version /\ fetched[p] \in Version
      BY <1>0, <2>3 DEF TypeOK, Version
    <3> QED BY <2>3, <3>1 DEF WriteFiles, TypeOK, Causes, Empty, entryVars, timerVars, serverVars
  <2> QED BY <1>8, <2>1, <2>2, <2>3 DEF Restore
<1>9. CASE UpdateGames \/ UpdateGamesFails \/ Uninstalled
  BY <1>9 DEF UpdateGames, UpdateGamesFails, Uninstalled, TypeOK, Entries, timerVars, restoreVars,
     diskVars, serverVars
<1>10. CASE TriggerUpload
  <2>1. timer' \in 0..NoTimer /\ cause' \in Causes /\ fired' = fired
    BY <1>0, <1>10, ScheduleProperties DEF TriggerUpload, Causes
  <2> QED BY <1>10, <2>1 DEF TriggerUpload, TypeOK, Entries, restoreVars, diskVars, serverVars
<1>11. CASE Tick
  <2>1. timer' \in 0..NoTimer /\ since' \in 0..Suppress
    BY <1>0, <1>11 DEF Tick, TypeOK, NoTimer, Suppressed
  <2> QED BY <1>11, <2>1 DEF Tick, TypeOK, entryVars, restoreVars, diskVars, serverVars
<1>12. CASE UNCHANGED vars
  BY <1>12 DEF vars, TypeOK, entryVars, timerVars, restoreVars, diskVars, serverVars
<1> QED BY <1>1, <1>2, <1>3, <1>4, <1>5, <1>6, <1>7, <1>8, <1>9, <1>10, <1>11, <1>12 DEF Next

\* Every state the watcher reaches is well-typed; in particular a timer never runs for
\* longer than the debounce, and versions are bounded by the ones that were made.
THEOREM TypeCorrect == Spec => []TypeOK
<1>1. TypeInv => TypeOK
  BY DEF TypeInv
<1> QED BY <1>1, TypeInvInit, TypeInvStep, PTL DEF Spec

-----------------------------------------------------------------------------
(* The window after a restore.  The download opens it, and whatever the    *)
(* restored files set off happens inside it.                               *)

LEMMA SuppressInvInit == Init => SuppressInv
<1> SUFFICES ASSUME Init PROVE SuppressInv OBVIOUS
<1>1. TypeOK /\ env \in Envs
  BY TypeInvInit DEF TypeInv
<1>2. WritesAreFresh /\ SuppressedIsQuiet /\ ForeignIsForgotten
  BY DEF Init, WritesAreFresh, SuppressedIsQuiet, ForeignIsForgotten
<1> QED BY <1>1, <1>2 DEF SuppressInv

WindowInv == WritesAreFresh /\ SuppressedIsQuiet /\ ForeignIsForgotten

\* A step that leaves the clock, the timer and the contents alone, and starts no write.
LEMMA WindowQuiet ==
  ASSUME SuppressInv, UNCHANGED <<since, timer, cause, local, own>>,
         \A p \in Restores : restore'[p] = "write" => restore[p] = "write",
         \A c \in events' \union fired' : c \in {"local", "restored"} => c \in events \union fired
  PROVE  WindowInv'
<1>1. WritesAreFresh' /\ SuppressedIsQuiet'
  BY DEF SuppressInv, WritesAreFresh, SuppressedIsQuiet, Suppressed
<1>2. ForeignIsForgotten'
  BY DEF SuppressInv, ForeignIsForgotten, Suppressed
<1> QED BY <1>1, <1>2 DEF WindowInv

LEMMA SuppressInvStep ==
  ASSUME \A e \in Envs : "slow_restore" \notin e
  PROVE  SuppressInv /\ [Next]_vars => SuppressInv'
<1> SUFFICES ASSUME SuppressInv, [Next]_vars PROVE SuppressInv' OBVIOUS
<1>0. /\ Debounce \in Nat /\ Backoff \in Nat /\ Suppress \in Nat /\ MaxVersion \in Nat
      /\ 0 < Backoff /\ Backoff <= Debounce /\ Debounce < Suppress
  BY TimeAssumption
<1>a. TypeOK /\ env \in Envs /\ WritesAreFresh /\ SuppressedIsQuiet /\ ForeignIsForgotten
  BY DEF SuppressInv
<1>b. TypeOK' /\ env' \in Envs
  BY TypeInvStep DEF SuppressInv, TypeInv
<1> SUFFICES WindowInv'
  BY <1>b DEF SuppressInv, WindowInv
<1>1. CASE SaveGame
  <2>1. local' \in own'
    BY <1>1 DEF SaveGame
  <2> QED BY <1>1, <1>a, <2>1 DEF SaveGame, WindowInv, WritesAreFresh, SuppressedIsQuiet,
             ForeignIsForgotten, Suppressed, timerVars, restoreVars
<1>2. CASE OtherDeviceUploads \/ GameExits
  BY <1>2, WindowQuiet DEF OtherDeviceUploads, GameExits, timerVars, restoreVars, diskVars
<1>3. ASSUME NEW e \in events, HandleEvent(e) PROVE WindowInv'
  <2>1. e \in Causes /\ 0 \in 0..Debounce /\ Debounce \in 0..Debounce
    BY <1>0, <1>a DEF TypeOK
  <2>2. /\ fired' = fired /\ events' = events \ {e}
        /\ UNCHANGED <<since, restore, local, own>>
        /\ \/ UNCHANGED <<timer, cause>>
           \/ /\ Suppressed => timer' = NoTimer
              /\ ~Suppressed => timer' # NoTimer /\ cause' = e
    BY <1>3, <2>1, ScheduleProperties DEF HandleEvent, timerVars, restoreVars, diskVars
  <2>3. ForeignIsForgotten'
    BY <1>a, <2>2 DEF ForeignIsForgotten, Suppressed
  <2> QED BY <1>a, <2>2, <2>3 DEF WindowInv, WritesAreFresh, SuppressedIsQuiet, Suppressed
<1>4. CASE TimerFires
  <2>1. timer # NoTimer /\ timer' = NoTimer
    BY <1>0, <1>4 DEF TimerFires, StopTimer, NoTimer
  <2> QED BY <1>4, <1>a, <2>1 DEF TimerFires, WindowInv, WritesAreFresh, SuppressedIsQuiet,
             ForeignIsForgotten, Suppressed, restoreVars, diskVars
<1>5. ASSUME NEW c \in fired, Callback(c) PROVE WindowInv'
  BY <1>5, WindowQuiet DEF Callback, restoreVars, diskVars
<1>6. CASE Archive \/ PostSnapshot
  BY <1>6, WindowQuiet DEF Archive, PostSnapshot, timerVars, restoreVars, diskVars
<1>7. ASSUME NEW p \in Restores, Restore(p) PROVE WindowInv'
  <2>0. restore \in [Restores -> {"idle", "check", "fetch", "write"}]
    BY <1>a DEF TypeOK
  <2>1. CASE StartRestore(p) \/ PreRestore(p)
    <3>1. \A q \in Restores : restore'[q] = "write" => restore[q] = "write"
      BY <2>0, <2>1 DEF StartRestore, PreRestore
    <3> QED BY <2>1, <3>1, WindowQuiet DEF StartRestore, PreRestore, timerVars, diskVars
  <2>2. CASE FetchSnapshot(p) /\ restore' = [restore EXCEPT ![p] = "write"]
    <3>1. since' = 0 /\ timer' = NoTimer
      BY <2>0, <2>2 DEF FetchSnapshot, StopTimer
    <3> QED BY <1>0, <3>1 DEF WindowInv, WritesAreFresh, SuppressedIsQuiet, ForeignIsForgotten,
               Suppressed
  <2>3. CASE FetchSnapshot(p) /\ restore' = [restore EXCEPT ![p] = "idle"]
    <3>1. UNCHANGED <<since, timer, cause, fired, events, local, own>>
      BY <2>0, <2>3 DEF FetchSnapshot, diskVars
    <3>2. \A q \in Restores : restore'[q] = "write" => restore[q] = "write"
      BY <2>0, <2>3
    <3> QED BY <3>1, <3>2, WindowQuiet
  \* Files are written while no time has passed since their window was opened.
  <2>4. CASE WriteFiles(p)
    <3>1. since = 0 /\ UNCHANGED <<since, timer>>
      BY <1>a, <2>4 DEF WriteFiles, WritesAreFresh, timerVars
    <3> QED BY <1>0, <1>a, <3>1 DEF WindowInv, WritesAreFresh, SuppressedIsQuiet,
               ForeignIsForgotten, Suppressed
  <2> QED BY <1>7, <2>1, <2>2, <2>3, <2>4 DEF Restore, FetchSnapshot
<1>8. CASE UpdateGames \/ UpdateGamesFails \/ Uninstalled
  <2>0. restore \in [Restores -> {"idle", "check", "fetch", "write"}]
    BY <1>a DEF TypeOK
  <2>1. /\ UNCHANGED <<since, timer, cause, fired, events, local, own>>
        /\ \A q \in Restores : restore'[q] = "write" => restore[q] = "write"
    BY <1>8, <2>0 DEF UpdateGames, UpdateGamesFails, Uninstalled, timerVars, restoreVars, diskVars
  <2> QED BY <2>1, WindowQuiet
<1>9. CASE TriggerUpload
  <2>1. /\ fired' = fired
        /\ Suppressed => timer' = NoTimer
        /\ ~Suppressed => timer' # NoTimer /\ cause' = "manual"
    BY <1>0, <1>9, ScheduleProperties DEF TriggerUpload, Causes
  <2>2. UNCHANGED <<since, events, restore, local, own>>
    BY <1>9 DEF TriggerUpload, restoreVars, diskVars
  <2> QED BY <1>a, <2>1, <2>2 DEF WindowInv, WritesAreFresh, SuppressedIsQuiet,
             ForeignIsForgotten, Suppressed
\* The window ends with nothing left to handle.
<1>10. CASE Tick
  <2>1. /\ \A p \in Restores : restore[p] # "write"
        /\ events = {} /\ fired = {} /\ UNCHANGED <<events, fired, cause, restore, local, own>>
        /\ timer = NoTimer => timer' = NoTimer
        /\ Suppressed' => Suppressed
    BY <1>0, <1>10, <1>a DEF Tick, Suppressed, TypeOK, restoreVars, diskVars
  <2> QED BY <1>a, <2>1 DEF WindowInv, WritesAreFresh, SuppressedIsQuiet, ForeignIsForgotten
<1>11. CASE UNCHANGED vars
  BY <1>11, WindowQuiet DEF vars, timerVars, restoreVars, diskVars
<1> QED BY <1>1, <1>2, <1>3, <1>4, <1>5, <1>6, <1>7, <1>8, <1>9, <1>10, <1>11 DEF Next

\* Files that a restore has written are never what an automatic upload sends back: the
\* upload that a change in the save directories starts finds saves made on this device
\* (save_sync.go: SuppressUploads, scheduleUploadLocked and the timer's callback).
THEOREM UploadsAreNeverSpurious ==
  ASSUME \A e \in Envs : "slow_restore" \notin e
  PROVE  Spec => NoSpuriousUpload
<1>1. SuppressInv /\ [Next]_vars =>
        [(~Uploading /\ Uploading' /\ up'.cause \in {"local", "restored"}) => local \in own]_vars
  <2> SUFFICES ASSUME SuppressInv, Next, ~Uploading, Uploading',
                      up'.cause \in {"local", "restored"}
               PROVE  local \in own
    OBVIOUS
  <2>1. PICK c \in fired : Callback(c)
    BY DEF Next, SaveGame, GameExits, OtherDeviceUploads, HandleEvent, TimerFires, Archive,
       PostSnapshot, Restore, StartRestore, PreRestore, FetchSnapshot, WriteFiles, UpdateGames,
       UpdateGamesFails, Uninstalled, TriggerUpload, Tick, Uploading, NoUpload
  <2>2. ~Suppressed /\ up' = [NoUpload EXCEPT !.at = "build", !.cause = c, !.game = game]
    BY <2>1 DEF Callback, Uploading
  <2>3. c \in {"local", "restored"}
    BY <2>2 DEF NoUpload
  <2> QED BY <2>2, <2>3 DEF SuppressInv, ForeignIsForgotten
<1> QED BY <1>1, SuppressInvInit, SuppressInvStep, PTL DEF Spec, NoSpuriousUpload
=============================================================================
