------------------------- MODULE DeviceGamesProofs -------------------------
(***************************************************************************)
(* What an agent keeps of the games of its device, for any games, launch   *)
(* arguments and number of goroutines.  TypeOK holds of every environment; *)
(* the rest where goroutines run one after the other.                      *)
(***************************************************************************)
EXTENDS DeviceGames, TLAPS

Names == Titles \union {RawTitle(g) : g \in Titles} \union {Foreign}
Shortcut ==
  [exe : {"mine", "other", "game"}, icon : BOOLEAN, extra : BOOLEAN, twin : BOOLEAN]
Script == [prefix : {"absent", "none", "title", "id"}, args : Args \union {None}]

\* The files of shortcuts and the lists of games that there may be.
Shortcuts == UNION {[S -> Shortcut] : S \in SUBSET Names}
Reports   == UNION {[S -> BOOLEAN] : S \in SUBSET Titles}

Addition == [name : Names \union {None}, entry : Shortcut]

GameOps   == {"install", "delete", "exe", "args", "rename"}
DeviceOps == {"regen", "refresh", "watch", "scan"}
Ops == GameOps \union DeviceOps \union {"art"}

\* Artwork is asked for by the name of an entry.
Jobs ==
  [op : GameOps, game : Titles] \union [op : DeviceOps, game : {None}]
    \union [op : {"art"}, game : Names]

Phases == {"idle", "files", "remove", "unlist", "parse", "write", "move", "repath", "icon",
           "iconed", "add", "added", "fix", "scan", "readd"}

Goroutine ==
  [at : Phases \union {"truncate", "fill"}, op : Ops \union {"none"},
   game : Names \union {None}, todo : SUBSET Titles, script : Script, vdf : Shortcuts,
   add : Addition, next : Phases, seen : SUBSET Names,
   list : Shortcuts \union Reports]

\* Where a goroutine is, or where it goes on once it has written shortcuts.vdf.
Writing(r) == r.at \in {"truncate", "fill"}
Phase(r) == IF Writing(r) THEN r.next ELSE r.at

\* A goroutine does what its command asks for, and holds what its phase needs.
Sound(r) ==
  /\ r.op \in GameOps => r.game \in Titles
  /\ r.op = "art" => r.game \in Names
  /\ Writing(r) => r.add.name \in Names /\ r.next \in {"added", "iconed", "fix", "scan", "readd"}
  /\ Phase(r) = "idle" <=> r.op = "none"
  /\ Phase(r) = "files" => r.op = "install"
  /\ Phase(r) \in {"remove", "unlist", "readd"} => r.op = "delete"
  /\ Phase(r) \in {"parse", "write"} => r.op \in {"exe", "args", "regen"}
  /\ Phase(r) = "write" => r.game \in Titles
  /\ Phase(r) \in {"move", "repath"} => r.op = "rename"
  /\ Phase(r) \in {"icon", "iconed"} => r.op = "art"
  /\ Phase(r) \in {"add", "added"} => r.op \in {"install", "exe"}
  /\ Phase(r) = "fix" => r.op \in {"refresh", "watch"}
  /\ Phase(r) = "scan" => r.op \in {"scan", "regen", "refresh", "watch", "delete"} /\ r.list \in Reports
  /\ Phase(r) = "readd" => r.list \in Shortcuts

TypeInv ==
  /\ TypeOK
  /\ vdf \in Shortcuts /\ reported \in Reports
  /\ pending \subseteq Jobs
  /\ proc \in [Procs -> Goroutine] /\ \A p \in Procs : Sound(proc[p])

-----------------------------------------------------------------------------
(* One goroutine at a time.                                                *)

Commands == {"install", "delete", "exe", "args", "regen", "rename", "refresh"}

OneRuns ==
  /\ \A p, q \in Procs : proc[p].at # "idle" /\ proc[q].at # "idle" => p = q
  /\ \A p \in Procs : proc[p].at = "idle" => proc[p] = Idle

\* A command is given when nothing else is to be done.
CommandsAlone ==
  \A j \in pending : j.op \in Commands => pending = {j} /\ \A p \in Procs : proc[p].at = "idle"

\* The names that shortcuts.vdf has when goroutine r has written what it holds.
ToCome(r) ==
  (IF Writing(r) THEN DOMAIN r.vdf \union {r.add.name} ELSE DOMAIN vdf)
    \union (IF Phase(r) = "readd" THEN DOMAIN r.list ELSE {})

HasScript(g) == script[g] # NoScript

\* A rewriting writes back the script that is there.
ScriptHeld(r) ==
  /\ \A g \in Titles : HasScript(g) => g \in games
  /\ r.at = "write" =>
       r.script = Parsed(r.game) /\ (r.op # "exe" => Parsed(r.game) # NoScript)

\* Arguments that a script does not have are on their way to it.
ArgsArrive(r) ==
  env \intersect {"windows", "no_runner"} = {} => \A g \in Titles :
    \/ script[g].args \in {None, wanted[g]}
    \/ Job("args", g) \in pending
    \/ (r.op = "args" /\ r.game = g)

\* A prefix that a script does not find is being renamed.
PrefixArrives(r) ==
  \A g \in Titles : script[g].prefix = "id" => (<<g, "id">> \in prefixes \/ (r.at = "repath" /\ r.game = g))

\* What is known of a foreign entry is in every copy of it.
Intact(e) == e.exe = Others.exe /\ e.icon = Others.icon /\ (watch => e.twin)
InFile(f) == Foreign \in DOMAIN f => Intact(f[Foreign])

KeepsForeign(r) == "fold" \notin env =>
  /\ Foreign \in ToCome(r) /\ InFile(vdf)
  /\ Writing(r) /\ r.add.name = Foreign => Intact(r.add.entry)
  /\ Writing(r) /\ r.add.name # Foreign => InFile(r.vdf)
  /\ Phase(r) = "readd" => ~watch /\ InFile(r.list)

Kept(r) == ScriptHeld(r) /\ ArgsArrive(r) /\ PrefixArrives(r) /\ KeepsForeign(r)

\* Nothing on the device or on its way there is of a game deleted with its shortcut, and
\* the agent forgets the script of such a game before it looks at its shortcuts again.
NoGhost(r) ==
  /\ DOMAIN vdf \intersect dropped = {} /\ ToCome(r) \intersect dropped = {}
  /\ \A g \in dropped : ~HasScript(g)
  /\ \A j \in pending : j.op \in {"install", "exe"} => j.game \notin dropped
  /\ r.op \in {"install", "exe"} => r.game \notin dropped
  /\ r.at = "unlist" => ~HasScript(r.game)
  /\ known \intersect dropped # {} => r.op = "delete" /\ Phase(r) \in {"readd", "scan"}
  /\ Phase(r) = "fix" => r.todo \intersect dropped = {}

\* What a scan has seen is still so, but for the shortcuts it adds itself.
Scanned(r) ==
  Phase(r) = "scan" =>
    /\ DOMAIN r.list \union r.todo = games
    /\ \A g \in DOMAIN r.list : /\ r.list[g] = (HasScript(g) \/ Alike(g) \intersect r.seen # {})
                                /\ HasScript(g) => g \in ToCome(r)
    /\ r.seen \subseteq ToCome(r)
    /\ \A n \in ToCome(r) \ r.seen : n \in Titles /\ HasScript(n)

\* A goroutine that ends with a scan, by itself or by another it starts.
ScanAhead(r) ==
  \/ r.op \in {"install", "exe", "regen", "refresh", "watch", "scan"}
  \/ (r.op = "delete" /\ r.at # "remove")

\* Unless a scan is to come, every script has its shortcut ...
Listed(r) ==
  \/ Scan \in pending \/ r.op \in {"install", "exe", "regen", "refresh", "watch"} \/ Phase(r) = "scan"
  \/ \A g \in Titles : HasScript(g) => g \in ToCome(r)

\* ... and the server shows what is there.
Shown(r) ==
  \/ Scan \in pending \/ ScanAhead(r)
  \/ reported = [g \in games |-> HasScript(g) \/ Alike(g) \intersect ToCome(r) # {}]

Told(r) == Scanned(r) /\ Listed(r) /\ Shown(r)

Lone(p) == \A q \in Procs : q # p => proc[q].at = "idle"

Good(r) ==
  /\ Kept(r)
  /\ "offline" \notin env => NoGhost(r)
  /\ "offline" \notin env /\ "no_runner" \notin env => Told(r)

DeviceInv ==
  TypeInv /\ (Serial => OneRuns /\ CommandsAlone /\ \A p \in Procs : Lone(p) => Good(proc[p]))

-----------------------------------------------------------------------------
(* The files and lists.                                                    *)

LEMMA ShortcutsForm ==
  ASSUME NEW f \in Shortcuts
  PROVE  /\ DOMAIN f \subseteq Names /\ \A n \in DOMAIN f : f[n] \in Shortcut
         /\ f \in [DOMAIN f -> Shortcut]
  BY DEF Shortcuts

LEMMA ReportsForm ==
  ASSUME NEW f \in Reports
  PROVE  /\ DOMAIN f \subseteq Titles /\ \A n \in DOMAIN f : f[n] \in BOOLEAN
         /\ f \in [DOMAIN f -> BOOLEAN]
  BY DEF Reports

LEMMA EmptyForm == <<>> \in Shortcuts /\ <<>> \in Reports /\ DOMAIN <<>> = {}
<1>1. DOMAIN <<>> = {} /\ <<>> \in [{} -> Shortcut] /\ <<>> \in [{} -> BOOLEAN]
  OBVIOUS
<1> QED  BY <1>1 DEF Shortcuts, Reports

LEMMA PutForm ==
  ASSUME NEW f, NEW k, NEW e
  PROVE  /\ DOMAIN Put(f, k, e) = DOMAIN f \union {k}
         /\ Put(f, k, e)[k] = e
         /\ \A n \in DOMAIN f : n # k => Put(f, k, e)[n] = f[n]
  BY DEF Put

LEMMA PutShortcut ==
  ASSUME NEW f \in Shortcuts, NEW k \in Names, NEW e \in Shortcut
  PROVE  Put(f, k, e) \in Shortcuts
<1>1. DOMAIN f \union {k} \in SUBSET Names /\ Put(f, k, e) \in [DOMAIN f \union {k} -> Shortcut]
  BY ShortcutsForm DEF Put
<1> QED  BY <1>1 DEF Shortcuts

LEMMA PutReport ==
  ASSUME NEW f \in Reports, NEW k \in Titles, NEW e \in BOOLEAN
  PROVE  Put(f, k, e) \in Reports
<1>1. DOMAIN f \union {k} \in SUBSET Titles /\ Put(f, k, e) \in [DOMAIN f \union {k} -> BOOLEAN]
  BY ReportsForm DEF Put
<1> QED  BY <1>1 DEF Reports

LEMMA RestrictShortcuts ==
  ASSUME NEW f \in Shortcuts, NEW K
  PROVE  /\ Restrict(f, DOMAIN f \ K) \in Shortcuts
         /\ DOMAIN Restrict(f, DOMAIN f \ K) = DOMAIN f \ K
         /\ \A n \in DOMAIN f \ K : Restrict(f, DOMAIN f \ K)[n] = f[n]
<1>1. DOMAIN f \ K \in SUBSET Names /\ Restrict(f, DOMAIN f \ K) \in [DOMAIN f \ K -> Shortcut]
  BY ShortcutsForm DEF Restrict
<1> QED  BY <1>1 DEF Shortcuts, Restrict

\* The names of entries.
LEMMA NamesForm ==
  /\ Foreign \in Names /\ Foreign \notin Titles /\ None \notin Names
  /\ \A g \in Titles : /\ g \in Names /\ Title(g) \in Names \ {Foreign} /\ g \in Alike(g)
                       /\ Alike(g) \intersect Titles = {g} /\ Alike(g) \subseteq {g, Foreign}
                       /\ Title(g) = g \/ Title(g) \notin Titles
  /\ "fold" \notin env => \A n : Alike(n) = {n}
  /\ Mine \in Shortcut /\ Direct \in Shortcut /\ Others \in Shortcut
<1>1. \A g \in Titles : RawTitle(g) \in Names /\ RawTitle(g) \notin Titles \union {Foreign, None}
  BY DeviceAssumption DEF Names
<1>2. /\ Foreign \in Names /\ Foreign \notin Titles /\ None \notin Titles \union {Foreign}
      /\ Titles \subseteq Names
  BY DeviceAssumption DEF Names
<1>3. None \notin Names
  BY <1>1, <1>2 DEF Names
<1>4. \A g \in Titles : Title(g) \in Names \ {Foreign} /\ (Title(g) = g \/ Title(g) \notin Titles)
  BY <1>1, <1>2 DEF Title
<1>5. \A g \in Titles : g \in Alike(g) /\ Alike(g) \intersect Titles = {g} /\ Alike(g) \subseteq {g, Foreign}
  BY <1>2 DEF Alike
<1>6. "fold" \notin env => \A n : Alike(n) = {n}
  BY DEF Alike
<1>7. Mine \in Shortcut /\ Direct \in Shortcut /\ Others \in Shortcut
  BY DEF Mine, Direct, Others, Shortcut
<1> QED  BY <1>2, <1>3, <1>4, <1>5, <1>6, <1>7

LEMMA IdleForm ==
  /\ Idle \in Goroutine /\ Sound(Idle) /\ Idle.at = "idle" /\ Idle.op = "none" /\ Idle.game = None
  /\ Idle.todo = {} /\ Idle.script = NoScript /\ Idle.vdf = <<>> /\ Idle.add = NoAdd
  /\ Idle.next = "idle" /\ Idle.seen = {} /\ Idle.list = <<>>
<1>1. NoScript \in Script /\ NoAdd \in Addition
  BY DEF Addition, NoScript, NoAdd, Script, Shortcut, Mine
<1>2. Idle \in Goroutine
  BY <1>1, EmptyForm DEF Idle, Goroutine, Phases, Ops
<1> QED  BY <1>2, EmptyForm DEF Idle, Sound, Phase, Writing, GameOps, Ops

LEMMA JobForm ==
  /\ \A op \in GameOps, g \in Titles : Job(op, g) \in Jobs
  /\ \A op \in DeviceOps : Job(op, None) \in Jobs
  /\ \A op, g : Job(op, g).op = op /\ Job(op, g).game = g
  /\ Scan \in Jobs /\ Scan.op = "scan"
  /\ \A S \in SUBSET Names : Artwork(S) \subseteq Jobs /\ \A j \in Artwork(S) : j.op = "art"
<1>1. \A op \in GameOps, g \in Titles : Job(op, g) \in Jobs
  BY DEF Job, Jobs
<1>2. \A op \in DeviceOps : Job(op, None) \in Jobs
  BY DEF Job, Jobs
<1>3. \A op, g : Job(op, g).op = op /\ Job(op, g).game = g
  BY DEF Job
<1>4. Scan \in Jobs /\ Scan.op = "scan"
  BY <1>2, <1>3 DEF Scan, DeviceOps
<1>5. ASSUME NEW S \in SUBSET Names, NEW j \in Artwork(S)
      PROVE  j \in Jobs /\ j.op = "art"
  <2>1. PICK n \in S : j = Job("art", n)
    BY <1>5 DEF Artwork
  <2> QED  BY <2>1, <1>3 DEF Job, Jobs
<1> QED  BY <1>1, <1>2, <1>3, <1>4, <1>5

\* Two goroutines that are the same but for where they are.
SameBut(r, s) ==
  /\ s.op = r.op /\ s.game = r.game /\ s.todo = r.todo /\ s.script = r.script
  /\ s.vdf = r.vdf /\ s.add = r.add /\ s.next = r.next /\ s.seen = r.seen /\ s.list = r.list

LEMMA GotoForm ==
  ASSUME NEW r \in Goroutine, NEW at \in Phases \union {"truncate", "fill"}
  PROVE  LET s == [r EXCEPT !.at = at] IN s \in Goroutine /\ s.at = at /\ SameBut(r, s)
  BY DEF Goroutine, SameBut

LEMMA ScanningForm ==
  ASSUME NEW r \in Goroutine, games \subseteq Titles, vdf \in Shortcuts
  PROVE  LET s == Scanning(r) IN
         /\ s \in Goroutine /\ s.at = "scan" /\ s.op = r.op /\ s.game = r.game /\ s.todo = games
         /\ s.script = r.script /\ s.vdf = r.vdf /\ s.add = r.add /\ s.next = r.next
         /\ s.seen = DOMAIN vdf /\ s.list = <<>>
<1>1. DOMAIN vdf \subseteq Names /\ <<>> \in Shortcuts \union Reports
  BY ShortcutsForm, EmptyForm
<1> QED  BY ZenonT(60), <1>1 DEF Scanning, Goroutine, Phases

LEMMA AddingForm ==
  ASSUME NEW r \in Goroutine, NEW n \in Names, NEW e \in Shortcut, NEW nx \in Phases,
         vdf \in Shortcuts
  PROVE  LET s == Adding(r, n, e, nx) IN
         /\ s \in Goroutine /\ s.at = "truncate" /\ s.op = r.op /\ s.game = r.game
         /\ s.todo = r.todo /\ s.script = r.script /\ s.vdf = vdf /\ s.add.name = n
         /\ s.add.entry = e /\ s.next = nx /\ s.seen = r.seen /\ s.list = r.list
<1> DEFINE a == [name |-> n, entry |-> e]
           s == [r EXCEPT !.at = "truncate", !.add = a, !.vdf = vdf, !.next = nx]
<1>1. a \in Addition /\ a.name = n /\ a.entry = e
  BY DEF Addition
<1>2. s = Adding(r, n, e, nx)
  BY DEF Adding
<1> HIDE DEF a
<1>3. s \in Goroutine
  BY <1>1 DEF Goroutine
<1>4. /\ s.at = "truncate" /\ s.op = r.op /\ s.game = r.game /\ s.todo = r.todo
      /\ s.script = r.script /\ s.vdf = vdf /\ s.add = a /\ s.next = nx /\ s.seen = r.seen
      /\ s.list = r.list
  BY <1>1 DEF Goroutine
<1> HIDE DEF s
<1> QED  BY <1>1, <1>2, <1>3, <1>4

\* A goroutine that goes on leaves the others as they are.
LEMMA Moves ==
  ASSUME proc \in [Procs -> Goroutine], \A q \in Procs : Sound(proc[q]),
         NEW p \in Procs, NEW s \in Goroutine, Sound(s), proc' = [proc EXCEPT ![p] = s]
  PROVE  /\ proc' \in [Procs -> Goroutine] /\ \A q \in Procs : Sound(proc'[q])
         /\ proc'[p] = s /\ \A q \in Procs \ {p} : proc'[q] = proc[q]
  OBVIOUS

\* A goroutine that leaves the files, the server's list and what is to do.
LEMMA TypeKept ==
  ASSUME TypeInv, UNCHANGED <<env, fileVars, steamVars, clientVars, historyVars>>,
         pending' \subseteq Jobs,
         proc' \in [Procs -> Goroutine], \A q \in Procs : Sound(proc'[q])
  PROVE  TypeInv'
<1>1. \A q \in Procs : proc'[q].todo \subseteq Titles
  BY DEF Goroutine
<1> QED  BY <1>1 DEF TypeInv, TypeOK, fileVars, steamVars, clientVars, historyVars, Sound, Phase, Writing

\* ... or changes shortcuts.vdf.
LEMMA FilesKeepType ==
  ASSUME TypeInv, UNCHANGED <<env, fileVars, clientVars, wanted>>,
         vdf' \in Shortcuts, watch' \in BOOLEAN, dirty' \in BOOLEAN, dropped' \subseteq Titles,
         pending' \subseteq Jobs,
         proc' \in [Procs -> Goroutine], \A q \in Procs : Sound(proc'[q])
  PROVE  TypeInv'
<1>1. \A q \in Procs : proc'[q].todo \subseteq Titles
  BY DEF Goroutine
<1>2. DOMAIN vdf' \subseteq Names /\ \A n \in DOMAIN vdf' : vdf'[n] \in Shortcut
  BY ShortcutsForm
<1> QED  BY <1>1, <1>2
    DEF TypeInv, TypeOK, fileVars, clientVars, Sound, Phase, Writing, Names, Shortcut

\* ... or the files of games.
LEMMA ScriptsKeepType ==
  ASSUME TypeInv, UNCHANGED <<env, steamVars, clientVars, historyVars>>,
         games' \subseteq Titles, script' \in [Titles -> Script],
         prefixes' \subseteq Titles \X {"title", "id"}, pending' \subseteq Jobs,
         proc' \in [Procs -> Goroutine], \A q \in Procs : Sound(proc'[q])
  PROVE  TypeInv'
<1>1. \A q \in Procs : proc'[q].todo \subseteq Titles
  BY DEF Goroutine
<1> QED  BY <1>1
    DEF TypeInv, TypeOK, steamVars, clientVars, historyVars, Script, Sound, Phase, Writing

LEMMA GotoMoves ==
  ASSUME TypeInv, NEW p \in Procs, NEW at \in Phases \union {"truncate", "fill"}, Goto(p, at),
         Sound([proc[p] EXCEPT !.at = at])
  PROVE  /\ proc' \in [Procs -> Goroutine] /\ \A q \in Procs : Sound(proc'[q])
         /\ proc'[p].at = at /\ SameBut(proc[p], proc'[p])
         /\ \A q \in Procs \ {p} : proc'[q] = proc[q]
<1> DEFINE s == [proc[p] EXCEPT !.at = at]
<1>1. s \in Goroutine /\ s.at = at /\ SameBut(proc[p], s)
  BY GotoForm DEF TypeInv
<1>2. proc' = [proc EXCEPT ![p] = s]
  BY DEF Goto, TypeInv
<1> HIDE DEF s
<1> QED  BY <1>1, <1>2, Moves DEF TypeInv, s

LEMMA EndMoves ==
  ASSUME TypeInv, NEW p \in Procs, End(p)
  PROVE  /\ proc' \in [Procs -> Goroutine] /\ \A q \in Procs : Sound(proc'[q])
         /\ proc'[p] = Idle /\ \A q \in Procs \ {p} : proc'[q] = proc[q]
  BY IdleForm, Moves DEF TypeInv, End

LEMMA ScanningMoves ==
  ASSUME TypeInv, NEW p \in Procs, proc' = [proc EXCEPT ![p] = Scanning(proc[p])],
         proc[p].op \in {"scan", "regen", "refresh", "watch", "delete"}
  PROVE  /\ proc' \in [Procs -> Goroutine] /\ \A q \in Procs : Sound(proc'[q])
         /\ proc'[p] = Scanning(proc[p]) /\ \A q \in Procs \ {p} : proc'[q] = proc[q]
<1> DEFINE r == proc[p]
           s == Scanning(r)
<1>1. r \in Goroutine /\ Sound(r) /\ games \subseteq Titles /\ vdf \in Shortcuts
  BY DEF TypeInv, TypeOK
<1>2. s \in Goroutine /\ s.at = "scan" /\ s.op = r.op /\ s.game = r.game /\ s.list = <<>>
  BY <1>1, ScanningForm
<1> HIDE DEF s
<1>3. Sound(s)
  BY <1>1, <1>2, EmptyForm DEF Sound, Phase, Writing
<1> QED  BY <1>2, <1>3, Moves DEF TypeInv, s

LEMMA AddingMoves ==
  ASSUME TypeInv, NEW p \in Procs, NEW r \in Goroutine, NEW n \in Names, NEW e \in Shortcut,
         NEW nx \in {"added", "iconed", "fix", "scan", "readd"},
         proc' = [proc EXCEPT ![p] = Adding(r, n, e, nx)],
         r.op \in GameOps => r.game \in Titles, r.op = "art" => r.game \in Names,
         nx = "added" => r.op \in {"install", "exe"},
         nx = "iconed" => r.op = "art",
         nx = "fix" => r.op \in {"refresh", "watch"},
         nx = "scan" => /\ r.op \in {"scan", "regen", "refresh", "watch", "delete"}
                        /\ r.list \in Reports,
         nx = "readd" => r.op = "delete" /\ r.list \in Shortcuts
  PROVE  /\ proc' \in [Procs -> Goroutine] /\ \A q \in Procs : Sound(proc'[q])
         /\ proc'[p] = Adding(r, n, e, nx) /\ \A q \in Procs \ {p} : proc'[q] = proc[q]
<1> DEFINE s == Adding(r, n, e, nx)
<1>1. vdf \in Shortcuts /\ nx \in Phases
  BY DEF TypeInv, Phases
<1>2. /\ s \in Goroutine /\ s.at = "truncate" /\ s.op = r.op /\ s.game = r.game /\ s.list = r.list
      /\ s.add.name = n /\ s.next = nx
  BY <1>1, AddingForm
<1> HIDE DEF s
<1>3. Sound(s)
  BY <1>1, <1>2 DEF Sound, Phase, Writing
<1> QED  BY <1>2, <1>3, Moves DEF TypeInv, s

\* refreshShortcut ends with the shortcut of g there or on its way.
LEMMA RefreshForm ==
  ASSUME NEW r \in Goroutine, NEW g \in Titles, NEW nx \in {"fix", "scan"}, vdf \in Shortcuts
  PROVE  LET s == RefreshShortcut(r, g, nx) IN
         /\ s \in Goroutine /\ s.op = r.op /\ s.game = r.game /\ s.todo = r.todo
         /\ s.script = r.script /\ s.seen = r.seen /\ s.list = r.list
         /\ Phase(s) = nx /\ s.at \in {nx, "truncate"} /\ ToCome(s) = DOMAIN vdf \union {g}
         /\ s.at = "truncate" => s.add.name = g /\ s.next = nx /\ s.vdf = vdf
<1> DEFINE s == RefreshShortcut(r, g, nx)
           t == [r EXCEPT !.at = nx]
           u == Adding(r, g, Mine, nx)
<1>1. nx \in Phases /\ g \in Names /\ Mine \in Shortcut
  BY DEF Phases, Names, Mine, Shortcut
<1>2. t \in Goroutine /\ t.at = nx /\ SameBut(r, t)
  BY <1>1, GotoForm
<1>3. /\ u \in Goroutine /\ u.at = "truncate" /\ u.op = r.op /\ u.game = r.game /\ u.todo = r.todo
      /\ u.script = r.script /\ u.vdf = vdf /\ u.add.name = g /\ u.next = nx /\ u.seen = r.seen
      /\ u.list = r.list
  BY <1>1, AddingForm
<1>4. s = (IF Matches(g) THEN t ELSE u)
  BY DEF RefreshShortcut
<1> HIDE DEF s, t, u
<1> QED
  <2>1. CASE Matches(g)
    BY <2>1, <1>2, <1>4 DEF SameBut, Phase, Writing, ToCome, Matches, s
  <2>2. CASE ~Matches(g)
    BY <2>2, <1>3, <1>4 DEF Phase, Writing, ToCome, s
  <2> QED  BY <2>1, <2>2

-----------------------------------------------------------------------------
(* Every step keeps TypeInv, and what it makes of its goroutine.           *)

LEMMA AddShortcutForm ==
  ASSUME TypeInv, NEW p \in Procs, AddShortcut(p)
  PROVE  /\ TypeInv' /\ proc[p].game \in Titles /\ proc[p].op \in {"install", "exe"}
         /\ LET r == proc[p]
                s == proc'[p] IN
            /\ s.at = "truncate" /\ s.op = r.op /\ s.game = r.game /\ s.next = "added"
            /\ s.vdf = vdf /\ s.add.name = Title(r.game)
<1> DEFINE r == proc[p]
           n == Title(r.game)
           e == IF "no_runner" \in env THEN Direct ELSE Mine
           s == Adding(r, n, e, "added")
<1>1. r \in Goroutine /\ Sound(r) /\ r.at = "add" /\ vdf \in Shortcuts
  BY DEF TypeInv, AddShortcut
<1>2. r.op \in {"install", "exe"} /\ r.game \in Titles /\ "added" \in Phases
  BY <1>1 DEF Sound, Phase, Writing, GameOps, Phases
<1>2a. n \in Names /\ e \in Shortcut
  BY <1>2, NamesForm
<1>4. proc' = [proc EXCEPT ![p] = s]
  BY DEF AddShortcut
<1> HIDE DEF n, e
<1>3. /\ s \in Goroutine /\ s.at = "truncate" /\ s.op = r.op /\ s.game = r.game /\ s.next = "added"
      /\ s.add.name = n /\ s.vdf = vdf
  BY <1>1, <1>2, <1>2a, AddingForm
<1> HIDE DEF s
<1>5. Sound(s)
  BY <1>2, <1>2a, <1>3 DEF Sound, Phase, Writing, GameOps
<1>6. proc' \in [Procs -> Goroutine] /\ (\A q \in Procs : Sound(proc'[q])) /\ proc'[p] = s
  BY <1>3, <1>4, <1>5, Moves DEF TypeInv
<1>7. TypeInv'
  BY <1>6, TypeKept DEF AddShortcut, TypeInv
<1> QED  BY <1>2, <1>3, <1>6, <1>7 DEF n

LEMMA IconDoneForm ==
  ASSUME TypeInv, NEW p \in Procs, IconDone(p)
  PROVE  TypeInv' /\ proc'[p] = Idle
  BY EndMoves, TypeKept DEF IconDone, TypeInv

LEMMA AddedForm ==
  ASSUME TypeInv, NEW p \in Procs, Added(p)
  PROVE  TypeInv' /\ proc'[p] = Idle /\ proc[p].op \in {"install", "exe"}
<1> DEFINE r == proc[p]
<1>1. r \in Goroutine /\ Sound(r) /\ r.at = "added"
  BY DEF TypeInv, Added
<1>2. r.op \in {"install", "exe"} /\ r.game \in Titles
  BY <1>1 DEF Sound, Phase, Writing, GameOps
<1>3. {Scan} \union (IF r.op = "install" THEN Artwork({Title(r.game)}) ELSE {}) \subseteq Jobs
  BY <1>2, JobForm, NamesForm
<1>4. pending' \subseteq Jobs
  BY <1>3 DEF Added, Spawn, TypeInv
<1> QED  BY <1>2, <1>4, EndMoves, TypeKept DEF Added

LEMMA SetIconForm ==
  ASSUME TypeInv, NEW p \in Procs, SetIcon(p)
  PROVE  /\ TypeInv' /\ proc[p].op = "art"
         /\ \/ proc'[p] = Idle
            \/ LET r == proc[p]
                   s == proc'[p] IN
               /\ s.at = "truncate" /\ s.op = r.op /\ s.game = r.game /\ s.next = "iconed"
               /\ s.vdf = vdf /\ s.add.name \in Alike(r.game) \intersect DOMAIN vdf
               /\ s.add.entry.exe = vdf[s.add.name].exe /\ s.add.entry.icon = TRUE
               /\ s.add.entry.twin = vdf[s.add.name].twin
<1> DEFINE r == proc[p]
           bare == {n \in Alike(r.game) \intersect DOMAIN vdf : ~vdf[n].icon}
<1>1. r \in Goroutine /\ Sound(r) /\ r.at = "icon" /\ vdf \in Shortcuts /\ "iconed" \in Phases
  BY DEF TypeInv, SetIcon, Phases
<1>2. r.op = "art" /\ r.game \in Names
  BY <1>1 DEF Sound, Phase, Writing
<1>3. ASSUME NEW n \in bare,
             proc' = [proc EXCEPT ![p] = Adding(r, n, [vdf[n] EXCEPT !.icon = TRUE], "iconed")]
      PROVE  /\ TypeInv'
             /\ LET s == proc'[p] IN
                /\ s.at = "truncate" /\ s.op = r.op /\ s.game = r.game /\ s.next = "iconed"
                /\ s.vdf = vdf /\ s.add.name = n
                /\ s.add.entry.exe = vdf[n].exe /\ s.add.entry.icon = TRUE
                /\ s.add.entry.twin = vdf[n].twin
  <2> DEFINE e == [vdf[n] EXCEPT !.icon = TRUE]
             s == Adding(r, n, e, "iconed")
  <2>1. vdf[n] \in Shortcut /\ n \in Names
    BY <1>1, ShortcutsForm
  <2>2. e \in Shortcut /\ e.exe = vdf[n].exe /\ e.icon = TRUE /\ e.twin = vdf[n].twin
    BY <2>1 DEF Shortcut
  <2> HIDE DEF e
  <2>3. /\ proc' \in [Procs -> Goroutine] /\ \A q \in Procs : Sound(proc'[q])
        /\ proc'[p] = s
    BY <1>1, <1>2, <1>3, <2>1, <2>2, AddingMoves DEF e, GameOps
  <2>4. /\ s.at = "truncate" /\ s.op = r.op /\ s.game = r.game /\ s.next = "iconed"
        /\ s.vdf = vdf /\ s.add.name = n /\ s.add.entry = e
    BY <1>1, <2>1, <2>2, AddingForm
  <2> HIDE DEF s
  <2>5. TypeInv'
    BY <2>3, TypeKept DEF SetIcon, TypeInv
  <2> QED  BY <2>2, <2>3, <2>4, <2>5
<1>4. CASE bare = {} /\ End(p)
  BY <1>2, <1>4, EndMoves, TypeKept DEF SetIcon, TypeInv
<1>5. \/ \E n \in bare :
           proc' = [proc EXCEPT ![p] = Adding(r, n, [vdf[n] EXCEPT !.icon = TRUE], "iconed")]
      \/ bare = {} /\ End(p)
  BY Zenon DEF SetIcon
<1>6. CASE \E n \in bare :
           proc' = [proc EXCEPT ![p] = Adding(r, n, [vdf[n] EXCEPT !.icon = TRUE], "iconed")]
  <2>1. PICK n \in bare :
           proc' = [proc EXCEPT ![p] = Adding(r, n, [vdf[n] EXCEPT !.icon = TRUE], "iconed")]
    BY <1>6
  <2>2. n \in Alike(r.game) \intersect DOMAIN vdf
    OBVIOUS
  <2> QED  BY <1>2, <1>3, <2>1, <2>2
<1> QED  BY <1>4, <1>5, <1>6

LEMMA TruncateForm ==
  ASSUME TypeInv, NEW p \in Procs, TruncateVdf(p)
  PROVE  TypeInv' /\ proc'[p].at = "fill" /\ SameBut(proc[p], proc'[p])
<1> DEFINE s == [proc[p] EXCEPT !.at = "fill"]
<1>1. proc[p] \in Goroutine /\ Sound(proc[p]) /\ proc[p].at = "truncate" /\ Goto(p, "fill")
  BY DEF TypeInv, TruncateVdf
<1>2. s.at = "fill" /\ SameBut(proc[p], s)
  BY <1>1, GotoForm
<1> HIDE DEF s
<1>3. Sound(s)
  BY <1>1, <1>2 DEF Sound, Phase, Writing, SameBut
<1>4. /\ proc' \in [Procs -> Goroutine] /\ \A q \in Procs : Sound(proc'[q])
      /\ proc'[p].at = "fill" /\ SameBut(proc[p], proc'[p])
  BY <1>1, <1>3, GotoMoves DEF s
<1>5. \A q \in Procs : proc'[q].todo \subseteq Titles
  BY <1>4 DEF Goroutine
<1>6. TypeInv'
  BY <1>4, <1>5, EmptyForm
  DEF TypeInv, TypeOK, TruncateVdf, fileVars, clientVars, historyVars, Sound, Phase, Writing
<1> QED  BY <1>4, <1>6

LEMMA FillForm ==
  ASSUME TypeInv, NEW p \in Procs, FillVdf(p)
  PROVE  /\ TypeInv' /\ proc[p].next \in {"added", "iconed", "fix", "scan", "readd"}
         /\ LET r == proc[p]
                s == proc'[p] IN
            /\ s.at = r.next /\ s.op = r.op /\ s.game = r.game /\ s.todo = r.todo
            /\ s.script = r.script /\ s.seen = r.seen /\ s.list = r.list
            /\ DOMAIN vdf' = DOMAIN r.vdf \union {r.add.name}
            /\ \A n \in DOMAIN vdf' :
                 LET e == IF n = r.add.name THEN r.add.entry ELSE r.vdf[n] IN
                 vdf'[n].exe = e.exe /\ vdf'[n].icon = e.icon /\ vdf'[n].twin = e.twin
<1> DEFINE r == proc[p]
           new == Put(r.vdf, r.add.name, r.add.entry)
           s == [r EXCEPT !.at = r.next, !.vdf = <<>>, !.add = NoAdd]
<1>1. r \in Goroutine /\ Sound(r) /\ r.at = "fill" /\ proc' = [proc EXCEPT ![p] = s]
  BY DEF TypeInv, FillVdf
<1>2. r.next \in {"added", "iconed", "fix", "scan", "readd"} /\ r.add.name \in Names
  BY <1>1 DEF Sound, Writing
<1>3. r.vdf \in Shortcuts /\ r.add.entry \in Shortcut
  BY <1>1 DEF Goroutine, Addition
<1>4. NoAdd \in Addition
  BY DEF NoAdd, Addition, Shortcut, Mine
<1>5. s \in Goroutine
  BY <1>1, <1>2, <1>4, EmptyForm DEF Goroutine, Phases
<1>6. /\ s.at = r.next /\ s.op = r.op /\ s.game = r.game /\ s.todo = r.todo /\ s.next = r.next
      /\ s.script = r.script /\ s.seen = r.seen /\ s.list = r.list
  BY <1>1 DEF Goroutine
<1> HIDE DEF s
<1>7. Sound(s)
  BY <1>1, <1>2, <1>6 DEF Sound, Phase, Writing
<1>8. /\ proc' \in [Procs -> Goroutine] /\ \A q \in Procs : Sound(proc'[q]) /\ proc'[p] = s
  BY <1>1, <1>5, <1>7, Moves DEF TypeInv
<1> DEFINE e(n) == [new[n] EXCEPT !.extra = FALSE]
<1>9. vdf' = [n \in DOMAIN new |-> e(n)]
  BY Zenon DEF FillVdf
<1>10. /\ new \in Shortcuts /\ DOMAIN new = DOMAIN r.vdf \union {r.add.name}
       /\ \A n \in DOMAIN new : new[n] = IF n = r.add.name THEN r.add.entry ELSE r.vdf[n]
  <2>1. new \in Shortcuts
    BY <1>2, <1>3, PutShortcut
  <2>2. DOMAIN new = DOMAIN r.vdf \union {r.add.name}
    BY DEF Put
  <2>3. \A n \in DOMAIN new : new[n] = IF n = r.add.name THEN r.add.entry ELSE r.vdf[n]
    BY <2>2 DEF Put
  <2> QED  BY <2>1, <2>2, <2>3
<1> HIDE DEF new
<1>11. \A n \in DOMAIN new : /\ e(n) \in Shortcut /\ e(n).exe = new[n].exe
                             /\ e(n).icon = new[n].icon /\ e(n).twin = new[n].twin
  <2>1. \A n \in DOMAIN new : new[n] \in Shortcut
    BY <1>10, ShortcutsForm
  <2> QED  BY <2>1 DEF Shortcut
<1> HIDE DEF e
<1>12. DOMAIN vdf' = DOMAIN new /\ vdf' \in [DOMAIN new -> Shortcut] /\ DOMAIN new \subseteq Names
  BY <1>9, <1>10, <1>11, ShortcutsForm
<1>13. vdf' \in Shortcuts
  BY <1>12 DEF Shortcuts
<1>14. \A n \in DOMAIN vdf' :
         LET f == IF n = r.add.name THEN r.add.entry ELSE r.vdf[n] IN
         vdf'[n].exe = f.exe /\ vdf'[n].icon = f.icon /\ vdf'[n].twin = f.twin
  BY <1>9, <1>10, <1>11
<1>15. TypeInv'
  BY <1>8, <1>13, FilesKeepType
  DEF TypeInv, TypeOK, FillVdf, fileVars, clientVars, historyVars
<1> QED  BY <1>2, <1>6, <1>8, <1>10, <1>12, <1>14, <1>15

LEMMA JobsForm ==
  ASSUME NEW j \in Jobs
  PROVE  /\ j.op \in Ops /\ j.game \in Names \union {None}
         /\ j.op \in GameOps => j.game \in Titles
         /\ j.op \in DeviceOps => j.game = None
         /\ j.op = "art" => j.game \in Names
         /\ j = Job(j.op, j.game)
  BY DEF Jobs, GameOps, DeviceOps, Ops, Job, Names

LEMMA BeginForm ==
  ASSUME TypeInv, NEW p \in Procs, Begin(p)
  PROVE  /\ TypeInv'
         /\ proc[p].at = "idle" /\ \A q \in Procs \ {p} : proc'[q] = proc[q]
         /\ "overlap" \in env \/ \A q \in Procs : proc[q].at = "idle"
         /\ \E j \in pending :
              /\ pending' = pending \ {j} /\ j = Job(j.op, j.game)
              /\ j.op = "scan" => j = Scan
              /\ j.op \in Ops
              /\ LET s == proc'[p] IN
                 /\ s.at = Entry(j.op) /\ s.op = j.op /\ s.game = j.game /\ s.script = NoScript
                 /\ s.list = <<>>
                 /\ j.op = "scan" => s.todo = games /\ s.seen = DOMAIN vdf
                 /\ j.op = "regen" => s.todo = games
                 /\ j.op \in {"refresh", "watch"} => s.todo = known
<1>1. PICK j \in pending :
        /\ proc[p].at = "idle"
        /\ "overlap" \in env \/ \A q \in Procs : proc[q].at = "idle"
        /\ pending' = pending \ {j}
        /\ LET r == [Idle EXCEPT !.op = j.op, !.game = j.game, !.at = Entry(j.op)] IN
           proc' = [proc EXCEPT ![p] =
             CASE j.op = "scan" -> Scanning(r)
               [] j.op = "regen" -> [r EXCEPT !.todo = games]
               [] j.op \in {"refresh", "watch"} -> [r EXCEPT !.todo = known]
               [] OTHER -> r]
  BY DEF Begin
<1> DEFINE r == [Idle EXCEPT !.op = j.op, !.game = j.game, !.at = Entry(j.op)]
           u == [r EXCEPT !.todo = games]
           v == [r EXCEPT !.todo = known]
           s == CASE j.op = "scan" -> Scanning(r)
                  [] j.op = "regen" -> u
                  [] j.op \in {"refresh", "watch"} -> v
                  [] OTHER -> r
<1>2. /\ j.op \in Ops /\ j.game \in Names \union {None}
      /\ j.op \in GameOps => j.game \in Titles
      /\ j.op = "art" => j.game \in Names
      /\ j = Job(j.op, j.game)
      /\ j.op = "scan" => j = Scan
  BY JobsForm DEF TypeInv, Scan, DeviceOps
<1>3. games \subseteq Titles /\ known \subseteq Titles /\ vdf \in Shortcuts
  BY DEF TypeInv, TypeOK
<1>4. Entry(j.op) \in Phases
  BY <1>2 DEF Entry, Phases, GameOps, DeviceOps, Ops
<1>5. r \in Goroutine
  BY <1>2, <1>4, IdleForm DEF Goroutine
<1>6. /\ r.at = Entry(j.op) /\ r.op = j.op /\ r.game = j.game /\ r.script = NoScript /\ r.list = <<>>
  BY IdleForm DEF Goroutine
<1> HIDE DEF r
<1>7. /\ u \in Goroutine /\ u.at = r.at /\ u.op = r.op /\ u.game = r.game /\ u.script = r.script
      /\ u.list = r.list /\ u.todo = games
  BY <1>3, <1>5 DEF Goroutine
<1>8. /\ v \in Goroutine /\ v.at = r.at /\ v.op = r.op /\ v.game = r.game /\ v.script = r.script
      /\ v.list = r.list /\ v.todo = known
  BY <1>3, <1>5 DEF Goroutine
<1>9. LET w == Scanning(r) IN
      /\ w \in Goroutine /\ w.at = "scan" /\ w.op = r.op /\ w.game = r.game /\ w.todo = games
      /\ w.script = r.script /\ w.seen = DOMAIN vdf /\ w.list = <<>>
  BY <1>3, <1>5, ScanningForm
<1>10. j.op = "scan" => Entry(j.op) = "scan"
  BY DEF Entry
<1> HIDE DEF u, v
<1>11. /\ s \in Goroutine
       /\ s.at = Entry(j.op) /\ s.op = j.op /\ s.game = j.game /\ s.script = NoScript
       /\ s.list = <<>>
       /\ j.op = "scan" => s.todo = games /\ s.seen = DOMAIN vdf
       /\ j.op = "regen" => s.todo = games
       /\ j.op \in {"refresh", "watch"} => s.todo = known
  BY <1>5, <1>6, <1>7, <1>8, <1>9, <1>10
<1>12. proc' = [proc EXCEPT ![p] = s]
  BY <1>1 DEF r, u, v
<1> HIDE DEF s
<1>13. Sound(s)
  BY <1>2, <1>11, EmptyForm DEF Sound, Phase, Writing, Entry, GameOps, DeviceOps, Ops
<1>14. /\ proc' \in [Procs -> Goroutine] /\ \A q \in Procs : Sound(proc'[q])
       /\ proc'[p] = s /\ \A q \in Procs \ {p} : proc'[q] = proc[q]
  BY <1>11, <1>12, <1>13, Moves DEF TypeInv
<1>15. pending' \subseteq Jobs
  BY <1>1 DEF TypeInv
<1>16. TypeInv'
  BY <1>14, <1>15, TypeKept DEF Begin
<1> QED  BY <1>1, <1>2, <1>11, <1>14, <1>16

LEMMA CreateForm ==
  ASSUME TypeInv, NEW g \in Titles, NEW s \in Script, CreateRunScript(g, s)
  PROVE  /\ script' \in [Titles -> Script] /\ games' = games \union {g} /\ games' \subseteq Titles
         /\ \A h \in Titles \ {g} : script'[h] = script[h]
         /\ "no_runner" \in env => script' = script
         /\ "no_runner" \notin env =>
              /\ script'[g].args = s.args
              /\ s # NoScript => script'[g] # NoScript
         /\ env \intersect {"windows", "no_runner"} = {} => script'[g] = s
         /\ script'[g].prefix = "id" => s.prefix = "id" \/ script[g].prefix = "id"
<1>1. script \in [Titles -> Script] /\ games \subseteq Titles
  BY DEF TypeInv, TypeOK, Script
<1> DEFINE b == [s EXCEPT !.prefix = "none"]
<1>2. b \in Script /\ b.args = s.args /\ b.prefix = "none" /\ b # NoScript
  BY DEF Script, NoScript
<1> HIDE DEF b
<1>3. games' = games \union {g} /\ games' \subseteq Titles
  BY <1>1 DEF CreateRunScript
<1>4. CASE "no_runner" \in env
  <2>1. script' = script
    BY <1>4 DEF CreateRunScript
  <2> QED  BY <1>1, <1>3, <1>4, <2>1
<1>5. CASE "no_runner" \notin env /\ "windows" \in env
  <2>1. script' = [script EXCEPT ![g] = b]
    BY <1>5 DEF CreateRunScript, b
  <2> QED  BY <1>1, <1>2, <1>3, <1>5, <2>1
<1>6. CASE "no_runner" \notin env /\ "windows" \notin env
  <2>1. script' = [script EXCEPT ![g] = s]
    BY <1>6 DEF CreateRunScript
  <2> QED  BY <1>1, <1>3, <1>6, <2>1
<1> QED  BY <1>4, <1>5, <1>6

LEMMA InstallFilesForm ==
  ASSUME TypeInv, NEW p \in Procs, InstallFiles(p)
  PROVE  /\ TypeInv' /\ proc[p].game \in Titles /\ proc[p].op = "install"
         /\ \/ /\ proc'[p].at = "add" /\ SameBut(proc[p], proc'[p])
               /\ LET n == [prefix |-> "title", args |-> wanted[proc[p].game]] IN
                  n \in Script /\ n # NoScript /\ n.args # None /\ CreateRunScript(proc[p].game, n)
               /\ UNCHANGED pending
            \/ proc'[p] = Idle /\ UNCHANGED script /\ pending' = pending \union {Scan}
<1> DEFINE r == proc[p]
           g == r.game
           n == [prefix |-> "title", args |-> wanted[g]]
           t == [r EXCEPT !.at = "add"]
<1>1. r \in Goroutine /\ Sound(r) /\ r.at = "files"
  BY DEF TypeInv, InstallFiles
<1>2. r.op = "install" /\ g \in Titles
  BY <1>1 DEF Sound, Phase, Writing, GameOps
<1>3. n \in Script /\ n # NoScript /\ n.args # None
  BY <1>2, DeviceAssumption DEF TypeInv, TypeOK, Script, NoScript
<1>4. Scan \in Jobs
  BY JobForm
<1>5. t.at = "add" /\ SameBut(r, t)
  BY <1>1, GotoForm DEF Phases
<1>6. Sound(t)
  <2> HIDE DEF t
  <2> QED  BY <1>1, <1>2, <1>5 DEF Sound, Phase, Writing, SameBut
<1>7. prefixes' \subseteq Titles \X {"title", "id"}
  BY <1>2 DEF TypeInv, TypeOK, InstallFiles
<1> HIDE DEF n, t
<1>8. CASE CreateRunScript(g, n) /\ Goto(p, "add") /\ UNCHANGED pending
  <2>1. /\ proc' \in [Procs -> Goroutine] /\ \A q \in Procs : Sound(proc'[q])
        /\ proc'[p].at = "add" /\ SameBut(proc[p], proc'[p])
    BY <1>6, <1>8, GotoMoves DEF Phases, t
  <2>2. \A q \in Procs : proc'[q].todo \subseteq Titles
    BY <2>1 DEF Goroutine
  <2>3. script' \in [Titles -> Script] /\ games' \subseteq Titles
    BY <1>2, <1>3, <1>8, CreateForm
  <2>4. TypeInv'
    BY <1>7, <1>8, <2>1, <2>2, <2>3
    DEF TypeInv, TypeOK, InstallFiles, steamVars, clientVars, historyVars, Script, Sound, Phase, Writing
  <2> QED  BY <1>2, <1>3, <1>8, <2>1, <2>4 DEF n
<1>9. CASE games' = games \union {g} /\ UNCHANGED script /\ End(p) /\ Spawn({Scan})
  <2>1. /\ proc' \in [Procs -> Goroutine] /\ \A q \in Procs : Sound(proc'[q])
        /\ proc'[p] = Idle
    BY <1>9, EndMoves
  <2>2. \A q \in Procs : proc'[q].todo \subseteq Titles
    BY <2>1 DEF Goroutine
  <2>3. TypeInv'
    BY SMTT(40), <1>2, <1>4, <1>7, <1>9, <2>1, <2>2
    DEF TypeInv, TypeOK, InstallFiles, steamVars, clientVars, historyVars, Spawn, Sound, Phase, Writing
  <2> QED  BY <1>2, <1>9, <2>1, <2>3 DEF Spawn
<1> QED  BY <1>8, <1>9 DEF InstallFiles, n

LEMMA ParsedForm ==
  ASSUME TypeInv, NEW g \in Titles
  PROVE  /\ Parsed(g) \in Script /\ (Parsed(g).prefix = "id" => script[g].prefix = "id")
         /\ "windows" \notin env => Parsed(g) = script[g]
         /\ Parsed(g) # NoScript => script[g] # NoScript
<1>1. NoScript \in Script /\ NoScript.prefix = "absent" /\ script[g] \in Script
  BY DEF NoScript, Script, TypeInv, TypeOK
<1> QED  BY <1>1 DEF Parsed

LEMMA ParseForm ==
  ASSUME TypeInv, NEW p \in Procs, Parse(p)
  PROVE  /\ TypeInv' /\ proc[p].op \in {"exe", "args", "regen"}
         /\ LET r == proc[p]
                s == proc'[p] IN
            \/ /\ r.op = "regen" /\ s.op = "regen" /\ s.game \in r.todo /\ s.todo = r.todo \ {s.game}
               /\ s.script = Parsed(s.game)
               /\ s.at = IF Parsed(s.game) = NoScript THEN "parse" ELSE "write"
            \/ r.op = "regen" /\ r.todo = {} /\ s = Scanning(r)
            \/ /\ r.op \in {"exe", "args"} /\ s.op = r.op /\ s.game = r.game /\ s.at = "write"
               /\ s.script = Parsed(r.game) /\ (r.op = "exe" \/ Parsed(r.game) # NoScript)
            \/ r.op = "args" /\ Parsed(r.game) = NoScript /\ s = Idle
<1> DEFINE r == proc[p]
<1>1. /\ r \in Goroutine /\ Sound(r) /\ r.at = "parse"
      /\ \A g \in Titles : Parsed(g) \in Script
  BY ParsedForm DEF TypeInv, Parse
<1>2. r.op \in {"exe", "args", "regen"} /\ r.todo \subseteq Titles /\ (r.op # "regen" => r.game \in Titles)
  BY SMTT(40), <1>1 DEF Sound, Phase, Writing, GameOps, Goroutine
<1>3. ASSUME proc' \in [Procs -> Goroutine], \A q \in Procs : Sound(proc'[q])
      PROVE  TypeInv'
  BY Zenon, <1>3, TypeKept DEF Parse, TypeInv
<1>4. CASE r.op = "regen" /\ \E g \in r.todo :
             proc' = [proc EXCEPT ![p].game = g, ![p].todo = @ \ {g}, ![p].script = Parsed(g),
                        ![p].at = IF Parsed(g) = NoScript THEN "parse" ELSE "write"]
  <2>1. PICK g \in r.todo :
             proc' = [proc EXCEPT ![p].game = g, ![p].todo = @ \ {g}, ![p].script = Parsed(g),
                        ![p].at = IF Parsed(g) = NoScript THEN "parse" ELSE "write"]
    BY <1>4
  <2> DEFINE at == IF Parsed(g) = NoScript THEN "parse" ELSE "write"
             s == [r EXCEPT !.game = g, !.todo = r.todo \ {g}, !.script = Parsed(g), !.at = at]
  <2>2. proc' = [proc EXCEPT ![p] = s]
    BY <2>1 DEF TypeInv
  <2>3. g \in Titles /\ g \in Names /\ Parsed(g) \in Script /\ at \in {"parse", "write"}
    BY <1>1, <1>2, NamesForm
  <2> HIDE DEF at
  <2>4. s \in Goroutine
    BY <1>1, <1>2, <2>3 DEF Goroutine, Phases
  <2>5. /\ s.at = at /\ s.op = r.op /\ s.game = g /\ s.todo = r.todo \ {g} /\ s.script = Parsed(g)
        /\ s.list = r.list
    BY <1>1 DEF Goroutine
  <2> HIDE DEF s
  <2>6. Sound(s)
    BY <1>4, <2>3, <2>5 DEF Sound, Phase, Writing, GameOps
  <2>7. proc' \in [Procs -> Goroutine] /\ (\A q \in Procs : Sound(proc'[q])) /\ proc'[p] = s
    BY <2>2, <2>4, <2>6, Moves DEF TypeInv
  <2> QED  BY <1>2, <1>3, <1>4, <2>1, <2>5, <2>7 DEF at
<1>5. CASE r.op = "regen" /\ r.todo = {} /\ proc' = [proc EXCEPT ![p] = Scanning(proc[p])]
  BY <1>2, <1>3, <1>5, ScanningMoves
<1>6. ASSUME r.op \in {"exe", "args"},
             proc' = [proc EXCEPT ![p].script = Parsed(proc[p].game), ![p].at = "write"]
      PROVE  /\ TypeInv' /\ proc'[p].op = r.op /\ proc'[p].game = r.game /\ proc'[p].at = "write"
             /\ proc'[p].script = Parsed(r.game)
  <2> DEFINE s == [r EXCEPT !.script = Parsed(r.game), !.at = "write"]
  <2>1. proc' = [proc EXCEPT ![p] = s]
    BY <1>6 DEF TypeInv
  <2>2. s \in Goroutine
    BY <1>1, <1>2, <1>6 DEF Goroutine, Phases
  <2>3. /\ s.at = "write" /\ s.op = r.op /\ s.game = r.game /\ s.script = Parsed(r.game)
    BY <1>1 DEF Goroutine
  <2> HIDE DEF s
  <2>4. Sound(s)
    BY <1>2, <1>6, <2>3 DEF Sound, Phase, Writing, GameOps
  <2>5. proc' \in [Procs -> Goroutine] /\ (\A q \in Procs : Sound(proc'[q])) /\ proc'[p] = s
    BY <2>1, <2>2, <2>4, Moves DEF TypeInv
  <2> QED  BY <1>3, <2>3, <2>5
<1>7. CASE r.op = "exe" /\ proc' = [proc EXCEPT ![p].script = Parsed(proc[p].game), ![p].at = "write"]
  BY <1>2, <1>6, <1>7
<1>8. CASE r.op = "args" /\ Parsed(r.game) = NoScript /\ End(p)
  BY <1>2, <1>3, <1>8, EndMoves
<1>9. CASE /\ r.op = "args" /\ Parsed(r.game) # NoScript
           /\ proc' = [proc EXCEPT ![p].script = Parsed(proc[p].game), ![p].at = "write"]
  BY <1>2, <1>6, <1>9
<1> QED  BY ZenonT(60), <1>4, <1>5, <1>7, <1>8, <1>9 DEF Parse

LEMMA RewrittenForm ==
  ASSUME TypeInv, NEW op \in {"exe", "args", "regen"}, NEW g \in Titles, NEW s \in Script
  PROVE  /\ Rewritten(op, g, s) \in Script
         /\ Rewritten(op, g, s).args \in {None, wanted[g], s.args}
         /\ op = "args" => Rewritten(op, g, s).args = wanted[g]
         /\ Rewritten(op, g, s).prefix = "id" => s.prefix = "id"
         /\ op = "exe" \/ s # NoScript => Rewritten(op, g, s) # NoScript
         /\ s # NoScript /\ s.args # None => Rewritten(op, g, s).args # None
<1>1. wanted[g] \in Args /\ wanted[g] # None
  BY DeviceAssumption DEF TypeInv, TypeOK
<1>2. CASE op = "exe"
  BY <1>2 DEF Rewritten, Script, NewScript, NoScript
<1>3. CASE op = "args"
  BY <1>1, <1>3 DEF Rewritten, Script, NoScript
<1>4. CASE op = "regen"
  BY <1>4 DEF Rewritten, Script, NoScript
<1> QED  BY <1>2, <1>3, <1>4

LEMMA WriteScriptForm ==
  ASSUME TypeInv, NEW p \in Procs, WriteScript(p)
  PROVE  /\ TypeInv' /\ proc[p].op \in {"exe", "args", "regen"} /\ proc[p].game \in Titles
         /\ LET r == proc[p]
                s == proc'[p] IN
            /\ r.script \in Script /\ CreateRunScript(r.game, Rewritten(r.op, r.game, r.script))
            /\ \/ r.op = "args" /\ s = Idle
               \/ r.op = "regen" /\ s.at = "parse" /\ SameBut(r, s)
               \/ r.op = "exe" /\ "no_runner" \notin env /\ s.at = "add" /\ SameBut(r, s)
               \/ r.op = "exe" /\ "no_runner" \in env /\ s = Idle
<1> DEFINE r == proc[p]
           g == r.game
           n == Rewritten(r.op, g, r.script)
<1>1. r \in Goroutine /\ Sound(r) /\ r.at = "write"
  BY DEF TypeInv, WriteScript
<1>2. r.op \in {"exe", "args", "regen"} /\ g \in Titles /\ r.script \in Script
  BY <1>1 DEF Sound, Phase, Writing, Goroutine
<1>3. n \in Script
  BY <1>2, RewrittenForm
<1>4. CreateRunScript(g, n)
  BY DEF WriteScript
<1> HIDE DEF n
<1>5. script' \in [Titles -> Script] /\ games' \subseteq Titles
  BY <1>2, <1>3, <1>4, CreateForm
<1>6. ASSUME proc' \in [Procs -> Goroutine], \A q \in Procs : Sound(proc'[q])
      PROVE  TypeInv'
  <2>1. \A q \in Procs : proc'[q].todo \subseteq Titles
    BY <1>6 DEF Goroutine
  <2> QED  BY <1>5, <1>6, <2>1
      DEF TypeInv, TypeOK, WriteScript, steamVars, clientVars, historyVars, Script, Sound, Phase, Writing
<1>7. ASSUME NEW at \in {"parse", "add"}, Goto(p, at),
             at = "parse" => r.op = "regen", at = "add" => r.op = "exe"
      PROVE  TypeInv' /\ proc'[p].at = at /\ SameBut(r, proc'[p])
  <2> DEFINE t == [r EXCEPT !.at = at]
  <2>1. t.at = at /\ SameBut(r, t)
    BY <1>1, GotoForm DEF Phases
  <2> HIDE DEF t
  <2>2. Sound(t)
    BY <1>1, <1>2, <1>7, <2>1 DEF Sound, Phase, Writing, SameBut, GameOps
  <2> QED  BY <1>6, <1>7, <2>2, GotoMoves DEF Phases, t
<1>8. CASE r.op = "args"
  <2>1. End(p)
    BY <1>8 DEF WriteScript
  <2> QED  BY <1>2, <1>4, <1>6, <1>8, <2>1, EndMoves DEF n
<1>9. CASE r.op = "regen"
  <2>1. Goto(p, "parse")
    BY <1>9 DEF WriteScript
  <2> QED  BY <1>2, <1>4, <1>7, <1>9, <2>1 DEF n
<1>10. CASE r.op = "exe" /\ "no_runner" \notin env
  <2>1. Goto(p, "add")
    BY <1>10 DEF WriteScript
  <2> QED  BY <1>2, <1>4, <1>7, <1>10, <2>1 DEF n
<1>11. CASE r.op = "exe" /\ "no_runner" \in env
  <2>1. End(p)
    BY <1>11 DEF WriteScript
  <2> QED  BY <1>2, <1>4, <1>6, <1>11, <2>1, EndMoves DEF n
<1> QED  BY <1>2, <1>8, <1>9, <1>10, <1>11

LEMMA MovePrefixForm ==
  ASSUME TypeInv, NEW p \in Procs, MovePrefix(p)
  PROVE  /\ TypeInv' /\ proc[p].op = "rename" /\ proc[p].game \in Titles
         /\ \/ /\ \A h \in Titles : h # proc[p].game => (<<h, "id">> \in prefixes => <<h, "id">> \in prefixes')
               /\ proc'[p].at = "repath" /\ SameBut(proc[p], proc'[p])
            \/ UNCHANGED prefixes /\ proc'[p] = Idle
<1> DEFINE r == proc[p]
           g == r.game
           from == IF Parsed(g).prefix \in {"absent", "none"} THEN "id" ELSE script[g].prefix
           t == [r EXCEPT !.at = "repath"]
<1>1. r \in Goroutine /\ Sound(r) /\ r.at = "move"
  BY DEF TypeInv, MovePrefix
<1>2. r.op = "rename" /\ g \in Titles
  BY <1>1 DEF Sound, Phase, Writing, GameOps
<1>3. t.at = "repath" /\ SameBut(r, t)
  BY <1>1, GotoForm DEF Phases
<1> HIDE DEF t
<1>4. Sound(t)
  BY <1>1, <1>2, <1>3 DEF Sound, Phase, Writing, SameBut
<1>5. ASSUME proc' \in [Procs -> Goroutine], \A q \in Procs : Sound(proc'[q]),
             prefixes' \subseteq Titles \X {"title", "id"}
      PROVE  TypeInv'
  <2>1. \A q \in Procs : proc'[q].todo \subseteq Titles
    BY <1>5 DEF Goroutine
  <2> QED  BY <1>5, <2>1
      DEF TypeInv, TypeOK, MovePrefix, steamVars, clientVars, historyVars, Sound, Phase, Writing
<1>6. CASE prefixes' = (prefixes \ {<<g, from>>}) \union {<<g, "title">>} /\ Goto(p, "repath")
  <2>1. prefixes' \subseteq Titles \X {"title", "id"}
    BY <1>2, <1>6 DEF TypeInv, TypeOK
  <2>2. \A h \in Titles : h # g => (<<h, "id">> \in prefixes => <<h, "id">> \in prefixes')
    BY <1>6
  <2> QED  BY <1>2, <1>4, <1>5, <1>6, <2>1, <2>2, GotoMoves DEF Phases, t
<1>7. CASE UNCHANGED prefixes /\ End(p)
  <2>1. prefixes' \subseteq Titles \X {"title", "id"}
    BY <1>7 DEF TypeInv, TypeOK
  <2> QED  BY <1>2, <1>5, <1>7, <2>1, EndMoves
<1> QED  BY <1>6, <1>7 DEF MovePrefix

LEMMA RepathScriptForm ==
  ASSUME TypeInv, NEW p \in Procs, RepathScript(p)
  PROVE  /\ TypeInv' /\ proc[p].op = "rename" /\ proc[p].game \in Titles /\ proc'[p] = Idle
         /\ \A h \in Titles :
              /\ script'[h].args = script[h].args /\ (h # proc[p].game => script'[h] = script[h])
              /\ (script'[h] = NoScript <=> script[h] = NoScript)
         /\ script'[proc[p].game].prefix # "id"
<1> DEFINE r == proc[p]
           g == r.game
           n == [script[g] EXCEPT !.prefix = IF @ = "id" THEN "title" ELSE @]
<1>1. r \in Goroutine /\ Sound(r) /\ r.at = "repath"
  BY DEF TypeInv, RepathScript
<1>2. r.op = "rename" /\ g \in Titles
  BY <1>1 DEF Sound, Phase, Writing, GameOps
<1>3. script \in [Titles -> Script] /\ script[g] \in Script
  BY <1>2 DEF TypeInv, TypeOK, Script
<1>4. n \in Script /\ n.args = script[g].args /\ n.prefix # "id" /\ (n = NoScript <=> script[g] = NoScript)
  BY <1>3 DEF Script, NoScript
<1>5. script' = [script EXCEPT ![g] = n]
  BY <1>3 DEF RepathScript
<1> HIDE DEF n
<1>6. script' \in [Titles -> Script]
  BY <1>2, <1>3, <1>4, <1>5
<1>7. /\ proc' \in [Procs -> Goroutine] /\ \A q \in Procs : Sound(proc'[q]) /\ proc'[p] = Idle
  BY EndMoves DEF RepathScript
<1>8. games' \subseteq Titles /\ prefixes' \subseteq Titles \X {"title", "id"} /\ pending' \subseteq Jobs
  BY DEF RepathScript, TypeInv, TypeOK
<1>9. TypeInv'
  BY <1>6, <1>7, <1>8, ScriptsKeepType DEF RepathScript
<1> QED  BY <1>2, <1>3, <1>4, <1>5, <1>7, <1>9

LEMMA FixForm ==
  ASSUME TypeInv, NEW p \in Procs, FixShortcuts(p)
  PROVE  /\ TypeInv' /\ proc[p].op \in {"refresh", "watch"}
         /\ LET r == proc[p]
                s == proc'[p] IN
            \/ \E g \in r.todo :
                 /\ s.op = r.op /\ s.todo = r.todo \ {g} /\ Phase(s) = "fix" /\ s.at \in {"fix", "truncate"}
                 /\ ToCome(s) = DOMAIN vdf \union {g}
                 /\ s.at = "truncate" => s.add.name = g /\ s.vdf = vdf
                 /\ pending' = pending \union Artwork({g}) /\ g \in Titles
            \/ s = Scanning(r) /\ UNCHANGED pending
<1> DEFINE r == proc[p]
<1>1. r \in Goroutine /\ Sound(r) /\ r.at = "fix" /\ vdf \in Shortcuts
  BY DEF TypeInv, FixShortcuts
<1>2. r.op \in {"refresh", "watch"} /\ r.todo \subseteq Titles
  BY <1>1 DEF Sound, Phase, Writing, Goroutine
<1>3. ASSUME proc' \in [Procs -> Goroutine], \A q \in Procs : Sound(proc'[q]), pending' \subseteq Jobs
      PROVE  TypeInv'
  BY <1>3, TypeKept DEF FixShortcuts
<1>4. ASSUME NEW g \in r.todo, Spawn(Artwork({g})),
             proc' = [proc EXCEPT ![p] = RefreshShortcut([r EXCEPT !.todo = @ \ {g}], g, "fix")]
      PROVE  /\ TypeInv' /\ proc'[p].op = r.op /\ proc'[p].todo = r.todo \ {g}
             /\ Phase(proc'[p]) = "fix" /\ proc'[p].at \in {"fix", "truncate"}
             /\ ToCome(proc'[p]) = DOMAIN vdf \union {g}
             /\ proc'[p].at = "truncate" => proc'[p].add.name = g /\ proc'[p].vdf = vdf
  <2> DEFINE t == [r EXCEPT !.todo = @ \ {g}]
             s == RefreshShortcut(t, g, "fix")
  <2>1. t \in Goroutine /\ t.op = r.op /\ t.todo = r.todo \ {g} /\ t.game = r.game
    BY <1>1 DEF Goroutine
  <2> HIDE DEF t
  <2>2. /\ s \in Goroutine /\ s.op = r.op /\ s.game = r.game /\ s.todo = r.todo \ {g}
        /\ Phase(s) = "fix" /\ s.at \in {"fix", "truncate"} /\ ToCome(s) = DOMAIN vdf \union {g}
        /\ s.at = "truncate" => s.add.name = g /\ s.next = "fix" /\ s.vdf = vdf
    <3>1. g \in Titles /\ "fix" \in {"fix", "scan"}
      BY <1>2
    <3> QED  BY <1>1, <2>1, <3>1, RefreshForm
  <2>3. proc' = [proc EXCEPT ![p] = s]
    BY <1>4 DEF t
  <2> HIDE DEF s
  <2>4. Sound(s)
    BY <1>2, <2>2 DEF Sound, Phase, Writing, GameOps, Names
  <2>5. /\ proc' \in [Procs -> Goroutine] /\ \A q \in Procs : Sound(proc'[q]) /\ proc'[p] = s
    BY <2>2, <2>3, <2>4, Moves DEF TypeInv
  <2>6. pending' \subseteq Jobs
    <3>1. {g} \in SUBSET Names
      BY <1>2 DEF Names
    <3> QED  BY <1>4, <3>1, JobForm DEF Spawn, TypeInv
  <2> QED  BY <1>3, <2>2, <2>5, <2>6
<1>5. CASE r.todo = {} /\ proc' = [proc EXCEPT ![p] = Scanning(r)] /\ UNCHANGED pending
  <2>1. /\ proc' \in [Procs -> Goroutine] /\ \A q \in Procs : Sound(proc'[q])
        /\ proc'[p] = Scanning(r)
    BY <1>2, <1>5, ScanningMoves
  <2> QED  BY <1>2, <1>3, <1>5, <2>1 DEF TypeInv
<1>6. CASE \E g \in r.todo :
          /\ proc' = [proc EXCEPT ![p] = RefreshShortcut([r EXCEPT !.todo = @ \ {g}], g, "fix")]
          /\ Spawn(Artwork({g}))
  BY <1>2, <1>4, <1>6 DEF Spawn
<1> QED  BY <1>5, <1>6 DEF FixShortcuts

LEMMA ScanGameForm ==
  ASSUME TypeInv, NEW p \in Procs, ScanGame(p)
  PROVE  /\ TypeInv' /\ proc[p].at = "scan"
         /\ LET r == proc[p]
                s == proc'[p] IN
            \E g \in r.todo :
              /\ s.op = r.op /\ s.game = r.game /\ s.todo = r.todo \ {g} /\ s.seen = r.seen
              /\ s.list = Put(r.list, g, HasScript(g) \/ Alike(g) \intersect r.seen # {})
              /\ Phase(s) = "scan" /\ s.at \in {"scan", "truncate"}
              /\ ToCome(s) = IF HasScript(g) THEN DOMAIN vdf \union {g} ELSE DOMAIN vdf
              /\ s.at = "truncate" => s.add.name = g /\ s.vdf = vdf
<1> DEFINE r == proc[p]
<1>1. r \in Goroutine /\ Sound(r) /\ r.at = "scan" /\ vdf \in Shortcuts
  BY DEF TypeInv, ScanGame
<1>2. /\ r.op \in {"scan", "regen", "refresh", "watch", "delete"} /\ r.todo \subseteq Titles
      /\ r.list \in Reports
  BY SMTT(40), <1>1 DEF Sound, Phase, Writing, Goroutine
<1>3. PICK g \in r.todo :
        LET s == [r EXCEPT !.todo = @ \ {g},
                           !.list = Put(@, g, script[g] # NoScript \/ Alike(g) \intersect r.seen # {})] IN
        proc' = [proc EXCEPT ![p] = IF script[g] # NoScript THEN RefreshShortcut(s, g, "scan") ELSE s]
  BY DEF ScanGame
<1> DEFINE l == Put(r.list, g, HasScript(g) \/ Alike(g) \intersect r.seen # {})
           t == [r EXCEPT !.todo = r.todo \ {g}, !.list = l]
           s == IF HasScript(g) THEN RefreshShortcut(t, g, "scan") ELSE t
<1>4. l \in Reports
  BY <1>2, PutReport
<1>5. proc' = [proc EXCEPT ![p] = s]
  BY <1>1, <1>3 DEF HasScript, Goroutine
<1> HIDE DEF l
<1>6. t \in Goroutine
  BY <1>1, <1>4 DEF Goroutine
<1>7. /\ t.at = "scan" /\ t.op = r.op /\ t.game = r.game /\ t.todo = r.todo \ {g} /\ t.seen = r.seen
      /\ t.list = l
  BY <1>1 DEF Goroutine
<1> HIDE DEF t
<1>8. /\ s \in Goroutine /\ s.op = r.op /\ s.game = r.game /\ s.todo = r.todo \ {g} /\ s.seen = r.seen
      /\ s.list = l /\ Phase(s) = "scan" /\ s.at \in {"scan", "truncate"}
      /\ ToCome(s) = IF HasScript(g) THEN DOMAIN vdf \union {g} ELSE DOMAIN vdf
      /\ s.at = "truncate" => s.add.name = g /\ s.next = "scan" /\ s.vdf = vdf
  <2>1. CASE HasScript(g)
    <3>1. g \in Titles /\ "scan" \in {"fix", "scan"}
      BY <1>2
    <3>2. LET u == RefreshShortcut(t, g, "scan") IN
          /\ u \in Goroutine /\ u.op = t.op /\ u.game = t.game /\ u.todo = t.todo /\ u.seen = t.seen
          /\ u.list = t.list /\ Phase(u) = "scan" /\ u.at \in {"scan", "truncate"}
          /\ ToCome(u) = DOMAIN vdf \union {g}
          /\ u.at = "truncate" => u.add.name = g /\ u.next = "scan" /\ u.vdf = vdf
      BY <1>1, <1>6, <3>1, RefreshForm
    <3> QED  BY <1>7, <2>1, <3>2
  <2>2. CASE ~HasScript(g)
    BY <1>6, <1>7, <2>2 DEF Phase, Writing, ToCome
  <2> QED  BY <2>1, <2>2
<1> HIDE DEF s
<1>9. Sound(s)
  BY <1>1, <1>2, <1>4, <1>8 DEF Sound, Phase, Writing, Names
<1>10. /\ proc' \in [Procs -> Goroutine] /\ \A q \in Procs : Sound(proc'[q]) /\ proc'[p] = s
  BY <1>5, <1>8, <1>9, Moves DEF TypeInv
<1>11. TypeInv'
  BY <1>10, TypeKept DEF ScanGame, TypeInv
<1> QED  BY <1>1, <1>8, <1>10, <1>11 DEF l

LEMMA ReportForm ==
  ASSUME TypeInv, NEW p \in Procs, Report(p)
  PROVE  /\ TypeInv' /\ proc'[p] = Idle
         /\ proc[p].op \in {"scan", "regen", "refresh", "watch", "delete"} /\ proc[p].list \in Reports
<1> DEFINE r == proc[p]
<1>1. r \in Goroutine /\ Sound(r) /\ r.at = "scan"
  BY DEF TypeInv, Report
<1>2. r.op \in {"scan", "regen", "refresh", "watch", "delete"} /\ r.list \in Reports
  BY <1>1 DEF Sound, Phase, Writing
<1>3. /\ proc' \in [Procs -> Goroutine] /\ \A q \in Procs : Sound(proc'[q]) /\ proc'[p] = Idle
  BY EndMoves DEF Report
<1>4. \A q \in Procs : proc'[q].todo \subseteq Titles
  BY <1>3 DEF Goroutine
<1>5. reported' \in Reports /\ known' \subseteq Titles
  BY <1>2, ReportsForm DEF TypeInv, TypeOK, Report, clientVars
<1>6. DOMAIN reported' \subseteq Titles /\ \A g \in DOMAIN reported' : reported'[g] \in BOOLEAN
  BY <1>5, ReportsForm
<1>7. TypeInv'
  BY <1>3, <1>4, <1>5, <1>6
  DEF TypeInv, TypeOK, Report, fileVars, steamVars, historyVars, Sound, Phase, Writing
<1> QED  BY <1>2, <1>3, <1>7

LEMMA RemoveFilesForm ==
  ASSUME TypeInv, NEW p \in Procs, RemoveFiles(p)
  PROVE  /\ TypeInv' /\ proc[p].op = "delete" /\ proc[p].game \in Titles
         /\ LET r == proc[p]
                g == r.game IN
            \/ /\ games' = games \ {g} /\ script' = [script EXCEPT ![g] = NoScript]
               /\ prefixes' = prefixes \ {<<g, "title">>}
               /\ proc'[p].at = "unlist" /\ SameBut(r, proc'[p])
            \/ /\ UNCHANGED <<games, prefixes>> /\ proc'[p] = Idle
               /\ script' \in {script, [script EXCEPT ![g] = NoScript]}
<1> DEFINE r == proc[p]
           g == r.game
           t == [r EXCEPT !.at = "unlist"]
<1>1. r \in Goroutine /\ Sound(r) /\ r.at = "remove"
  BY DEF TypeInv, RemoveFiles
<1>2. r.op = "delete" /\ g \in Titles
  BY <1>1 DEF Sound, Phase, Writing, GameOps
<1>3. NoScript \in Script /\ script \in [Titles -> Script]
  BY DEF NoScript, Script, TypeInv, TypeOK
<1>4. t.at = "unlist" /\ SameBut(r, t)
  BY <1>1, GotoForm DEF Phases
<1> HIDE DEF t
<1>5. Sound(t)
  BY <1>1, <1>2, <1>4 DEF Sound, Phase, Writing, SameBut
<1>6. script' \in [Titles -> Script]
  BY <1>2, <1>3 DEF RemoveFiles
<1>7. ASSUME proc' \in [Procs -> Goroutine], \A q \in Procs : Sound(proc'[q])
      PROVE  TypeInv'
  <2>1. \A q \in Procs : proc'[q].todo \subseteq Titles
    BY <1>7 DEF Goroutine
  <2> QED  BY <1>6, <1>7, <2>1
      DEF TypeInv, TypeOK, RemoveFiles, steamVars, clientVars, historyVars, Script, Sound, Phase, Writing
<1>8. CASE /\ games' = games \ {g} /\ script' = [script EXCEPT ![g] = NoScript]
           /\ prefixes' = prefixes \ {<<g, "title">>}
           /\ Goto(p, "unlist")
  BY <1>2, <1>5, <1>7, <1>8, GotoMoves DEF Phases, t
<1>9. CASE /\ script' \in {script, [script EXCEPT ![g] = NoScript]}
           /\ End(p) /\ UNCHANGED <<games, prefixes>>
  BY <1>2, <1>7, <1>9, EndMoves
<1> QED  BY <1>8, <1>9 DEF RemoveFiles

LEMMA UnlistSound ==
  ASSUME TypeInv, NEW p \in Procs, Phase(proc[p]) \in {"unlist", "readd"}
  PROVE  proc[p] \in Goroutine /\ Sound(proc[p]) /\ proc[p].op = "delete" /\ proc[p].game \in Titles
  BY DEF TypeInv, Sound, GameOps

LEMMA KeepShortcutForm ==
  ASSUME TypeInv, NEW p \in Procs, KeepShortcut(p)
  PROVE  TypeInv' /\ proc'[p] = Scanning(proc[p]) /\ proc[p].op = "delete" /\ proc[p].game \in Titles
  BY UnlistSound, ScanningMoves, TypeKept DEF KeepShortcut, TypeInv, Phase, Writing

LEMMA RemoveShortcutForm ==
  ASSUME TypeInv, NEW p \in Procs, RemoveShortcut(p)
  PROVE  /\ TypeInv' /\ proc[p].op = "delete" /\ proc[p].game \in Titles
         /\ LET r == proc[p]
                s == proc'[p] IN
            \/ /\ Alike(r.game) \intersect DOMAIN vdf # {} /\ vdf' = <<>> /\ watch' = FALSE
               /\ s.at = "readd" /\ s.op = r.op /\ s.game = r.game
               /\ DOMAIN s.list = DOMAIN vdf \ Alike(r.game)
               /\ \A n \in DOMAIN s.list : s.list[n] = vdf[n]
            \/ /\ Alike(r.game) \intersect DOMAIN vdf = {} /\ UNCHANGED <<vdf, watch>>
               /\ s = Scanning(r)
<1> DEFINE r == proc[p]
           g == r.game
<1>1. r.at = "unlist" /\ vdf \in Shortcuts
  BY DEF TypeInv, RemoveShortcut
<1>2. r \in Goroutine /\ Sound(r) /\ r.op = "delete" /\ g \in Titles
  BY <1>1, UnlistSound DEF Phase, Writing
<1>3. ASSUME proc' \in [Procs -> Goroutine], \A q \in Procs : Sound(proc'[q]), vdf' \in {vdf, <<>>}
      PROVE  TypeInv'
  <2>1. watch' \in BOOLEAN /\ dirty' \in BOOLEAN
    BY DEF TypeInv, TypeOK, RemoveShortcut, steamVars
  <2>2. vdf' \in Shortcuts
    BY <1>1, <1>3, EmptyForm
  <2>3. dropped' \subseteq Titles
    BY <1>2 DEF TypeInv, TypeOK, RemoveShortcut
  <2> QED  BY <1>3, <2>1, <2>2, <2>3, FilesKeepType
      DEF TypeInv, RemoveShortcut, fileVars, clientVars
<1>4. CASE /\ Alike(g) \intersect DOMAIN vdf # {} /\ vdf' = <<>> /\ watch' = FALSE
           /\ proc' = [proc EXCEPT ![p].at = "readd",
                                   ![p].list = Restrict(vdf, DOMAIN vdf \ Alike(g))]
  <2> DEFINE l == Restrict(vdf, DOMAIN vdf \ Alike(g))
             s == [r EXCEPT !.at = "readd", !.list = l]
  <2>1. /\ l \in Shortcuts /\ DOMAIN l = DOMAIN vdf \ Alike(g)
        /\ \A n \in DOMAIN l : l[n] = vdf[n]
    BY <1>1, RestrictShortcuts
  <2>2. proc' = [proc EXCEPT ![p] = s]
    BY <1>4 DEF TypeInv
  <2> HIDE DEF l
  <2>3. s \in Goroutine
    BY <1>2, <2>1 DEF Goroutine, Phases
  <2>4. s.at = "readd" /\ s.op = r.op /\ s.game = g /\ s.list = l
    BY <1>2 DEF Goroutine
  <2> HIDE DEF s
  <2>5. Sound(s)
    BY <1>2, <2>1, <2>4 DEF Sound, Phase, Writing
  <2>6. /\ proc' \in [Procs -> Goroutine] /\ \A q \in Procs : Sound(proc'[q]) /\ proc'[p] = s
    BY <2>2, <2>3, <2>5, Moves DEF TypeInv
  <2> QED  BY <1>2, <1>3, <1>4, <2>1, <2>4, <2>6
<1>5. CASE Alike(g) \intersect DOMAIN vdf = {} /\ proc' = [proc EXCEPT ![p] = Scanning(r)] /\ UNCHANGED steamVars
  BY <1>2, <1>3, <1>5, ScanningMoves DEF steamVars
<1> QED  BY <1>4, <1>5 DEF RemoveShortcut

LEMMA ReaddForm ==
  ASSUME TypeInv, NEW p \in Procs, ReaddShortcut(p)
  PROVE  /\ TypeInv' /\ proc[p].at = "readd" /\ proc[p].op = "delete" /\ proc[p].game \in Titles
         /\ LET r == proc[p]
                s == proc'[p] IN
            \/ \E n \in DOMAIN r.list :
                 /\ s.at = "truncate" /\ s.op = r.op /\ s.game = r.game /\ s.next = "readd"
                 /\ s.vdf = vdf /\ s.add.name = n /\ DOMAIN s.list = DOMAIN r.list \ {n}
                 /\ s.add.entry.exe = r.list[n].exe /\ s.add.entry.icon = r.list[n].icon
                 /\ \A m \in DOMAIN s.list : s.list[m] = r.list[m]
            \/ DOMAIN r.list = {} /\ s = Scanning(r)
<1> DEFINE r == proc[p]
<1>1. r.at = "readd" /\ vdf \in Shortcuts
  BY DEF TypeInv, ReaddShortcut
<1>2. r \in Goroutine /\ Sound(r) /\ r.op = "delete" /\ r.game \in Titles
  BY <1>1, UnlistSound DEF Phase, Writing
<1>3. r.list \in Shortcuts
  BY <1>1, <1>2 DEF Sound, Phase, Writing
<1>4. ASSUME proc' \in [Procs -> Goroutine], \A q \in Procs : Sound(proc'[q])
      PROVE  TypeInv'
  BY <1>4, TypeKept DEF ReaddShortcut, TypeInv
<1>5. ASSUME NEW n \in DOMAIN r.list,
             proc' = [proc EXCEPT ![p] =
               Adding([r EXCEPT !.list = Restrict(r.list, DOMAIN r.list \ {n})], n,
                      [r.list[n] EXCEPT !.twin = FALSE], "readd")]
      PROVE  LET s == proc'[p] IN
             /\ TypeInv' /\ s.at = "truncate" /\ s.op = r.op /\ s.game = r.game /\ s.next = "readd"
             /\ s.vdf = vdf /\ s.add.name = n /\ DOMAIN s.list = DOMAIN r.list \ {n}
             /\ s.add.entry.exe = r.list[n].exe /\ s.add.entry.icon = r.list[n].icon
             /\ \A m \in DOMAIN s.list : s.list[m] = r.list[m]
  <2> DEFINE l == Restrict(r.list, DOMAIN r.list \ {n})
             t == [r EXCEPT !.list = l]
             e == [r.list[n] EXCEPT !.twin = FALSE]
  <2>1. /\ l \in Shortcuts /\ DOMAIN l = DOMAIN r.list \ {n}
        /\ \A m \in DOMAIN l : l[m] = r.list[m]
    <3> DEFINE K == {n}
               f == r.list
    <3>1. f \in Shortcuts
      BY <1>3
    <3> HIDE DEF K, f
    <3>2. LET k == Restrict(f, DOMAIN f \ K) IN
          k \in Shortcuts /\ DOMAIN k = DOMAIN f \ K /\ \A m \in DOMAIN f \ K : k[m] = f[m]
      BY <3>1, RestrictShortcuts
    <3> QED  BY <3>2 DEF K, f
  <2>2. n \in Names /\ e \in Shortcut /\ e.exe = r.list[n].exe /\ e.icon = r.list[n].icon
    <3>1. n \in Names /\ r.list[n] \in Shortcut
      BY <1>3, ShortcutsForm
    <3> QED  BY <3>1 DEF Shortcut
  <2>3. proc' = [proc EXCEPT ![p] = Adding(t, n, e, "readd")]
    BY Zenon, <1>5
  <2> HIDE DEF l, e
  <2>4. t \in Goroutine /\ t.op = r.op /\ t.game = r.game /\ t.list = l
    BY <1>2, <2>1 DEF Goroutine
  <2> HIDE DEF t
  <2>5. /\ proc' \in [Procs -> Goroutine] /\ \A q \in Procs : Sound(proc'[q])
        /\ proc'[p] = Adding(t, n, e, "readd")
    BY <1>2, <2>1, <2>2, <2>3, <2>4, AddingMoves
  <2>6. "readd" \in Phases
    BY DEF Phases
  <2>7. LET s == Adding(t, n, e, "readd") IN
        /\ s.at = "truncate" /\ s.op = t.op /\ s.game = t.game /\ s.next = "readd"
        /\ s.vdf = vdf /\ s.add.name = n /\ s.add.entry = e /\ s.list = t.list
    BY <1>1, <2>2, <2>4, <2>6, AddingForm
  <2> QED  BY <1>4, <2>1, <2>2, <2>4, <2>5, <2>7
<1>6. CASE DOMAIN r.list = {} /\ proc' = [proc EXCEPT ![p] = Scanning(r)]
  BY <1>1, <1>2, <1>4, <1>6, ScanningMoves
<1>7. CASE \E n \in DOMAIN r.list :
          proc' = [proc EXCEPT ![p] =
            Adding([r EXCEPT !.list = Restrict(r.list, DOMAIN r.list \ {n})], n,
                      [r.list[n] EXCEPT !.twin = FALSE], "readd")]
  BY <1>1, <1>2, <1>5, <1>7
<1> QED  BY <1>6, <1>7 DEF ReaddShortcut

LEMMA CommandForm ==
  ASSUME TypeInv, NEW op, NEW g, Command(op, g),
         (op \in GameOps /\ g \in Titles) \/ (op \in DeviceOps /\ g = None)
  PROVE  TypeInv'
<1>1. pending' \subseteq Jobs
  BY JobForm DEF Command, Spawn, TypeInv
<1>2. dropped' \subseteq Titles
  BY DEF Command, TypeInv, TypeOK
<1> QED  BY <1>1, <1>2
    DEF Command, TypeInv, TypeOK, fileVars, steamVars, clientVars, Sound, Phase, Writing

LEMMA SetLaunchArgsForm ==
  ASSUME TypeInv, NEW g \in Titles, NEW a \in Args, SetLaunchArgs(g, a)
  PROVE  TypeInv'
<1>1. pending' \subseteq Jobs
  BY JobForm DEF SetLaunchArgs, Spawn, TypeInv, GameOps
<1>2. wanted' \in [Titles -> Args]
  BY DEF SetLaunchArgs, TypeInv, TypeOK
<1> QED  BY <1>1, <1>2
    DEF SetLaunchArgs, TypeInv, TypeOK, fileVars, steamVars, clientVars, Sound, Phase, Writing

LEMMA WatchFiresForm ==
  ASSUME TypeInv, WatchFires
  PROVE  TypeInv'
<1>1. pending' \subseteq Jobs
  BY JobForm DEF WatchFires, Spawn, TypeInv, DeviceOps
<1>2. UNCHANGED <<env, fileVars, vdf, watch, clientVars, proc, historyVars>> /\ dirty' = FALSE
  BY DEF WatchFires
<1>3. (\A q \in Procs : Sound(proc[q]))'
  BY <1>2 DEF TypeInv, Sound, Phase, Writing
<1>4. TypeOK'
  BY <1>2 DEF TypeInv, TypeOK, fileVars, clientVars, historyVars
<1> QED  BY <1>1, <1>2, <1>3, <1>4 DEF TypeInv, clientVars

LEMMA CloudForm ==
  ASSUME TypeInv, Cloud
  PROVE  /\ TypeInv' /\ DOMAIN vdf' = DOMAIN vdf
         /\ Foreign \in DOMAIN vdf => vdf'[Foreign] = vdf[Foreign]
<1>1. vdf \in Shortcuts /\ \A n \in DOMAIN vdf : vdf[n] \in Shortcut
  BY ShortcutsForm DEF TypeInv
<1> DEFINE e(n) == IF n = Foreign THEN vdf[n] ELSE [vdf[n] EXCEPT !.exe = "other"]
<1>2. vdf' = [n \in DOMAIN vdf |-> e(n)]
  BY DEF Cloud
<1>3. \A n \in DOMAIN vdf : e(n) \in Shortcut
  BY <1>1 DEF Shortcut
<1>3a. e(Foreign) = vdf[Foreign]
  OBVIOUS
<1> HIDE DEF e
<1>4. DOMAIN vdf' = DOMAIN vdf /\ vdf' \in [DOMAIN vdf -> Shortcut]
  BY <1>2, <1>3
<1>5. vdf' \in Shortcuts
  BY <1>1, <1>4, ShortcutsForm DEF Shortcuts
<1>6. watch' = watch /\ dirty' \in BOOLEAN
  BY DEF Cloud, TypeInv, TypeOK
<1>7. TypeInv'
  BY <1>5, <1>6, FilesKeepType DEF Cloud, TypeInv, TypeOK, fileVars, clientVars, historyVars
<1> QED  BY <1>2, <1>3a, <1>4, <1>7

LEMMA RestartForm ==
  ASSUME TypeInv, Restart
  PROVE  TypeInv'
<1>1. pending' \subseteq Jobs
  BY JobForm DEF Restart
<1>2. proc' \in [Procs -> Goroutine] /\ \A q \in Procs : Sound(proc'[q]) /\ proc'[q].todo = {}
  BY IdleForm DEF Restart
<1> QED  BY ZenonT(60), <1>1, <1>2
    DEF Restart, TypeInv, TypeOK, fileVars, clientVars, historyVars, Sound, Phase, Writing

LEMMA DisturbForm ==
  ASSUME Disturb
  PROVE  \/ \E op \in Commands \ {"args"} :
              \E g \in Titles \union {None} :
                 /\ Command(op, g)
                 /\ (op \in GameOps /\ g \in Titles) \/ (op \in DeviceOps /\ g = None)
         \/ \E g \in Titles, a \in Args : SetLaunchArgs(g, a)
         \/ Cloud
         \/ Restart
  BY DEF Disturb, Commands, GameOps, DeviceOps, Ops

LEMMA TypeInit == Init => TypeInv
<1> SUFFICES ASSUME Init PROVE TypeInv
  OBVIOUS
<1>1. \E a : a \in Args
  BY DeviceAssumption
<1>2. NoArgs \in Args
  BY <1>1 DEF NoArgs
<1>3. \A g \in Titles : script[g] \in Script
  BY <1>2 DEF Init, OldScript, NoScript, Script
<1>4. script \in [Titles -> Script]
  BY <1>3 DEF Init
<1>5. games \subseteq Titles
  BY DEF Init
<1>5a. prefixes \subseteq Titles \X {"title", "id"}
  BY <1>5 DEF Init
<1>6. vdf \in [{Foreign} -> Shortcut] /\ {Foreign} \in SUBSET Names
  BY NamesForm DEF Init
<1>7. vdf \in Shortcuts
  BY <1>6 DEF Shortcuts
<1>8. DOMAIN vdf \subseteq Names /\ \A n \in DOMAIN vdf : vdf[n] \in Shortcut
  BY <1>7, ShortcutsForm
<1>9. reported \in Reports /\ DOMAIN reported = {}
  BY EmptyForm DEF Init
<1>10. pending \subseteq Jobs
  BY JobForm DEF Init
<1>11. proc \in [Procs -> Goroutine] /\ \A q \in Procs : Sound(proc[q]) /\ proc[q].todo = {}
  BY IdleForm DEF Init
<1>12. wanted \in [Titles -> Args]
  BY <1>2 DEF Init
<1> QED  BY <1>4, <1>5, <1>5a, <1>7, <1>8, <1>9, <1>10, <1>11, <1>12
    DEF Init, TypeInv, TypeOK, Script, Names, Shortcut

LEMMA TypeNext ==
  ASSUME TypeInv, [Next]_vars
  PROVE  TypeInv'
<1>1. CASE UNCHANGED vars
  BY <1>1, TypeKept DEF vars, TypeInv
<1>2. CASE Disturb
  BY <1>2, DisturbForm, CommandForm, SetLaunchArgsForm, CloudForm, RestartForm
<1>3. CASE WatchFires
  BY <1>3, WatchFiresForm
<1>4. ASSUME NEW p \in Procs, Step(p)
      PROVE  TypeInv'
  <2>1. CASE Begin(p) \/ InstallFiles(p) \/ Parse(p) \/ WriteScript(p) \/ MovePrefix(p)
    BY <2>1, BeginForm, InstallFilesForm, ParseForm, WriteScriptForm, MovePrefixForm
  <2>2. CASE RepathScript(p) \/ AddShortcut(p) \/ TruncateVdf(p) \/ FillVdf(p) \/ Added(p)
    BY <2>2, RepathScriptForm, AddShortcutForm, TruncateForm, FillForm, AddedForm
  <2>3. CASE SetIcon(p) \/ IconDone(p) \/ FixShortcuts(p) \/ ScanGame(p) \/ Report(p)
    BY <2>3, SetIconForm, IconDoneForm, FixForm, ScanGameForm, ReportForm
  <2>4. CASE RemoveFiles(p) \/ KeepShortcut(p) \/ RemoveShortcut(p) \/ ReaddShortcut(p)
    BY <2>4, RemoveFilesForm, KeepShortcutForm, RemoveShortcutForm, ReaddForm
  <2> QED  BY <1>4, <2>1, <2>2, <2>3, <2>4 DEF Step
<1> QED  BY <1>1, <1>2, <1>3, <1>4 DEF Next

\* Every file, list and goroutine has its form, whatever the environment does.
THEOREM TypeCorrect == Spec => []TypeOK
<1>1. TypeInv => TypeOK
  BY DEF TypeInv
<1> QED  BY TypeInit, TypeNext, <1>1, PTL DEF Spec

-----------------------------------------------------------------------------
(* What each step makes of Good.                                           *)

NoCommands == \A j \in pending : j.op \notin Commands

\* What the steps change that Good speaks of, when a goroutine ends ...
LEMMA IdleFacts ==
  /\ ~Writing(Idle) /\ Phase(Idle) = "idle" /\ ToCome(Idle) = DOMAIN vdf /\ ~ScanAhead(Idle)
  /\ Idle.op = "none" /\ Idle.at = "idle"
  BY IdleForm DEF Writing, Phase, ToCome, ScanAhead

\* ... and when it begins to scan.
LEMMA ScanBegins ==
  ASSUME TypeInv, NEW p \in Procs, NEW r \in Goroutine, proc'[p] = Scanning(r),
         UNCHANGED <<games, script, vdf>>,
         r.op \in {"scan", "regen", "refresh", "watch", "delete"},
         \A g \in Titles : HasScript(g) => g \in games
  PROVE  /\ proc'[p].at = "scan" /\ proc'[p].op = r.op /\ proc'[p].game = r.game
         /\ Phase(proc[p])' = "scan" /\ ToCome(proc[p])' = DOMAIN vdf
         /\ Scanned(proc[p])' /\ Listed(proc[p])' /\ Shown(proc[p])'
<1> DEFINE s == Scanning(r)
<1>1. /\ s.at = "scan" /\ s.op = r.op /\ s.game = r.game /\ s.todo = games /\ s.seen = DOMAIN vdf
      /\ s.list = <<>>
  BY ScanningForm DEF TypeInv, TypeOK
<1> HIDE DEF s
<1>2. /\ proc'[p].at = "scan" /\ proc'[p].op = r.op /\ proc'[p].game = r.game
      /\ proc'[p].todo = games' /\ proc'[p].seen = DOMAIN vdf' /\ DOMAIN proc'[p].list = {}
  BY <1>1, EmptyForm DEF s
<1>3. Phase(proc[p])' = "scan" /\ ToCome(proc[p])' = DOMAIN vdf'
  BY <1>2 DEF Phase, Writing, ToCome
<1>4. Scanned(proc[p])'
  BY <1>2, <1>3 DEF Scanned
<1>5. Listed(proc[p])' /\ Shown(proc[p])'
  BY <1>2, <1>3 DEF Listed, Shown, ScanAhead
<1> QED  BY <1>2, <1>3, <1>4, <1>5

\* The foreign shortcut where a goroutine writes nothing, or is to write another entry or
\* this one as it was.
LEMMA ForeignStays ==
  ASSUME NEW p \in Procs, KeepsForeign(proc[p]), UNCHANGED <<env, vdf, watch>>,
         ToCome(proc[p]) = DOMAIN vdf, Phase(proc[p])' # "readd", proc'[p].at # "fill",
         proc'[p].at = "truncate" =>
           LET e == proc'[p].add.entry IN
           /\ proc'[p].vdf = vdf
           /\ proc'[p].add.name = Foreign /\ "fold" \notin env =>
                e.exe = Others.exe /\ e.icon = Others.icon /\ (watch => e.twin)
  PROVE  KeepsForeign(proc[p])'
<1> SUFFICES ASSUME "fold" \notin env  PROVE KeepsForeign(proc[p])'
  BY DEF KeepsForeign
<1>1. Foreign \in DOMAIN vdf /\ InFile(vdf)
  BY DEF KeepsForeign
<1>2. CASE proc'[p].at = "truncate"
  BY <1>1, <1>2 DEF KeepsForeign, ToCome, Writing, Phase, InFile, Intact
<1>3. CASE proc'[p].at # "truncate"
  BY <1>1, <1>3 DEF KeepsForeign, ToCome, Writing, Phase, InFile, Intact
<1> QED  BY <1>2, <1>3

LEMMA BeginGood ==
  ASSUME TypeInv, NEW p \in Procs, Begin(p), Good(proc[p]), proc[p] = Idle
  PROVE  Good(proc[p])'
<1> DEFINE s == proc'[p]
<1>1. PICK j \in pending :
         /\ pending' = pending \ {j} /\ j = Job(j.op, j.game)
         /\ j.op = "scan" => j = Scan
         /\ j.op \in Ops
         /\ s.at = Entry(j.op) /\ s.op = j.op /\ s.game = j.game /\ s.script = NoScript
         /\ s.list = <<>>
         /\ j.op = "scan" => s.todo = games /\ s.seen = DOMAIN vdf
         /\ j.op = "regen" => s.todo = games
         /\ j.op \in {"refresh", "watch"} => s.todo = known
  BY BeginForm
<1>2. UNCHANGED <<env, games, script, prefixes, vdf, watch, known, reported, wanted, dropped>>
  BY DEF Begin, fileVars, steamVars, clientVars, historyVars
<1>3. /\ s.at \in {"files", "remove", "parse", "move", "icon", "fix", "scan"}
      /\ s.at = "fix" => j.op \in {"refresh", "watch"}
      /\ s.at = "scan" <=> j.op = "scan"
  BY <1>1 DEF Entry, GameOps, DeviceOps, Ops
<1>4. Phase(proc[p])' = s.at /\ ToCome(proc[p])' = DOMAIN vdf'
  BY <1>3 DEF Phase, Writing, ToCome
<1>5. Kept(proc[p])'
  <2>1. ScriptHeld(proc[p])'
    BY <1>2, <1>3 DEF Good, Kept, ScriptHeld, HasScript
  <2>2. ArgsArrive(proc[p])'
    <3>1. ASSUME NEW g \in Titles, Job("args", g) = j  PROVE s.op = "args" /\ s.game = g
      BY <1>1, <3>1, JobForm
    <3> QED  BY <1>1, <1>2, <3>1, IdleFacts DEF Good, Kept, ArgsArrive
  <2>3. PrefixArrives(proc[p])'
    BY <1>2, IdleFacts DEF Good, Kept, PrefixArrives
  <2>4. KeepsForeign(proc[p])'
    BY <1>2, <1>3, <1>4, IdleFacts, ForeignStays DEF Good, Kept
  <2> QED  BY <2>1, <2>2, <2>3, <2>4 DEF Kept
<1>6. ASSUME "offline" \notin env  PROVE NoGhost(proc[p])'
  <2>1. NoGhost(Idle)
    BY <1>6 DEF Good
  <2> QED  BY <1>1, <1>2, <1>3, <1>4, <2>1, IdleFacts DEF NoGhost, HasScript
<1>7. ASSUME "offline" \notin env, "no_runner" \notin env  PROVE Told(proc[p])'
  <2>1. Told(Idle)
    BY <1>7 DEF Good
  <2>2. Scanned(proc[p])'
    BY <1>1, <1>2, <1>3, <1>4, EmptyForm DEF Scanned
  <2>3. Listed(proc[p])'
    BY <1>1, <1>2, <1>3, <1>4, <2>1, IdleFacts, JobForm DEF Told, Listed, HasScript
  <2>4. Shown(proc[p])'
    BY <1>1, <1>2, <1>3, <1>4, <2>1, IdleFacts, JobForm DEF Told, Shown, HasScript, ScanAhead, Alike
  <2> QED  BY <2>2, <2>3, <2>4 DEF Told
<1> QED  BY <1>2, <1>5, <1>6, <1>7 DEF Good

LEMMA InstallFilesGood ==
  ASSUME TypeInv, NEW p \in Procs, InstallFiles(p), Good(proc[p])
  PROVE  Good(proc[p])'
<1> DEFINE r == proc[p]
           g == r.game
           n == [prefix |-> "title", args |-> wanted[g]]
<1>1. /\ r.at = "files" /\ games' = games \union {g} /\ prefixes \subseteq prefixes'
      /\ UNCHANGED <<env, vdf, watch, known, reported, wanted, dropped>>
  BY DEF InstallFiles, CreateRunScript, steamVars, clientVars, historyVars
<1>2. g \in Titles /\ r.op = "install"
  BY InstallFilesForm
<1>3. n # NoScript /\ n.args = wanted[g] /\ n.prefix = "title"
  BY DEF NoScript
<1>4. ToCome(r) = DOMAIN vdf
  BY <1>1 DEF ToCome, Phase, Writing
<1>5. ScriptHeld(r) /\ ArgsArrive(r) /\ PrefixArrives(r) /\ KeepsForeign(r)
  BY DEF Good, Kept
<1>6. CASE /\ proc'[p].at = "add" /\ SameBut(proc[p], proc'[p])
           /\ n \in Script /\ CreateRunScript(g, n) /\ UNCHANGED pending
  <2> DEFINE s == proc'[p]
  <2> HIDE DEF n
  <2>1. s.at = "add" /\ s.op = "install" /\ s.game = g
    BY <1>2, <1>6 DEF SameBut
  <2>2. Phase(proc[p])' = "add" /\ ToCome(proc[p])' = DOMAIN vdf'
    BY <2>1 DEF Phase, Writing, ToCome
  <2>3. /\ \A h \in Titles : h # g => script'[h] = script[h]
        /\ env \intersect {"windows", "no_runner"} = {} => script'[g].args = wanted[g]
        /\ script'[g].prefix = "id" => script[g].prefix = "id"
    BY <1>2, <1>3, <1>6, CreateForm
  <2>4. Kept(proc[p])'
    <3>1. ScriptHeld(proc[p])'
      BY <1>1, <1>5, <2>1, <2>3 DEF ScriptHeld, HasScript
    <3>2. ArgsArrive(proc[p])'
      BY <1>1, <1>2, <1>5, <1>6, <2>3 DEF ArgsArrive
    <3>3. PrefixArrives(proc[p])'
      BY <1>1, <1>5, <2>3 DEF PrefixArrives
    <3>4. KeepsForeign(proc[p])'
      BY <1>1, <1>4, <1>5, <2>1, <2>2, ForeignStays
    <3> QED  BY <3>1, <3>2, <3>3, <3>4 DEF Kept
  <2>5. ASSUME "offline" \notin env  PROVE NoGhost(proc[p])'
    <3>1. NoGhost(r) /\ dropped \subseteq Titles
      BY <2>5 DEF Good, TypeInv, TypeOK
    <3>2. \A h \in dropped : h # g /\ script'[h] = script[h]
      BY <1>2, <2>3, <3>1 DEF NoGhost
    <3> QED  BY <1>1, <1>2, <1>4, <1>6, <2>1, <2>2, <3>1, <3>2 DEF NoGhost, HasScript
  <2>6. Told(proc[p])'
    BY <2>1, <2>2 DEF Told, Scanned, Listed, Shown, ScanAhead
  <2> QED  BY <1>1, <2>4, <2>5, <2>6 DEF Good
<1>7. CASE proc'[p] = Idle /\ UNCHANGED script /\ pending' = pending \union {Scan}
  <2>1. Phase(proc[p])' = "idle" /\ ToCome(proc[p])' = DOMAIN vdf' /\ proc'[p].op = "none" /\ proc'[p].at = "idle"
    BY <1>7, IdleForm DEF Phase, Writing, ToCome
  <2>2. Kept(proc[p])'
    <3>1. ScriptHeld(proc[p])'
      BY <1>1, <1>5, <1>7, <2>1 DEF ScriptHeld, HasScript
    <3>2. ArgsArrive(proc[p])'
      BY <1>1, <1>2, <1>5, <1>7 DEF ArgsArrive
    <3>3. PrefixArrives(proc[p])'
      BY <1>1, <1>5, <1>7 DEF PrefixArrives
    <3>4. KeepsForeign(proc[p])'
      BY <1>1, <1>4, <1>5, <2>1, ForeignStays
    <3> QED  BY <3>1, <3>2, <3>3, <3>4 DEF Kept
  <2>3. ASSUME "offline" \notin env  PROVE NoGhost(proc[p])'
    <3>1. NoGhost(r)
      BY <2>3 DEF Good
    <3>2. \A j \in pending' : j.op \in {"install", "exe"} => j \in pending
      BY <1>7, JobForm
    <3> QED  BY <1>1, <1>2, <1>4, <1>7, <2>1, <3>1, <3>2 DEF NoGhost, HasScript
  <2>4. Told(proc[p])'
    BY <1>7, <2>1 DEF Told, Scanned, Listed, Shown
  <2> QED  BY <1>1, <2>2, <2>3, <2>4 DEF Good
<1> QED  BY <1>6, <1>7, InstallFilesForm DEF n

LEMMA ParseGood ==
  ASSUME TypeInv, NEW p \in Procs, Parse(p), Good(proc[p])
  PROVE  Good(proc[p])'
<1> DEFINE r == proc[p]
           s == proc'[p]
<1>1. /\ r.at = "parse" /\ r \in Goroutine /\ r.todo \subseteq Titles
      /\ UNCHANGED <<env, games, script, prefixes, vdf, watch, known, reported, pending, wanted, dropped>>
  BY Zenon DEF TypeInv, Goroutine, Parse, fileVars, steamVars, clientVars, historyVars
<1>2. ToCome(r) = DOMAIN vdf /\ r.op \in {"exe", "args", "regen"}
  BY <1>1, ParseForm DEF ToCome, Phase, Writing
<1>3. ScriptHeld(r) /\ ArgsArrive(r) /\ PrefixArrives(r) /\ KeepsForeign(r)
  BY DEF Good, Kept
\* What is left of the three parts of Good once the goroutine has gone on.
<1>4. ASSUME s.at \in {"parse", "write", "scan", "idle"},
             s.at = "write" => s.script = Parsed(s.game) /\ (s.op # "exe" => Parsed(s.game) # NoScript),
             s.op = "args" => r.op = "args" /\ s.game = r.game,
             r.op = "args" => (s.op = "args" /\ s.game = r.game) \/ Parsed(r.game) = NoScript,
             s.op \in {"install", "exe"} => r.op = s.op /\ r.game = s.game
      PROVE  Kept(proc[p])' /\ ("offline" \notin env => NoGhost(proc[p])') /\ ToCome(proc[p])' = DOMAIN vdf
  <2>1. Phase(proc[p])' = s.at /\ ToCome(proc[p])' = DOMAIN vdf'
    BY <1>4 DEF Phase, Writing, ToCome
  <2>2. ScriptHeld(proc[p])'
    BY <1>1, <1>3, <1>4 DEF ScriptHeld, HasScript, Parsed
  <2>3. ArgsArrive(proc[p])'
    BY <1>1, <1>3, <1>4 DEF ArgsArrive, NoScript, Parsed
  <2>4. PrefixArrives(proc[p])'
    BY <1>1, <1>3, <1>4 DEF PrefixArrives
  <2>5. KeepsForeign(proc[p])'
    BY <1>1, <1>2, <1>3, <1>4, <2>1, ForeignStays
  <2>6. ASSUME "offline" \notin env  PROVE NoGhost(proc[p])'
    <3>1. NoGhost(r)
      BY <2>6 DEF Good
    <3> QED  BY <1>1, <1>2, <1>4, <2>1, <3>1 DEF NoGhost, HasScript
  <2> QED  BY <1>1, <2>1, <2>2, <2>3, <2>4, <2>5, <2>6 DEF Kept
<1>5. CASE r.op = "regen" /\ r.todo = {} /\ s = Scanning(r)
  <2>1. /\ proc'[p].at = "scan" /\ proc'[p].op = r.op /\ proc'[p].game = r.game
        /\ Scanned(proc[p])' /\ Listed(proc[p])' /\ Shown(proc[p])'
    BY <1>1, <1>3, <1>5, ScanBegins DEF ScriptHeld
  <2>2. Kept(proc[p])' /\ ("offline" \notin env => NoGhost(proc[p])')
    BY <1>4, <1>5, <2>1
  <2> QED  BY <1>1, <2>1, <2>2 DEF Good, Told
<1>6. CASE /\ r.op = "regen" /\ s.op = "regen" /\ s.game \in r.todo /\ s.script = Parsed(s.game)
           /\ s.at = IF Parsed(s.game) = NoScript THEN "parse" ELSE "write"
  <2>1. Kept(proc[p])' /\ ("offline" \notin env => NoGhost(proc[p])') /\ s.at # "scan"
    BY <1>4, <1>6 DEF HasScript
  <2>2. Told(proc[p])'
    BY <1>6 DEF Told, Scanned, Listed, Shown, ScanAhead, Phase, Writing
  <2> QED  BY <1>1, <2>1, <2>2 DEF Good
<1>7. CASE /\ r.op \in {"exe", "args"} /\ s.op = r.op /\ s.game = r.game /\ s.at = "write"
           /\ s.script = Parsed(r.game) /\ (r.op = "exe" \/ Parsed(r.game) # NoScript)
  <2>1. Kept(proc[p])' /\ ("offline" \notin env => NoGhost(proc[p])') /\ ToCome(proc[p])' = DOMAIN vdf
    BY <1>4, <1>7 DEF HasScript
  <2>2. ASSUME "offline" \notin env, "no_runner" \notin env  PROVE Told(proc[p])'
    <3>1. Told(r) /\ Phase(r) = "parse" /\ Phase(proc[p])' = "write"
      BY <1>1, <1>7, <2>2 DEF Good, Phase, Writing
    <3> QED  BY <1>1, <1>2, <1>7, <2>1, <3>1 DEF Told, Scanned, Listed, Shown, ScanAhead, HasScript, Alike
  <2> QED  BY <1>1, <2>1, <2>2 DEF Good
<1>8. CASE r.op = "args" /\ Parsed(r.game) = NoScript /\ s = Idle
  <2>1. s.at = "idle" /\ s.op = "none"
    BY <1>8, IdleForm
  <2>2. Kept(proc[p])' /\ ("offline" \notin env => NoGhost(proc[p])') /\ ToCome(proc[p])' = DOMAIN vdf
    BY <1>4, <1>8, <2>1
  <2>3. ASSUME "offline" \notin env, "no_runner" \notin env  PROVE Told(proc[p])'
    <3>1. Told(r) /\ Phase(r) = "parse" /\ Phase(proc[p])' = "idle"
      BY <1>1, <2>1, <2>3 DEF Good, Phase, Writing
    <3> QED  BY <1>1, <1>2, <1>8, <2>1, <2>2, <3>1 DEF Told, Scanned, Listed, Shown, ScanAhead, HasScript, Alike
  <2> QED  BY <1>1, <2>2, <2>3 DEF Good
<1> QED  BY SMTT(40), <1>5, <1>6, <1>7, <1>8, ParseForm

LEMMA WriteScriptGood ==
  ASSUME TypeInv, NEW p \in Procs, WriteScript(p), Good(proc[p])
  PROVE  Good(proc[p])'
<1> DEFINE r == proc[p]
           s == proc'[p]
           g == r.game
           n == Rewritten(r.op, g, r.script)
<1>1. /\ r.at = "write" /\ games' = games \union {g} /\ script \in [Titles -> Script]
      /\ UNCHANGED <<env, prefixes, vdf, watch, known, reported, pending, wanted, dropped>>
  BY DEF TypeInv, TypeOK, Script, WriteScript, CreateRunScript, steamVars, clientVars, historyVars
<1>2. /\ r.op \in {"exe", "args", "regen"} /\ g \in Titles
      /\ r.script \in Script /\ CreateRunScript(g, n)
      /\ \/ r.op = "args" /\ s = Idle
         \/ r.op = "regen" /\ s.at = "parse" /\ SameBut(r, s)
         \/ r.op = "exe" /\ s.at = "add" /\ SameBut(r, s)
         \/ r.op = "exe" /\ "no_runner" \in env /\ s = Idle
  BY WriteScriptForm
<1>3. ToCome(r) = DOMAIN vdf
  BY <1>1 DEF ToCome, Phase, Writing
<1>4. ScriptHeld(r) /\ ArgsArrive(r) /\ PrefixArrives(r) /\ KeepsForeign(r)
  BY DEF Good, Kept
<1>5. r.script = Parsed(g) /\ (r.op # "exe" => Parsed(g) # NoScript /\ HasScript(g))
  BY <1>1, <1>2, <1>4, ParsedForm DEF ScriptHeld, HasScript
<1>6. /\ n \in Script /\ n # NoScript /\ n.args \in {None, wanted[g], Parsed(g).args}
      /\ r.op = "args" => n.args = wanted[g]
      /\ n.prefix = "id" => script[g].prefix = "id"
  BY <1>1, <1>2, <1>5, RewrittenForm, ParsedForm
<1> HIDE DEF n
<1>7. /\ \A h \in Titles : h # g => script'[h] = script[h]
      /\ "no_runner" \in env => script' = script
      /\ "no_runner" \notin env => script'[g] # NoScript
      /\ env \intersect {"windows", "no_runner"} = {} => script'[g] = n /\ Parsed(g) = script[g]
      /\ script'[g].prefix = "id" => script[g].prefix = "id"
  <2>1. /\ \A h \in Titles : h # g => script'[h] = script[h]
        /\ "no_runner" \in env => script' = script
        /\ script'[g].prefix = "id" => script[g].prefix = "id"
    BY <1>1, <1>2, <1>6, CreateForm
  <2>2. "no_runner" \notin env => script'[g] # NoScript
    BY <1>1, <1>2, <1>6, CreateForm DEF HasScript
  <2>3. env \intersect {"windows", "no_runner"} = {} => script'[g] = n /\ Parsed(g) = script[g]
    BY <1>1, <1>2, <1>6, CreateForm, ParsedForm
  <2> QED  BY <2>1, <2>2, <2>3
<1>8. /\ s.at \in {"idle", "parse", "add"} /\ s.op \in {"none", r.op}
      /\ s.op = "exe" => s.game = g
      /\ s.op = "none" => r.op = "args" \/ "no_runner" \in env
  BY <1>2, IdleForm DEF SameBut
<1>9. Phase(proc[p])' = s.at /\ ToCome(proc[p])' = DOMAIN vdf'
  BY <1>8 DEF Phase, Writing, ToCome
<1>10. Kept(proc[p])'
  <2>1. ScriptHeld(proc[p])'
    BY <1>1, <1>4, <1>7, <1>8 DEF ScriptHeld, HasScript
  <2>2. ArgsArrive(proc[p])'
    BY <1>1, <1>2, <1>4, <1>6, <1>7 DEF ArgsArrive
  <2>3. PrefixArrives(proc[p])'
    BY <1>1, <1>4, <1>7 DEF PrefixArrives
  <2>4. KeepsForeign(proc[p])'
    BY <1>1, <1>3, <1>4, <1>8, <1>9, ForeignStays
  <2> QED  BY <2>1, <2>2, <2>3, <2>4 DEF Kept
<1>11. ASSUME "offline" \notin env  PROVE NoGhost(proc[p])'
  <2>1. NoGhost(r)
    BY <1>11 DEF Good
  <2>2. g \notin dropped /\ dropped \subseteq Titles
    BY <1>2, <1>5, <2>1 DEF NoGhost, HasScript, TypeInv, TypeOK
  <2>3. \A h \in dropped : script'[h] = script[h]
    BY <1>7, <2>2
  <2> QED  BY <1>1, <1>2, <1>3, <1>8, <1>9, <2>1, <2>2, <2>3 DEF NoGhost, HasScript
<1>12. ASSUME "offline" \notin env, "no_runner" \notin env  PROVE Told(proc[p])'
  <2>1. Told(r) /\ Phase(r) = "write"
    BY <1>1, <1>12 DEF Good, Phase, Writing
  <2>2. CASE r.op = "args"
    <3>1. games' = games
      BY <1>1, <1>2, <1>4, <1>5, <2>2 DEF ScriptHeld, HasScript
    <3>2. \A h \in Titles : HasScript(h)' <=> HasScript(h)
      BY <1>5, <1>7, <1>12, <2>2 DEF HasScript
    <3>3. games \subseteq Titles
      BY DEF TypeInv, TypeOK
    <3>4. Listed(proc[p])'
      BY <1>1, <1>2, <1>3, <1>9, <2>1, <2>2, <3>2 DEF Told, Listed
    <3>5. Shown(proc[p])'
      BY <1>1, <1>3, <1>8, <1>9, <2>1, <2>2, <3>1, <3>2, <3>3 DEF Told, Shown, ScanAhead, Alike
    <3> QED  BY <1>8, <1>9, <3>4, <3>5 DEF Told, Scanned
  <2>3. CASE r.op \in {"regen", "exe"}
    BY <1>2, <1>8, <1>9, <1>12, <2>3 DEF Told, Scanned, Listed, Shown, ScanAhead, SameBut
  <2> QED  BY <1>2, <2>2, <2>3
<1> QED  BY <1>1, <1>10, <1>11, <1>12 DEF Good

\* A renaming changes no more than what prefix a script has.
LEMMA RenameGood ==
  ASSUME TypeInv, NEW p \in Procs, Good(proc[p]), ~Writing(proc[p]), proc[p].op = "rename",
         proc'[p].at \in {"repath", "idle"}, proc'[p].op \in {"rename", "none"},
         UNCHANGED <<env, games, vdf, watch, known, reported, pending, wanted, dropped>>,
         \A h \in Titles : script'[h].args = script[h].args /\ (HasScript(h)' <=> HasScript(h)),
         PrefixArrives(proc[p])', Phase(proc[p]) # "readd"
  PROVE  Good(proc[p])'
<1> DEFINE r == proc[p]
           s == proc'[p]
<1>1. Phase(proc[p])' = s.at /\ ToCome(proc[p])' = DOMAIN vdf' /\ ToCome(r) = DOMAIN vdf
  BY DEF Phase, Writing, ToCome
<1>2. Kept(proc[p])'
  <2>1. ScriptHeld(r) /\ ArgsArrive(r) /\ KeepsForeign(r)
    BY DEF Good, Kept
  <2>2. ScriptHeld(proc[p])'
    BY <2>1 DEF ScriptHeld
  <2>3. ArgsArrive(proc[p])'
    BY <2>1 DEF ArgsArrive
  <2>4. KeepsForeign(proc[p])'
    BY <1>1, <2>1, ForeignStays
  <2> QED  BY <2>2, <2>3, <2>4 DEF Kept
<1>3. ASSUME "offline" \notin env  PROVE NoGhost(proc[p])'
  <2>1. NoGhost(r) /\ dropped \subseteq Titles
    BY <1>3 DEF Good, TypeInv, TypeOK
  <2> QED  BY <1>1, <2>1 DEF NoGhost
<1>4. ASSUME "offline" \notin env, "no_runner" \notin env  PROVE Told(proc[p])'
  <2>1. Told(r) /\ games \subseteq Titles /\ Phase(r) # "scan"
    BY <1>4 DEF Good, TypeInv, TypeOK, Sound
  <2>2. Listed(proc[p])'
    BY <1>1, <2>1 DEF Told, Listed
  <2>3. Shown(proc[p])'
    BY <1>1, <2>1 DEF Told, Shown, ScanAhead, Alike
  <2> QED  BY <1>1, <2>2, <2>3 DEF Told, Scanned
<1> QED  BY <1>2, <1>3, <1>4 DEF Good

LEMMA MovePrefixGood ==
  ASSUME TypeInv, NEW p \in Procs, MovePrefix(p), Good(proc[p])
  PROVE  Good(proc[p])'
<1> DEFINE r == proc[p]
           s == proc'[p]
<1>1. /\ r.at = "move" /\ UNCHANGED <<env, games, script, vdf, watch, known, reported, pending, wanted, dropped>>
  BY DEF MovePrefix, steamVars, clientVars, historyVars
<1>2. /\ r.op = "rename" /\ r.game \in Titles /\ ~Writing(r) /\ Phase(r) = "move"
  BY <1>1, MovePrefixForm DEF Writing, Phase
<1>3. PrefixArrives(r)
  BY DEF Good, Kept
<1>4. CASE /\ \A h \in Titles : h # r.game => (<<h, "id">> \in prefixes => <<h, "id">> \in prefixes')
           /\ s.at = "repath" /\ SameBut(r, s)
  <2>1. PrefixArrives(proc[p])'
    BY <1>1, <1>2, <1>3, <1>4 DEF PrefixArrives, SameBut
  <2> QED  BY <1>1, <1>2, <1>4, <2>1, RenameGood DEF SameBut, HasScript
<1>5. CASE UNCHANGED prefixes /\ s = Idle
  <2>1. PrefixArrives(proc[p])'
    BY <1>1, <1>3, <1>5 DEF PrefixArrives
  <2> QED  BY <1>1, <1>2, <1>5, <2>1, RenameGood, IdleForm DEF HasScript
<1> QED  BY <1>4, <1>5, MovePrefixForm

LEMMA RepathScriptGood ==
  ASSUME TypeInv, NEW p \in Procs, RepathScript(p), Good(proc[p])
  PROVE  Good(proc[p])'
<1> DEFINE r == proc[p]
<1>1. /\ r.at = "repath" /\ UNCHANGED <<env, games, prefixes, vdf, watch, known, reported, pending, wanted, dropped>>
  BY DEF RepathScript, steamVars, clientVars, historyVars
<1>2. /\ r.op = "rename" /\ r.game \in Titles /\ ~Writing(r) /\ Phase(r) = "repath" /\ proc'[p] = Idle
      /\ \A h \in Titles :
           /\ script'[h].args = script[h].args /\ (h # r.game => script'[h] = script[h])
           /\ (script'[h] = NoScript <=> script[h] = NoScript)
      /\ script'[r.game].prefix # "id"
  BY <1>1, RepathScriptForm DEF Writing, Phase
<1>3. PrefixArrives(proc[p])'
  BY <1>1, <1>2 DEF Good, Kept, PrefixArrives
<1> QED  BY <1>1, <1>2, <1>3, RenameGood, IdleForm DEF HasScript

\* A goroutine that goes on writing shortcuts.vdf, and means to write what it meant to.
LEMMA RewritingGood ==
  ASSUME TypeInv, NEW p \in Procs, Good(proc[p]),
         UNCHANGED <<env, games, script, prefixes, known, reported, pending, wanted, dropped>>,
         proc'[p].op = proc[p].op, proc'[p].game = proc[p].game,
         Phase(proc[p])' = Phase(proc[p]), ToCome(proc[p])' = ToCome(proc[p]),
         DOMAIN vdf' \subseteq ToCome(proc[p]) \union DOMAIN vdf,
         proc[p].at # "repath", proc'[p].at \notin {"write", "unlist", "remove"},
         Phase(proc[p]) \in {"scan", "fix"} =>
           /\ proc'[p].todo = proc[p].todo /\ proc'[p].seen = proc[p].seen
           /\ proc'[p].list = proc[p].list,
         KeepsForeign(proc[p])'
  PROVE  Good(proc[p])'
<1> DEFINE r == proc[p]
<1>1. Kept(proc[p])'
  <2>1. ScriptHeld(r) /\ ArgsArrive(r) /\ PrefixArrives(r)
    BY DEF Good, Kept
  <2>2. ScriptHeld(proc[p])'
    BY <2>1 DEF ScriptHeld, HasScript
  <2>3. ArgsArrive(proc[p])' /\ PrefixArrives(proc[p])'
    BY <2>1 DEF ArgsArrive, PrefixArrives
  <2> QED  BY <2>2, <2>3 DEF Kept
<1>2. ASSUME "offline" \notin env  PROVE NoGhost(proc[p])'
  <2>1. NoGhost(r)
    BY <1>2 DEF Good
  <2> QED  BY <2>1 DEF NoGhost, HasScript
<1>3. ASSUME "offline" \notin env, "no_runner" \notin env  PROVE Told(proc[p])'
  <2>1. Scanned(r) /\ Listed(r) /\ Shown(r)
    BY <1>3 DEF Good, Told
  <2>2. Scanned(proc[p])'
    BY <2>1 DEF Scanned, HasScript, Alike
  <2>3. Listed(proc[p])' /\ Shown(proc[p])'
    BY <2>1 DEF Listed, Shown, ScanAhead, HasScript, Alike
  <2> QED  BY <2>2, <2>3 DEF Told
<1> QED  BY <1>1, <1>2, <1>3 DEF Good

LEMMA TruncateGood ==
  ASSUME TypeInv, NEW p \in Procs, TruncateVdf(p), Good(proc[p])
  PROVE  Good(proc[p])'
<1> DEFINE r == proc[p]
           s == proc'[p]
<1>1. /\ r.at = "truncate" /\ vdf' = <<>>
      /\ UNCHANGED <<env, watch, games, script, prefixes, known, reported, pending, wanted, dropped>>
  BY DEF TruncateVdf, fileVars, clientVars, historyVars
<1>2. s.at = "fill" /\ SameBut(r, s)
  BY TruncateForm
<1>3. Phase(proc[p])' = Phase(r) /\ ToCome(proc[p])' = ToCome(r)
  BY <1>1, <1>2 DEF Phase, Writing, ToCome, SameBut
<1>4. DOMAIN vdf' = {}
  BY <1>1, EmptyForm
<1>5. KeepsForeign(proc[p])'
  BY <1>1, <1>2, <1>3, <1>4 DEF Good, Kept, KeepsForeign, Writing, SameBut, InFile, Intact
<1> QED  BY <1>1, <1>2, <1>3, <1>4, <1>5, RewritingGood DEF SameBut

LEMMA FillGood ==
  ASSUME TypeInv, NEW p \in Procs, FillVdf(p), Good(proc[p])
  PROVE  Good(proc[p])'
<1> DEFINE r == proc[p]
           s == proc'[p]
<1>1. /\ r.at = "fill"
      /\ UNCHANGED <<env, watch, games, script, prefixes, known, reported, pending, wanted, dropped>>
  BY DEF FillVdf, fileVars, clientVars, historyVars
<1>2. /\ r.next \in {"added", "iconed", "fix", "scan", "readd"}
      /\ s.at = r.next /\ s.op = r.op /\ s.game = r.game /\ s.todo = r.todo
      /\ s.seen = r.seen /\ s.list = r.list
      /\ DOMAIN vdf' = DOMAIN r.vdf \union {r.add.name}
      /\ \A n \in DOMAIN vdf' :
           LET e == IF n = r.add.name THEN r.add.entry ELSE r.vdf[n] IN
           vdf'[n].exe = e.exe /\ vdf'[n].icon = e.icon /\ vdf'[n].twin = e.twin
  BY FillForm
<1>3. Phase(proc[p])' = Phase(r) /\ ToCome(proc[p])' = ToCome(r) /\ DOMAIN vdf' \subseteq ToCome(r)
  BY <1>1, <1>2 DEF Phase, Writing, ToCome
<1>4. ASSUME "fold" \notin env  PROVE KeepsForeign(proc[p])'
  <2>1. /\ KeepsForeign(r) /\ Writing(r) /\ ~Writing(proc[p])' /\ Foreign \in ToCome(r)
        /\ ToCome(r) = DOMAIN vdf' \union (IF Phase(r) = "readd" THEN DOMAIN r.list ELSE {})
    BY <1>1, <1>2, <1>4 DEF Good, Kept, KeepsForeign, Writing, ToCome
  <2>2. InFile(vdf)'
    <3>1. SUFFICES ASSUME Foreign \in DOMAIN vdf'  PROVE Intact(vdf[Foreign])'
      BY DEF InFile
    <3>2. CASE r.add.name = Foreign
      BY <1>1, <1>2, <1>4, <2>1, <3>1, <3>2 DEF KeepsForeign, Intact
    <3>3. CASE r.add.name # Foreign
      BY <1>1, <1>2, <1>4, <2>1, <3>1, <3>3 DEF KeepsForeign, InFile, Intact
    <3> QED  BY <3>2, <3>3
  <2>3. Phase(r) = "readd" => ~watch' /\ InFile(proc[p].list)'
    BY <1>1, <1>2, <1>4, <2>1 DEF KeepsForeign, InFile, Intact
  <2> QED  BY <1>3, <2>1, <2>2, <2>3 DEF KeepsForeign
<1>5. "fold" \in env => KeepsForeign(proc[p])'
  BY <1>1 DEF KeepsForeign
<1> QED  BY <1>1, <1>2, <1>3, <1>4, <1>5, RewritingGood

LEMMA AddShortcutGood ==
  ASSUME TypeInv, NEW p \in Procs, AddShortcut(p), Good(proc[p])
  PROVE  Good(proc[p])'
<1> DEFINE r == proc[p]
           s == proc'[p]
           g == r.game
<1>1. /\ r.at = "add"
      /\ UNCHANGED <<env, games, script, prefixes, vdf, watch, known, reported, pending, wanted, dropped>>
  BY DEF AddShortcut, fileVars, steamVars, clientVars, historyVars
<1>2. /\ g \in Titles /\ r.op \in {"install", "exe"} /\ dropped \subseteq Titles
      /\ Title(g) # Foreign /\ (Title(g) = g \/ Title(g) \notin Titles)
  BY AddShortcutForm, NamesForm DEF TypeInv, TypeOK
<1>3. /\ s.at = "truncate" /\ s.op = r.op /\ s.game = g /\ s.vdf = vdf /\ s.next = "added"
      /\ s.add.name = Title(g)
  BY AddShortcutForm
<1>4. /\ Phase(proc[p])' = "added" /\ ToCome(proc[p])' = DOMAIN vdf \union {Title(g)}
      /\ ToCome(r) = DOMAIN vdf
  BY <1>1, <1>3 DEF Phase, Writing, ToCome
<1>5. Kept(proc[p])'
  <2>1. ScriptHeld(r) /\ ArgsArrive(r) /\ PrefixArrives(r) /\ KeepsForeign(r)
    BY DEF Good, Kept
  <2>2. ScriptHeld(proc[p])'
    BY <1>1, <1>3, <2>1 DEF ScriptHeld, HasScript
  <2>3. ArgsArrive(proc[p])' /\ PrefixArrives(proc[p])'
    BY <1>1, <1>3, <2>1 DEF ArgsArrive, PrefixArrives
  <2>4. KeepsForeign(proc[p])'
    BY <1>1, <1>2, <1>3, <1>4, <2>1, ForeignStays
  <2> QED  BY <2>2, <2>3, <2>4 DEF Kept
<1>6. ASSUME "offline" \notin env  PROVE NoGhost(proc[p])'
  <2>1. NoGhost(r)
    BY <1>6 DEF Good
  <2> QED  BY <1>1, <1>2, <1>3, <1>4, <2>1 DEF NoGhost, HasScript
<1>7. Told(proc[p])'
  BY <1>2, <1>3, <1>4 DEF Told, Scanned, Listed, Shown, ScanAhead
<1> QED  BY <1>1, <1>5, <1>6, <1>7 DEF Good

\* A goroutine that ends and leaves the device and the agent as they are.
LEMMA EndGood ==
  ASSUME TypeInv, NEW p \in Procs, Good(proc[p]), proc'[p] = Idle, ~Writing(proc[p]),
         UNCHANGED <<env, games, script, prefixes, vdf, watch, known, reported, wanted, dropped>>,
         pending \subseteq pending', \A j \in pending' \ pending : j.op \notin Commands,
         Phase(proc[p]) \in {"added", "icon", "iconed"},
         proc[p].op \in {"install", "exe"} => Scan \in pending'
  PROVE  Good(proc[p])'
<1> DEFINE r == proc[p]
<1>1. /\ Phase(proc[p])' = "idle" /\ ToCome(proc[p])' = DOMAIN vdf /\ ToCome(r) = DOMAIN vdf
      /\ proc'[p].op = "none" /\ proc'[p].at = "idle" /\ r.at \in {"added", "icon", "iconed"}
      /\ r.op \in {"install", "exe", "art"}
  <2>1. Sound(r)
    BY DEF TypeInv
  <2> QED  BY <2>1, IdleForm DEF Phase, Writing, ToCome, Sound
<1>2. Kept(proc[p])'
  <2>1. ScriptHeld(r) /\ ArgsArrive(r) /\ PrefixArrives(r) /\ KeepsForeign(r)
    BY DEF Good, Kept
  <2>2. ScriptHeld(proc[p])'
    BY <1>1, <2>1 DEF ScriptHeld, HasScript
  <2>3. ArgsArrive(proc[p])' /\ PrefixArrives(proc[p])' /\ KeepsForeign(proc[p])'
    BY <1>1, <2>1, ForeignStays DEF ArgsArrive, PrefixArrives
  <2> QED  BY <2>2, <2>3 DEF Kept
<1>3. ASSUME "offline" \notin env  PROVE NoGhost(proc[p])'
  <2>1. NoGhost(r)
    BY <1>3 DEF Good
  <2>2. \A j \in pending' : j.op \in {"install", "exe"} => j \in pending
    BY DEF Commands
  <2> QED  BY <1>1, <2>1, <2>2 DEF NoGhost, HasScript
<1>4. ASSUME "offline" \notin env, "no_runner" \notin env  PROVE Told(proc[p])'
  <2>1. Listed(r) /\ Shown(r)
    BY <1>4 DEF Good, Told
  <2> QED  BY <1>1, <2>1 DEF Told, Scanned, Listed, Shown, ScanAhead, HasScript, Alike
<1> QED  BY <1>2, <1>3, <1>4 DEF Good

LEMMA AddedGood ==
  ASSUME TypeInv, NEW p \in Procs, Added(p), Good(proc[p])
  PROVE  Good(proc[p])'
<1>1. /\ proc[p].at = "added"
      /\ UNCHANGED <<env, games, script, prefixes, vdf, watch, known, reported, wanted, dropped>>
      /\ pending' = pending \union ({Scan} \union
                      IF proc[p].op = "install" THEN Artwork({Title(proc[p].game)}) ELSE {})
  BY DEF Added, Spawn, fileVars, steamVars, clientVars, historyVars
<1>2. proc'[p] = Idle /\ proc[p].op \in {"install", "exe"}
  BY AddedForm
<1>3. Title(proc[p].game) \in Names
  BY <1>2, NamesForm DEF TypeInv, Sound, GameOps
<1>4. \A j \in Artwork({Title(proc[p].game)}) \union {Scan} : j.op \in {"art", "scan"}
  BY <1>3, JobForm
<1>5. Phase(proc[p]) = "added" /\ ~Writing(proc[p])
  BY <1>1 DEF Phase, Writing
<1> QED  BY <1>1, <1>2, <1>4, <1>5, EndGood DEF Commands

LEMMA IconDoneGood ==
  ASSUME TypeInv, NEW p \in Procs, IconDone(p), Good(proc[p])
  PROVE  Good(proc[p])'
<1>1. /\ proc[p].at = "iconed"
      /\ UNCHANGED <<env, games, script, prefixes, vdf, watch, known, reported, pending, wanted, dropped>>
  BY DEF IconDone, fileVars, steamVars, clientVars, historyVars
<1>2. Phase(proc[p]) = "iconed" /\ ~Writing(proc[p]) /\ proc[p].op = "art"
  BY <1>1 DEF Phase, Writing, TypeInv, Sound
<1> QED  BY <1>1, <1>2, IconDoneForm, EndGood

LEMMA SetIconGood ==
  ASSUME TypeInv, NEW p \in Procs, SetIcon(p), Good(proc[p])
  PROVE  Good(proc[p])'
<1> DEFINE r == proc[p]
           s == proc'[p]
           g == r.game
<1>1. /\ r.at = "icon"
      /\ UNCHANGED <<env, games, script, prefixes, vdf, watch, known, reported, pending, wanted, dropped>>
  BY DEF SetIcon, fileVars, steamVars, clientVars, historyVars
<1>2. /\ Phase(r) = "icon" /\ ~Writing(r) /\ r.op = "art" /\ ToCome(r) = DOMAIN vdf
  BY <1>1 DEF Phase, Writing, ToCome, TypeInv, Sound
<1>3. CASE s = Idle
  BY <1>1, <1>2, <1>3, EndGood
<1>4. CASE /\ s.at = "truncate" /\ s.op = r.op /\ s.game = g /\ s.next = "iconed"
           /\ s.vdf = vdf /\ s.add.name \in Alike(g) \intersect DOMAIN vdf
           /\ s.add.entry.exe = vdf[s.add.name].exe /\ s.add.entry.icon = TRUE
           /\ s.add.entry.twin = vdf[s.add.name].twin
  <2>1. s.at = "truncate" /\ s.op = r.op /\ s.game = g /\ s.next = "iconed"
    BY <1>4
  <2>2. Phase(proc[p])' = "iconed" /\ ToCome(proc[p])' = DOMAIN vdf
    BY <1>4, <2>1 DEF Phase, Writing, ToCome
  <2>3. Kept(proc[p])'
    <3>1. ScriptHeld(r) /\ ArgsArrive(r) /\ PrefixArrives(r) /\ KeepsForeign(r)
      BY DEF Good, Kept
    <3>2. ScriptHeld(proc[p])'
      BY <1>1, <2>1, <3>1 DEF ScriptHeld, HasScript
    <3>3. ArgsArrive(proc[p])' /\ PrefixArrives(proc[p])'
      BY <1>1, <1>2, <2>1, <3>1 DEF ArgsArrive, PrefixArrives
    <3>4. ASSUME s.add.name = Foreign, "fold" \notin env
          PROVE  LET e == s.add.entry IN
                 e.exe = Others.exe /\ e.icon = Others.icon /\ (watch => e.twin)
      <4>1. Foreign \in DOMAIN vdf /\ Intact(vdf[Foreign])
        BY <1>4, <3>1, <3>4 DEF KeepsForeign, InFile
      <4> QED  BY <1>4, <3>4, <4>1 DEF Intact, Others
    <3>5. KeepsForeign(proc[p])'
      BY <1>1, <1>2, <1>4, <2>2, <3>1, <3>4, ForeignStays
    <3> QED  BY <3>2, <3>3, <3>5 DEF Kept
  <2>4. ASSUME "offline" \notin env  PROVE NoGhost(proc[p])'
    <3>1. NoGhost(r)
      BY <2>4 DEF Good
    <3> QED  BY <1>1, <1>2, <2>1, <2>2, <3>1 DEF NoGhost, HasScript
  <2>5. ASSUME "offline" \notin env, "no_runner" \notin env  PROVE Told(proc[p])'
    <3>1. Listed(r) /\ Shown(r)
      BY <2>5 DEF Good, Told
    <3> QED  BY <1>1, <1>2, <2>1, <2>2, <3>1 DEF Told, Scanned, Listed, Shown, ScanAhead, HasScript, Alike
  <2> QED  BY <1>1, <2>3, <2>4, <2>5 DEF Good
<1> QED  BY <1>3, <1>4, SetIconForm

\* A goroutine that begins to scan when there is no more for it to write.
LEMMA ScanningGood ==
  ASSUME TypeInv, NEW p \in Procs, Good(proc[p]), proc'[p] = Scanning(proc[p]),
         UNCHANGED <<env, games, script, prefixes, vdf, watch, known, reported, pending, wanted>>,
         ToCome(proc[p]) = DOMAIN vdf, proc[p].at # "repath",
         proc[p].op \in {"regen", "refresh", "watch", "delete"},
         proc[p].op # "delete" => UNCHANGED dropped,
         "offline" \notin env =>
           /\ dropped' \intersect DOMAIN vdf = {} /\ \A g \in dropped' : ~HasScript(g)
           /\ \A j \in pending : j.op \in {"install", "exe"} => j.game \notin dropped'
  PROVE  Good(proc[p])'
<1> DEFINE r == proc[p]
           s == proc'[p]
<1>1. ScriptHeld(r) /\ ArgsArrive(r) /\ PrefixArrives(r) /\ KeepsForeign(r)
  BY DEF Good, Kept
<1>2. /\ s.at = "scan" /\ s.op = r.op /\ s.game = r.game
      /\ Phase(proc[p])' = "scan" /\ ToCome(proc[p])' = DOMAIN vdf
      /\ Scanned(proc[p])' /\ Listed(proc[p])' /\ Shown(proc[p])'
  BY <1>1, ScanBegins DEF TypeInv, ScriptHeld
<1>3. Kept(proc[p])'
  <2>1. ScriptHeld(proc[p])'
    BY <1>1, <1>2 DEF ScriptHeld, HasScript
  <2>2. ArgsArrive(proc[p])' /\ PrefixArrives(proc[p])' /\ KeepsForeign(proc[p])'
    BY <1>1, <1>2, ForeignStays DEF ArgsArrive, PrefixArrives
  <2> QED  BY <2>1, <2>2 DEF Kept
<1>4. ASSUME "offline" \notin env  PROVE NoGhost(proc[p])'
  <2>1. NoGhost(r)
    BY <1>4 DEF Good
  <2> QED  BY <1>2, <1>4, <2>1 DEF NoGhost, HasScript
<1> QED  BY <1>2, <1>3, <1>4 DEF Good, Told

LEMMA FixGood ==
  ASSUME TypeInv, NEW p \in Procs, FixShortcuts(p), Good(proc[p])
  PROVE  Good(proc[p])'
<1> DEFINE r == proc[p]
           s == proc'[p]
<1>1. /\ r.at = "fix"
      /\ UNCHANGED <<env, games, script, prefixes, vdf, watch, known, reported, wanted, dropped>>
  BY DEF FixShortcuts, fileVars, steamVars, clientVars, historyVars
<1>2. /\ Phase(r) = "fix" /\ ToCome(r) = DOMAIN vdf /\ r.op \in {"refresh", "watch"}
  BY <1>1, FixForm DEF Phase, Writing, ToCome
<1>3. ASSUME NEW g \in r.todo,
             s.op = r.op, s.todo = r.todo \ {g}, Phase(s) = "fix", s.at \in {"fix", "truncate"},
             ToCome(s) = DOMAIN vdf \union {g},
             s.at = "truncate" => s.add.name = g /\ s.vdf = vdf, pending' = pending \union Artwork({g}), g \in Titles
      PROVE  Good(proc[p])'
  <2>1. Phase(proc[p])' = "fix" /\ ToCome(proc[p])' = DOMAIN vdf \union {g}
    BY <1>1, <1>3 DEF Phase, Writing, ToCome
  <2>2. Kept(proc[p])'
    <3>1. ScriptHeld(r) /\ ArgsArrive(r) /\ PrefixArrives(r) /\ KeepsForeign(r)
      BY DEF Good, Kept
    <3>2. ScriptHeld(proc[p])'
      BY <1>1, <1>3, <3>1 DEF ScriptHeld, HasScript
    <3>3. ArgsArrive(proc[p])' /\ PrefixArrives(proc[p])'
      BY <1>1, <1>2, <1>3, <3>1 DEF ArgsArrive, PrefixArrives
    <3>4. KeepsForeign(proc[p])'
      BY <1>1, <1>2, <1>3, <2>1, <3>1, NamesForm, ForeignStays
    <3> QED  BY <3>2, <3>3, <3>4 DEF Kept
  <2>3. ASSUME "offline" \notin env  PROVE NoGhost(proc[p])'
    <3>1. NoGhost(r)
      BY <2>3 DEF Good
    <3>2. \A j \in pending' : j.op \in {"install", "exe"} => j \in pending
      <4>1. {g} \in SUBSET Names
        BY <1>3, NamesForm
      <4> QED  BY <1>3, <4>1, JobForm
    <3>3. g \notin dropped /\ known \intersect dropped = {}
      BY <1>2, <3>1 DEF NoGhost
    <3> QED  BY <1>1, <1>2, <1>3, <2>1, <3>1, <3>2, <3>3 DEF NoGhost, HasScript
  <2>4. Told(proc[p])'
    BY <1>2, <1>3, <2>1 DEF Told, Scanned, Listed, Shown, ScanAhead
  <2> QED  BY <1>1, <2>2, <2>3, <2>4 DEF Good
<1>4. CASE s = Scanning(r) /\ UNCHANGED pending
  <2>1. "offline" \notin env =>
           /\ dropped' \intersect DOMAIN vdf = {} /\ \A g \in dropped' : ~HasScript(g)
           /\ \A j \in pending : j.op \in {"install", "exe"} => j.game \notin dropped'
    BY <1>1 DEF Good, NoGhost
  <2> QED  BY <1>1, <1>2, <1>4, <2>1, ScanningGood
<1> QED  BY <1>3, <1>4, FixForm

LEMMA ScanGameGood ==
  ASSUME TypeInv, NEW p \in Procs, ScanGame(p), Good(proc[p])
  PROVE  Good(proc[p])'
<1> DEFINE r == proc[p]
           s == proc'[p]
<1>1. /\ UNCHANGED <<env, games, script, prefixes, vdf, watch, known, reported, pending, wanted, dropped>>
  BY DEF ScanGame, fileVars, steamVars, clientVars, historyVars
<1>2. PICK g \in r.todo :
        /\ s.op = r.op /\ s.game = r.game /\ s.todo = r.todo \ {g} /\ s.seen = r.seen
        /\ s.list = Put(r.list, g, HasScript(g) \/ Alike(g) \intersect r.seen # {})
        /\ Phase(s) = "scan" /\ s.at \in {"scan", "truncate"}
        /\ ToCome(s) = IF HasScript(g) THEN DOMAIN vdf \union {g} ELSE DOMAIN vdf
        /\ s.at = "truncate" => s.add.name = g /\ s.vdf = vdf
  BY ScanGameForm
<1>3. /\ Phase(r) = "scan" /\ r.at = "scan" /\ ToCome(r) = DOMAIN vdf /\ r.todo \subseteq Titles
  BY ScanGameForm DEF Phase, Writing, ToCome, TypeInv, Goroutine
<1>4. /\ Phase(proc[p])' = "scan"
      /\ ToCome(proc[p])' = IF HasScript(g) THEN DOMAIN vdf \union {g} ELSE DOMAIN vdf
  BY <1>1, <1>2 DEF Phase, Writing, ToCome
<1>5. Kept(proc[p])'
  <2>1. ScriptHeld(r) /\ ArgsArrive(r) /\ PrefixArrives(r) /\ KeepsForeign(r)
    BY DEF Good, Kept
  <2>2. ScriptHeld(proc[p])'
    BY <1>1, <1>2, <2>1 DEF ScriptHeld, HasScript
  <2>3. ArgsArrive(proc[p])' /\ PrefixArrives(proc[p])'
    BY <1>1, <1>2, <1>3, <2>1 DEF ArgsArrive, PrefixArrives
  <2>4. KeepsForeign(proc[p])'
    BY <1>1, <1>2, <1>3, <1>4, <2>1, NamesForm, ForeignStays
  <2> QED  BY <2>2, <2>3, <2>4 DEF Kept
<1>6. ASSUME "offline" \notin env  PROVE NoGhost(proc[p])'
  <2>1. NoGhost(r)
    BY <1>6 DEF Good
  <2>2. HasScript(g) => g \notin dropped
    BY <2>1 DEF NoGhost
  <2> QED  BY <1>1, <1>2, <1>3, <1>4, <2>1, <2>2 DEF NoGhost, HasScript
<1>7. ASSUME "offline" \notin env, "no_runner" \notin env  PROVE Scanned(proc[p])'
  <2>1. Scanned(r)
    BY <1>7 DEF Good, Told
  <2>2. /\ DOMAIN s.list = DOMAIN r.list \union {g} /\ s.list[g] = (HasScript(g) \/ Alike(g) \intersect r.seen # {})
        /\ \A h \in DOMAIN r.list : h # g => s.list[h] = r.list[h]
    BY <1>2 DEF Put
  <2>3. \A h : HasScript(h)' <=> HasScript(h)
    BY <1>1 DEF HasScript
  <2>4. DOMAIN s.list \union s.todo = games'
    BY <1>1, <1>2, <1>3, <2>1, <2>2 DEF Scanned
  <2>5. \A h \in DOMAIN s.list : s.list[h] = (HasScript(h) \/ Alike(h) \intersect s.seen # {})
    BY <1>2, <1>3, <2>1, <2>2 DEF Scanned
  <2>6. \A h \in DOMAIN s.list : HasScript(h) => h \in ToCome(proc[p])'
    BY <1>3, <1>4, <2>1, <2>2 DEF Scanned
  <2>7. s.seen \subseteq ToCome(proc[p])'
    BY <1>2, <1>3, <1>4, <2>1 DEF Scanned
  <2>8. \A n \in ToCome(proc[p])' \ s.seen : n \in Titles /\ HasScript(n)
    BY <1>2, <1>3, <1>4, <2>1 DEF Scanned
  <2>9. \A h : Alike(h)' = Alike(h)
    BY <1>1 DEF Alike
  <2> QED  BY <2>3, <2>4, <2>5, <2>6, <2>7, <2>8, <2>9 DEF Scanned
<1>8. Listed(proc[p])'
  BY <1>4 DEF Listed
<1>9. ASSUME "offline" \notin env, "no_runner" \notin env  PROVE Shown(proc[p])'
  <2>1. r.op \in {"scan", "regen", "refresh", "watch", "delete"}
    BY <1>3 DEF TypeInv, Sound
  <2> QED  BY <1>2, <2>1 DEF Shown, ScanAhead
<1> QED  BY <1>1, <1>5, <1>6, <1>7, <1>8, <1>9 DEF Good, Told

LEMMA ReportGood ==
  ASSUME TypeInv, NEW p \in Procs, Report(p), Good(proc[p])
  PROVE  Good(proc[p])'
<1> DEFINE r == proc[p]
           s == proc'[p]
<1>1. /\ r.at = "scan" /\ r.todo = {}
      /\ UNCHANGED <<env, games, script, prefixes, vdf, watch, pending, wanted, dropped>>
      /\ \/ /\ reported' = r.list
            /\ known' = {g \in DOMAIN r.list : script[g] # NoScript}
         \/ "offline" \in env /\ UNCHANGED clientVars
  BY DEF Report, fileVars, steamVars, historyVars
<1>2. /\ s.at = "idle" /\ s.op = "none" /\ r.list \in Reports
      /\ r.op \in {"scan", "regen", "refresh", "watch", "delete"}
  BY ReportForm, IdleForm
<1>3. Phase(r) = "scan" /\ ToCome(r) = DOMAIN vdf
  BY <1>1 DEF Phase, Writing, ToCome
<1>4. Phase(proc[p])' = "idle" /\ ToCome(proc[p])' = DOMAIN vdf
  BY <1>1, <1>2 DEF Phase, Writing, ToCome
<1>5. Kept(proc[p])'
  <2>1. ScriptHeld(r) /\ ArgsArrive(r) /\ PrefixArrives(r) /\ KeepsForeign(r)
    BY DEF Good, Kept
  <2>2. ScriptHeld(proc[p])'
    BY <1>1, <1>2, <2>1 DEF ScriptHeld, HasScript
  <2>3. ArgsArrive(proc[p])' /\ PrefixArrives(proc[p])'
    BY <1>1, <1>2, <2>1 DEF ArgsArrive, PrefixArrives
  <2>4. KeepsForeign(proc[p])'
    BY <1>1, <1>2, <1>3, <1>4, <2>1, ForeignStays
  <2> QED  BY <2>2, <2>3, <2>4 DEF Kept
<1>6. ASSUME "offline" \notin env  PROVE NoGhost(proc[p])'
  <2>1. NoGhost(r) /\ known' = {g \in DOMAIN r.list : HasScript(g)}
    BY <1>1, <1>6 DEF Good, HasScript
  <2>2. known' \intersect dropped = {}
    BY <2>1 DEF NoGhost
  <2> QED  BY <1>1, <1>2, <1>3, <1>4, <2>1, <2>2 DEF NoGhost, HasScript
<1>7. ASSUME "offline" \notin env, "no_runner" \notin env  PROVE Told(proc[p])'
  <2>1. Scanned(r) /\ reported' = r.list /\ \A g \in Titles : HasScript(g) => g \in games
    BY <1>1, <1>7 DEF Good, Told, Kept, ScriptHeld
  <2>2. /\ DOMAIN r.list = games
        /\ \A g \in games : r.list[g] = (HasScript(g) \/ Alike(g) \intersect r.seen # {}) /\ (HasScript(g) => g \in DOMAIN vdf)
        /\ r.seen \subseteq DOMAIN vdf
        /\ \A n \in DOMAIN vdf \ r.seen : n \in Titles /\ HasScript(n)
    BY <1>1, <1>3, <2>1 DEF Scanned
  <2>3. Listed(proc[p])'
    BY <1>1, <1>4, <2>1, <2>2 DEF Listed, HasScript
  <2>4. ASSUME NEW g \in games
        PROVE  r.list[g] = (HasScript(g) \/ Alike(g) \intersect DOMAIN vdf # {})
    <3>1. g \in Titles /\ Alike(g) \intersect Titles = {g}
      BY NamesForm DEF TypeInv, TypeOK
    <3>2. \A n \in Alike(g) \intersect DOMAIN vdf : n \in r.seen \/ HasScript(g)
      BY <2>2, <3>1
    <3> QED  BY <2>2, <3>2
  <2>5. r.list = [g \in games |-> HasScript(g) \/ Alike(g) \intersect DOMAIN vdf # {}]
    BY <1>2, <2>2, <2>4, ReportsForm
  <2>6. Shown(proc[p])'
    BY <1>1, <1>4, <2>1, <2>5 DEF Shown, HasScript, Alike
  <2> QED  BY <1>4, <2>3, <2>6 DEF Told, Scanned
<1> QED  BY <1>1, <1>5, <1>6, <1>7 DEF Good

LEMMA RemoveFilesGood ==
  ASSUME TypeInv, NEW p \in Procs, RemoveFiles(p), Good(proc[p])
  PROVE  Good(proc[p])'
<1> DEFINE r == proc[p]
           s == proc'[p]
           g == r.game
<1>1. /\ r.at = "remove" /\ script \in [Titles -> Script] /\ games \subseteq Titles
      /\ UNCHANGED <<env, vdf, watch, known, reported, pending, wanted, dropped>>
  BY DEF RemoveFiles, steamVars, clientVars, historyVars, TypeInv, TypeOK, Script
<1>2. /\ r.op = "delete" /\ g \in Titles /\ Phase(r) = "remove" /\ ToCome(r) = DOMAIN vdf
  BY <1>1, RemoveFilesForm DEF Phase, Writing, ToCome
<1>3. ScriptHeld(r) /\ ArgsArrive(r) /\ PrefixArrives(r) /\ KeepsForeign(r)
  BY DEF Good, Kept
\* However the removal ends, what it leaves of scripts was there.
<1>4. ASSUME script' \in {script, [script EXCEPT ![g] = NoScript]},
             s.at \in {"unlist", "idle"}, s.op \in {"delete", "none"}, s.game = g \/ s.at = "idle",
             games' = games \/ (games' = games \ {g} /\ script'[g] = NoScript),
             prefixes \ {<<g, "title">>} \subseteq prefixes',
             s.at = "unlist" => script'[g] = NoScript
      PROVE  /\ Kept(proc[p])' /\ ("offline" \notin env => NoGhost(proc[p])')
             /\ Phase(proc[p])' = s.at /\ ToCome(proc[p])' = DOMAIN vdf
  <2>1. Phase(proc[p])' = s.at /\ ToCome(proc[p])' = DOMAIN vdf
    BY <1>1, <1>4 DEF Phase, Writing, ToCome
  <2>2. \A h \in Titles : script'[h] = script[h] \/ (h = g /\ script'[h] = NoScript)
    BY <1>1, <1>2, <1>4
  <2>3. ScriptHeld(proc[p])'
    BY <1>1, <1>3, <1>4, <2>2 DEF ScriptHeld, HasScript
  <2>4. ArgsArrive(proc[p])'
    BY <1>1, <1>2, <1>3, <1>4, <2>2 DEF ArgsArrive, NoScript
  <2>5. PrefixArrives(proc[p])'
    <3>1. ASSUME NEW h \in Titles, <<h, "id">> \in prefixes  PROVE <<h, "id">> \in prefixes'
      BY <1>4, <3>1
    <3> QED  BY <1>1, <1>3, <2>2, <3>1 DEF PrefixArrives, NoScript
  <2>6. KeepsForeign(proc[p])'
    BY <1>1, <1>2, <1>3, <1>4, <2>1, ForeignStays
  <2>7. ASSUME "offline" \notin env  PROVE NoGhost(proc[p])'
    <3>1. NoGhost(r) /\ dropped \subseteq Titles
      BY <2>7 DEF Good, TypeInv, TypeOK
    <3> QED  BY <1>1, <1>2, <1>4, <2>1, <2>2, <3>1 DEF NoGhost, HasScript
  <2> QED  BY <2>1, <2>3, <2>4, <2>5, <2>6, <2>7 DEF Kept
<1>5. CASE /\ games' = games \ {g} /\ script' = [script EXCEPT ![g] = NoScript]
           /\ prefixes' = prefixes \ {<<g, "title">>}
           /\ s.at = "unlist" /\ SameBut(r, s)
  <2>1. script'[g] = NoScript
    BY <1>1, <1>2, <1>5
  <2>2. /\ Kept(proc[p])' /\ ("offline" \notin env => NoGhost(proc[p])')
        /\ Phase(proc[p])' = "unlist" /\ ToCome(proc[p])' = DOMAIN vdf
    BY <1>2, <1>4, <1>5, <2>1 DEF SameBut
  <2>3. ASSUME "offline" \notin env, "no_runner" \notin env  PROVE Told(proc[p])'
    <3>1. Listed(r)
      BY <2>3 DEF Good, Told
    <3>2. \A h \in Titles : HasScript(h)' => HasScript(h)
      BY <1>1, <1>2, <1>5, <2>1 DEF HasScript
    <3>3. s.op = "delete"
      BY <1>2, <1>5 DEF SameBut
    <3> QED  BY <1>1, <1>2, <1>5, <2>2, <3>1, <3>2, <3>3 DEF Told, Scanned, Listed, Shown, ScanAhead
  <2> QED  BY <1>1, <2>2, <2>3 DEF Good
<1>6. CASE /\ UNCHANGED <<games, prefixes>> /\ s = Idle
           /\ script' \in {script, [script EXCEPT ![g] = NoScript]}
  <2>1. s.at = "idle" /\ s.op = "none"
    BY <1>6, IdleForm
  <2>2. /\ Kept(proc[p])' /\ ("offline" \notin env => NoGhost(proc[p])')
        /\ Phase(proc[p])' = "idle" /\ ToCome(proc[p])' = DOMAIN vdf
    BY <1>4, <1>6, <2>1
  <2>3. ASSUME "offline" \notin env, "no_runner" \notin env  PROVE Told(proc[p])'
    <3>1. Listed(r) /\ Shown(r)
      BY <2>3 DEF Good, Told
    <3>2. \A h \in Titles : HasScript(h)' => HasScript(h)
      BY <1>1, <1>2, <1>6 DEF HasScript
    <3>3. \A h \in Titles : h # g => (HasScript(h)' <=> HasScript(h))
      BY <1>1, <1>2, <1>6 DEF HasScript
    <3>4. Listed(proc[p])'
      BY <1>1, <1>2, <2>2, <3>1, <3>2 DEF Listed
    <3>5. CASE Scan \in pending
      BY <1>1, <2>2, <3>4, <3>5 DEF Told, Scanned, Shown
    <3>6. CASE Scan \notin pending
      <4>1. HasScript(g) => g \in DOMAIN vdf
        BY <1>2, <3>1, <3>6 DEF Listed
      <4>2. reported = [h \in games |-> HasScript(h) \/ Alike(h) \intersect DOMAIN vdf # {}]
        BY <1>1, <1>2, <3>1, <3>6 DEF Shown, ScanAhead
      <4>3. \A h \in games : (HasScript(h) \/ Alike(h) \intersect DOMAIN vdf # {})
                               <=> (HasScript(h)' \/ Alike(h) \intersect DOMAIN vdf # {})
        BY <1>1, <3>2, <3>3, <4>1, NamesForm
      <4>3a. \A h : Alike(h)' = Alike(h)
        BY <1>1 DEF Alike
      <4>4. reported' = [h \in games' |-> HasScript(h)' \/ Alike(h)' \intersect ToCome(proc[p])' # {}]
        BY <1>1, <1>6, <2>2, <4>2, <4>3, <4>3a
      <4> QED  BY <2>2, <3>4, <4>4 DEF Told, Scanned, Shown
    <3> QED  BY <3>5, <3>6
  <2> QED  BY <1>1, <2>2, <2>3 DEF Good
<1> QED  BY <1>5, <1>6, RemoveFilesForm

LEMMA KeepShortcutGood ==
  ASSUME TypeInv, NEW p \in Procs, KeepShortcut(p), Good(proc[p])
  PROVE  Good(proc[p])'
<1>1. /\ proc[p].at = "unlist"
      /\ UNCHANGED <<env, games, script, prefixes, vdf, watch, known, reported, pending, wanted, dropped>>
  BY DEF KeepShortcut, fileVars, steamVars, clientVars, historyVars
<1>2. ToCome(proc[p]) = DOMAIN vdf
  BY <1>1 DEF Phase, Writing, ToCome
<1>3. "offline" \notin env =>
         /\ dropped' \intersect DOMAIN vdf = {} /\ \A g \in dropped' : ~HasScript(g)
         /\ \A j \in pending : j.op \in {"install", "exe"} => j.game \notin dropped'
  BY <1>1 DEF Good, NoGhost
<1> QED  BY <1>1, <1>2, <1>3, KeepShortcutForm, ScanningGood

LEMMA RemoveShortcutGood ==
  ASSUME TypeInv, NEW p \in Procs, RemoveShortcut(p), Good(proc[p]), NoCommands
  PROVE  Good(proc[p])'
<1> DEFINE r == proc[p]
           s == proc'[p]
           g == r.game
<1>1. /\ r.at = "unlist" /\ dropped' = dropped \union {g}
      /\ UNCHANGED <<env, games, script, prefixes, known, reported, pending, wanted>>
  BY DEF RemoveShortcut, fileVars, clientVars
<1>2. /\ r.op = "delete" /\ g \in Titles /\ Phase(r) = "unlist" /\ ToCome(r) = DOMAIN vdf
  BY <1>1, RemoveShortcutForm DEF Phase, Writing, ToCome
<1>3. \A j \in pending : j.op \notin {"install", "exe"}
  BY DEF NoCommands, Commands
<1>3a. g \in Alike(g) /\ Alike(g) \intersect Titles = {g} /\ ("fold" \notin env => Alike(g) = {g})
       /\ Foreign \notin Titles
  BY <1>2, NamesForm
<1>4. CASE /\ vdf' = <<>> /\ watch' = FALSE
           /\ s.at = "readd" /\ s.op = r.op /\ s.game = g /\ DOMAIN s.list = DOMAIN vdf \ Alike(g)
           /\ \A n \in DOMAIN s.list : s.list[n] = vdf[n]
  <2>1. DOMAIN vdf' = {}
    BY <1>4, EmptyForm
  <2>2. Phase(proc[p])' = "readd" /\ ToCome(proc[p])' = DOMAIN vdf \ Alike(g)
    BY <1>4, <2>1 DEF Phase, Writing, ToCome
  <2>3. Kept(proc[p])'
    <3>1. ScriptHeld(r) /\ ArgsArrive(r) /\ PrefixArrives(r) /\ KeepsForeign(r)
      BY DEF Good, Kept
    <3>2. ScriptHeld(proc[p])'
      BY <1>1, <1>4, <3>1 DEF ScriptHeld, HasScript
    <3>3. ArgsArrive(proc[p])' /\ PrefixArrives(proc[p])'
      BY <1>1, <1>2, <1>4, <3>1 DEF ArgsArrive, PrefixArrives
    <3>4. KeepsForeign(proc[p])'
      <4>1. ASSUME "fold" \notin env
            PROVE  /\ Foreign \in ToCome(proc[p])' /\ InFile(vdf)' /\ InFile(proc[p].list)'
                   /\ ~Writing(proc[p])' /\ ~watch'
        <5>1. Foreign \in DOMAIN vdf \ Alike(g) /\ Intact(vdf[Foreign])
          BY <1>2, <1>3a, <3>1, <4>1 DEF KeepsForeign, InFile
        <5> QED  BY <1>1, <1>4, <2>1, <2>2, <5>1 DEF InFile, Intact, Writing
      <4> QED  BY <1>1, <4>1 DEF KeepsForeign
    <3> QED  BY <3>2, <3>3, <3>4 DEF Kept
  <2>4. ASSUME "offline" \notin env  PROVE NoGhost(proc[p])'
    <3>1. NoGhost(r)
      BY <2>4 DEF Good
    <3> QED  BY <1>1, <1>2, <1>3, <1>3a, <1>4, <2>1, <2>2, <3>1 DEF NoGhost, HasScript
  <2>5. ASSUME "offline" \notin env, "no_runner" \notin env  PROVE Told(proc[p])'
    <3>1. Listed(r) /\ ~HasScript(g)
      BY <1>1, <2>5 DEF Good, Told, NoGhost
    <3>2. Listed(proc[p])'
      BY <1>1, <1>2, <1>3a, <2>2, <3>1 DEF Listed, HasScript
    <3> QED  BY <1>2, <1>4, <2>2, <3>2 DEF Told, Scanned, Shown, ScanAhead
  <2> QED  BY <1>1, <2>3, <2>4, <2>5 DEF Good
<1>5. CASE Alike(g) \intersect DOMAIN vdf = {} /\ UNCHANGED <<vdf, watch>> /\ s = Scanning(r)
  <2>1. "offline" \notin env =>
           /\ dropped' \intersect DOMAIN vdf = {} /\ \A h \in dropped' : ~HasScript(h)
           /\ \A j \in pending : j.op \in {"install", "exe"} => j.game \notin dropped'
    BY <1>1, <1>3, <1>3a, <1>5 DEF Good, NoGhost
  <2> QED  BY <1>1, <1>2, <1>5, <2>1, ScanningGood
<1> QED  BY <1>4, <1>5, RemoveShortcutForm

LEMMA ReaddGood ==
  ASSUME TypeInv, NEW p \in Procs, ReaddShortcut(p), Good(proc[p])
  PROVE  Good(proc[p])'
<1> DEFINE r == proc[p]
           s == proc'[p]
<1>1. /\ r.at = "readd" /\ r.op = "delete"
      /\ UNCHANGED <<env, games, script, prefixes, vdf, watch, known, reported, pending, wanted, dropped>>
  BY ReaddForm DEF ReaddShortcut, fileVars, steamVars, clientVars, historyVars
<1>2. Phase(r) = "readd" /\ ToCome(r) = DOMAIN vdf \union DOMAIN r.list
  BY <1>1 DEF Phase, Writing, ToCome
<1>3. ASSUME NEW n \in DOMAIN r.list,
             s.at = "truncate", s.op = r.op, s.game = r.game, s.next = "readd",
             s.vdf = vdf, s.add.name = n, DOMAIN s.list = DOMAIN r.list \ {n},
             s.add.entry.exe = r.list[n].exe, s.add.entry.icon = r.list[n].icon,
             \A m \in DOMAIN s.list : s.list[m] = r.list[m]
      PROVE  Good(proc[p])'
  <2>1. Phase(proc[p])' = "readd" /\ ToCome(proc[p])' = DOMAIN vdf \union DOMAIN r.list
    BY <1>3 DEF Phase, Writing, ToCome
  <2>2. KeepsForeign(r)
    BY DEF Good, Kept
  <2>3. KeepsForeign(proc[p])'
    BY <1>1, <1>2, <1>3, <2>1, <2>2 DEF KeepsForeign, Writing, InFile, Intact
  <2> QED  BY <1>1, <1>2, <1>3, <2>1, <2>3, RewritingGood
<1>4. CASE DOMAIN r.list = {} /\ s = Scanning(r)
  <2>1. "offline" \notin env =>
           /\ dropped' \intersect DOMAIN vdf = {} /\ \A g \in dropped' : ~HasScript(g)
           /\ \A j \in pending : j.op \in {"install", "exe"} => j.game \notin dropped'
    BY <1>1 DEF Good, NoGhost
  <2> QED  BY <1>1, <1>2, <1>4, <2>1, ScanningGood
<1> QED  BY <1>3, <1>4, ReaddForm

-----------------------------------------------------------------------------
(* One goroutine at a time.                                                *)

LEMMA StepGood ==
  ASSUME TypeInv, NEW p \in Procs, Step(p), Good(proc[p]), NoCommands \/ Begin(p),
         proc[p].at = "idle" => proc[p] = Idle
  PROVE  Good(proc[p])'
<1>1. CASE Begin(p)
  BY <1>1, BeginForm, BeginGood
<1>2. CASE InstallFiles(p) \/ Parse(p) \/ WriteScript(p) \/ MovePrefix(p) \/ RepathScript(p)
  BY <1>2, InstallFilesGood, ParseGood, WriteScriptGood, MovePrefixGood, RepathScriptGood
<1>3. CASE AddShortcut(p) \/ TruncateVdf(p) \/ FillVdf(p) \/ Added(p) \/ SetIcon(p) \/ IconDone(p)
  BY <1>3, AddShortcutGood, TruncateGood, FillGood, AddedGood, SetIconGood, IconDoneGood
<1>4. CASE FixShortcuts(p) \/ ScanGame(p) \/ Report(p) \/ RemoveFiles(p) \/ KeepShortcut(p) \/ ReaddShortcut(p)
  BY <1>4, FixGood, ScanGameGood, ReportGood, RemoveFilesGood, KeepShortcutGood, ReaddGood
<1>5. CASE RemoveShortcut(p) /\ NoCommands
  BY <1>5, RemoveShortcutGood
<1>6. RemoveShortcut(p) => ~Begin(p)
  BY DEF RemoveShortcut, Begin
<1> QED  BY <1>1, <1>2, <1>3, <1>4, <1>5, <1>6 DEF Step

LEMMA ScanningAt == ASSUME TypeInv, NEW p \in Procs PROVE Scanning(proc[p]).at = "scan"
  BY ScanningForm DEF TypeInv, TypeOK

\* A goroutine that goes on leaves the others alone, gives no command, and leaves nothing
\* of itself when it ends.
LEMMA StepLocal ==
  ASSUME TypeInv, NEW p \in Procs, Step(p)
  PROVE  /\ \A q \in Procs \ {p} : proc'[q] = proc[q]
         /\ proc'[p].at = "idle" => proc'[p] = Idle
         /\ proc[p].at = "idle" <=> Begin(p)
         /\ \A j \in pending' : j \in pending \/ j.op \notin Commands
         /\ env' = env
<1>1. ASSUME Begin(p)
      PROVE  /\ proc[p].at = "idle" /\ proc'[p].at # "idle" /\ \A q \in Procs \ {p} : proc'[q] = proc[q]
             /\ pending' \subseteq pending /\ env' = env
  <2>1. PICK j \in pending : /\ pending' = pending \ {j} /\ j.op \in Ops
                             /\ proc'[p].at = Entry(j.op)
    BY <1>1, BeginForm
  <2>2. Entry(j.op) # "idle"
    BY <2>1 DEF Entry, GameOps, DeviceOps, Ops
  <2> QED  BY <1>1, <2>1, <2>2, BeginForm DEF Begin
<1>2. ASSUME ~Begin(p)
      PROVE  proc[p].at # "idle" /\ env' = env /\ \A q \in Procs \ {p} : proc'[q] = proc[q]
  <2>1. CASE InstallFiles(p) \/ Parse(p) \/ MovePrefix(p) \/ RepathScript(p)
    BY Zenon, <2>1 DEF InstallFiles, Parse, MovePrefix, RepathScript, Goto, End, TypeInv
  <2>2. CASE AddShortcut(p) \/ TruncateVdf(p) \/ FillVdf(p) \/ Added(p) \/ SetIcon(p) \/ IconDone(p)
    BY <2>2 DEF AddShortcut, TruncateVdf, FillVdf, Added, SetIcon, IconDone, Goto, End, TypeInv
  <2>3. CASE FixShortcuts(p) \/ ScanGame(p) \/ Report(p)
    BY <2>3 DEF FixShortcuts, ScanGame, Report, Goto, End, TypeInv
  <2>4. CASE RemoveFiles(p) \/ KeepShortcut(p) \/ RemoveShortcut(p) \/ ReaddShortcut(p)
    BY <2>4 DEF RemoveFiles, KeepShortcut, RemoveShortcut, ReaddShortcut, Goto, End, TypeInv
  <2>5. CASE WriteScript(p)
    <3>1. proc[p].at = "write" /\ env' = env /\ (End(p) \/ Goto(p, "parse") \/ Goto(p, "add"))
      BY <2>5, WriteScriptForm DEF WriteScript
    <3> QED  BY <3>1 DEF Goto, End, TypeInv
  <2> QED  BY SMTT(40), <1>2, <2>1, <2>2, <2>3, <2>4, <2>5 DEF Step
<1>3. ASSUME ~Begin(p)
      PROVE  proc'[p].at = "idle" => proc'[p] = Idle
  <2>1. CASE InstallFiles(p) \/ Parse(p) \/ WriteScript(p) \/ MovePrefix(p) \/ RepathScript(p)
    <3>1. Parse(p) => proc'[p].at \in {"parse", "write", "scan"} \/ proc'[p] = Idle
      BY ParseForm, ScanningAt
    <3> QED  BY <2>1, <3>1, InstallFilesForm, WriteScriptForm, MovePrefixForm, RepathScriptForm
  <2>3. CASE AddShortcut(p) \/ SetIcon(p)
    BY <2>3, AddShortcutForm, SetIconForm
  <2>4. CASE TruncateVdf(p) \/ FillVdf(p) \/ Added(p) \/ IconDone(p)
    BY <2>4, TruncateForm, FillForm, AddedForm, IconDoneForm
  <2>5. CASE FixShortcuts(p) \/ ScanGame(p) \/ Report(p)
    <3>1. FixShortcuts(p) => proc'[p].at \in {"fix", "truncate", "scan"}
      BY FixForm, ScanningAt
    <3>2. ScanGame(p) => proc'[p].at \in {"scan", "truncate"}
      BY ScanGameForm
    <3> QED  BY <2>5, <3>1, <3>2, ReportForm
  <2>6. CASE RemoveFiles(p) \/ KeepShortcut(p) \/ RemoveShortcut(p) \/ ReaddShortcut(p)
    BY <2>6, RemoveFilesForm, KeepShortcutForm, RemoveShortcutForm, ReaddForm, ScanningAt
  <2> QED  BY <1>3, <2>1, <2>3, <2>4, <2>5, <2>6 DEF Step
<1>4. ASSUME ~Begin(p), NEW j \in pending', j \notin pending
      PROVE  j.op \notin Commands
  <2>1. CASE UNCHANGED pending
    BY <1>4, <2>1
  <2>2. CASE InstallFiles(p)
    BY <1>4, <2>2, InstallFilesForm, JobForm DEF Commands
  <2>3. CASE Added(p)
    <3>1. Title(proc[p].game) \in Names
      BY <2>3, AddedForm, NamesForm DEF TypeInv, Sound, GameOps
    <3>2. j \in {Scan} \union Artwork({Title(proc[p].game)})
      BY <1>4, <2>3 DEF Added, Spawn
    <3> QED  BY <3>1, <3>2, JobForm DEF Commands
  <2>4. CASE FixShortcuts(p)
    <3>1. PICK g \in Titles : pending' = pending \union Artwork({g})
      BY <1>4, <2>4, FixForm
    <3>2. {g} \in SUBSET Names /\ j \in Artwork({g})
      BY <1>4, <3>1, NamesForm
    <3> QED  BY <3>2, JobForm DEF Commands
  <2>5. \/ UNCHANGED pending \/ InstallFiles(p) \/ Added(p) \/ FixShortcuts(p)
    BY Zenon, <1>4 DEF Step, Parse, WriteScript, MovePrefix, RepathScript, AddShortcut, TruncateVdf, FillVdf,
         SetIcon, IconDone, ScanGame, Report, RemoveFiles, KeepShortcut, RemoveShortcut, ReaddShortcut
  <2> QED  BY <2>1, <2>2, <2>3, <2>4, <2>5
<1> QED  BY <1>1, <1>2, <1>3, <1>4

\* A goroutine that runs while no other does keeps DeviceInv.
LEMMA StepKeeps ==
  ASSUME DeviceInv, TypeInv', Serial, NEW p \in Procs, Step(p)
  PROVE  DeviceInv'
<1>1. TypeInv /\ OneRuns /\ CommandsAlone /\ \A q \in Procs : Lone(q) => Good(proc[q])
  BY DEF DeviceInv
<1>2. /\ \A q \in Procs \ {p} : proc'[q] = proc[q]
      /\ proc'[p].at = "idle" => proc'[p] = Idle
      /\ proc[p].at = "idle" <=> Begin(p)
      /\ \A j \in pending' : j \in pending \/ j.op \notin Commands
      /\ env' = env
  BY <1>1, StepLocal
<1>3. Lone(p)
  <2>1. CASE Begin(p)
    BY <1>1, <2>1, BeginForm DEF Lone, Serial
  <2>2. CASE ~Begin(p)
    BY <1>1, <1>2, <2>2 DEF Lone, OneRuns
  <2> QED  BY <2>1, <2>2
<1>4. \A q \in Procs \ {p} : proc[q] = Idle /\ proc'[q] = Idle
  BY <1>1, <1>2, <1>3 DEF Lone, OneRuns
<1>5. NoCommands'
  <2>1. CASE Begin(p)
    <3>1. PICK j \in pending : pending' = pending \ {j}
      BY <1>1, <2>1, BeginForm
    <3> QED  BY <1>1, <3>1 DEF NoCommands, CommandsAlone
  <2>2. CASE ~Begin(p)
    BY <1>1, <1>2, <2>2 DEF NoCommands, CommandsAlone
  <2> QED  BY <2>1, <2>2
<1>6. NoCommands \/ Begin(p)
  BY <1>1, <1>2 DEF NoCommands, CommandsAlone
<1>7. proc[p].at = "idle" => proc[p] = Idle
  BY <1>1 DEF OneRuns
<1>8. Good(proc[p])'
  BY <1>1, <1>3, <1>6, <1>7, StepGood
<1>9. OneRuns'
  BY <1>2, <1>4, IdleForm DEF OneRuns
<1>10. CommandsAlone'
  BY <1>5 DEF CommandsAlone, NoCommands
<1>11. ASSUME NEW q \in Procs, Lone(q)'  PROVE Good(proc[q])'
  <2>1. CASE q = p
    BY <1>8, <2>1
  <2>2. CASE q # p
    <3>1. proc'[p] = Idle /\ proc'[q] = Idle
      BY <1>2, <1>4, <1>11, <2>2 DEF Lone
    <3> QED  BY <1>8, <3>1 DEF Good, Kept, ScriptHeld, HasScript, ArgsArrive, PrefixArrives, KeepsForeign, InFile, Intact, Parsed,
                 ToCome, Writing, Phase, NoGhost, Told, Scanned, Listed, Shown, ScanAhead
  <2> QED  BY <2>1, <2>2
<1> QED  BY <1>9, <1>10, <1>11 DEF DeviceInv

\* What is asked of the agent, and a change of shortcuts.vdf that is not its own, while all
\* goroutines rest.
LEMMA RestKeeps ==
  ASSUME DeviceInv, TypeInv', Serial, env' = env, UNCHANGED proc, pending = {},
         \A q \in Procs : proc[q].at = "idle",
         \A j, k \in pending' : j = k,
         \A q \in Procs : proc[q] = Idle /\ Good(proc[q]) => Good(proc[q])'
  PROVE  DeviceInv'
<1>1. OneRuns /\ \A q \in Procs : Lone(q) => Good(proc[q])
  BY DEF DeviceInv
<1>2. \A q \in Procs : proc[q] = Idle /\ Lone(q)
  BY <1>1 DEF OneRuns, Lone
<1>3. \A q \in Procs : Good(proc[q])'
  BY <1>1, <1>2
<1>4. OneRuns' /\ CommandsAlone'
  BY <1>1, <1>2 DEF OneRuns, CommandsAlone
<1> QED  BY <1>3, <1>4 DEF DeviceInv

LEMMA CommandKeeps ==
  ASSUME DeviceInv, TypeInv', Serial, NEW op, NEW g, Command(op, g)
  PROVE  DeviceInv'
<1>1. /\ pending = {} /\ \A q \in Procs : proc[q].at = "idle"
      /\ UNCHANGED <<env, games, script, prefixes, vdf, watch, known, reported, proc, wanted>>
      /\ pending' = {Job(op, g)}
      /\ dropped' = IF op \in {"install", "exe"} THEN dropped \ {g} ELSE dropped
  BY DEF Command, Ready, Quiet, AllIdle, Serial, Spawn, fileVars, steamVars, clientVars
<1>2. Job(op, g).op = op /\ Job(op, g).game = g
  BY JobForm
<1>3. ASSUME NEW q \in Procs, proc[q] = Idle, Good(proc[q])  PROVE Good(proc[q])'
  <2>1. /\ Phase(proc[q]) = "idle" /\ ToCome(proc[q]) = DOMAIN vdf /\ proc[q].op = "none" /\ proc[q].at = "idle"
        /\ Phase(proc[q])' = "idle" /\ ToCome(proc[q])' = DOMAIN vdf
        /\ proc'[q].op = "none" /\ proc'[q].at = "idle"
    BY <1>1, <1>3, IdleForm DEF Phase, Writing, ToCome
  <2>2. Kept(proc[q])'
    <3>1. ScriptHeld(proc[q]) /\ ArgsArrive(proc[q]) /\ PrefixArrives(proc[q]) /\ KeepsForeign(proc[q])
      BY <1>3 DEF Good, Kept
    <3>2. ScriptHeld(proc[q])' /\ ArgsArrive(proc[q])'
      BY <1>1, <2>1, <3>1 DEF ScriptHeld, HasScript, ArgsArrive
    <3>3. PrefixArrives(proc[q])' /\ KeepsForeign(proc[q])'
      BY <1>1, <2>1, <3>1, ForeignStays DEF PrefixArrives
    <3> QED  BY <3>2, <3>3 DEF Kept
  <2>3. ASSUME "offline" \notin env  PROVE NoGhost(proc[q])'
    <3>1. NoGhost(proc[q]) /\ dropped' \subseteq dropped
      BY <1>1, <1>3, <2>3 DEF Good
    <3> QED  BY <1>1, <1>2, <2>1, <3>1 DEF NoGhost, HasScript
  <2>4. ASSUME "offline" \notin env, "no_runner" \notin env  PROVE Told(proc[q])'
    <3>1. Told(proc[q])
      BY <1>3, <2>4 DEF Good
    <3> QED  BY <1>1, <2>1, <3>1 DEF Told, Scanned, Listed, Shown, ScanAhead, HasScript, Alike
  <2> QED  BY <1>1, <2>2, <2>3, <2>4 DEF Good
<1> QED  BY <1>1, <1>3, RestKeeps

LEMMA SetLaunchArgsKeeps ==
  ASSUME DeviceInv, TypeInv', Serial, NEW g \in Titles, NEW a \in Args, SetLaunchArgs(g, a)
  PROVE  DeviceInv'
<1>1. /\ pending = {} /\ \A q \in Procs : proc[q].at = "idle"
      /\ UNCHANGED <<env, games, script, prefixes, vdf, watch, known, reported, proc, dropped>>
      /\ pending' = {Job("args", g)}
      /\ wanted' = [wanted EXCEPT ![g] = a]
  BY DEF SetLaunchArgs, Ready, Quiet, AllIdle, Serial, Spawn, fileVars, steamVars, clientVars
<1>2. Job("args", g).op = "args" /\ wanted \in [Titles -> Args]
  BY JobForm DEF DeviceInv, TypeInv, TypeOK
<1>3. ASSUME NEW q \in Procs, proc[q] = Idle, Good(proc[q])  PROVE Good(proc[q])'
  <2>1. /\ Phase(proc[q]) = "idle" /\ ToCome(proc[q]) = DOMAIN vdf /\ proc[q].op = "none" /\ proc[q].at = "idle"
        /\ Phase(proc[q])' = "idle" /\ ToCome(proc[q])' = DOMAIN vdf
        /\ proc'[q].op = "none" /\ proc'[q].at = "idle"
    BY <1>1, <1>3, IdleForm DEF Phase, Writing, ToCome
  <2>2. Kept(proc[q])'
    <3>1. ScriptHeld(proc[q]) /\ ArgsArrive(proc[q]) /\ PrefixArrives(proc[q]) /\ KeepsForeign(proc[q])
      BY <1>3 DEF Good, Kept
    <3>2. ScriptHeld(proc[q])'
      BY <1>1, <2>1, <3>1 DEF ScriptHeld, HasScript
    <3>3. ArgsArrive(proc[q])'
      BY <1>1, <1>2, <2>1, <3>1 DEF ArgsArrive
    <3>4. PrefixArrives(proc[q])' /\ KeepsForeign(proc[q])'
      BY <1>1, <2>1, <3>1, ForeignStays DEF PrefixArrives
    <3> QED  BY <3>2, <3>3, <3>4 DEF Kept
  <2>3. ASSUME "offline" \notin env  PROVE NoGhost(proc[q])'
    <3>1. NoGhost(proc[q])
      BY <1>3, <2>3 DEF Good
    <3> QED  BY <1>1, <1>2, <2>1, <3>1 DEF NoGhost, HasScript
  <2>4. ASSUME "offline" \notin env, "no_runner" \notin env  PROVE Told(proc[q])'
    <3>1. Told(proc[q])
      BY <1>3, <2>4 DEF Good
    <3> QED  BY <1>1, <2>1, <3>1 DEF Told, Scanned, Listed, Shown, ScanAhead, HasScript, Alike
  <2> QED  BY <1>1, <2>2, <2>3, <2>4 DEF Good
<1> QED  BY <1>1, <1>3, RestKeeps

\* The watch, and the cloud, change neither the games nor which shortcuts there are.
LEMMA WatchKeeps ==
  ASSUME DeviceInv, TypeInv', Serial, WatchFires \/ Cloud
  PROVE  DeviceInv'
<1>1. /\ pending = {} /\ \A q \in Procs : proc[q].at = "idle"
      /\ UNCHANGED <<env, games, script, prefixes, watch, known, reported, proc, wanted, dropped>>
      /\ pending' \in {{}, {Job("watch", None)}}
  BY DEF WatchFires, Cloud, Ready, Quiet, AllIdle, Serial, Spawn, fileVars, clientVars, historyVars
<1>2. DOMAIN vdf' = DOMAIN vdf /\ (Foreign \in DOMAIN vdf => vdf'[Foreign] = vdf[Foreign])
  BY CloudForm DEF WatchFires, DeviceInv
<1>3. \A j \in pending' : j.op = "watch"
  BY <1>1, JobForm
<1>4. ASSUME NEW q \in Procs, proc[q] = Idle, Good(proc[q])  PROVE Good(proc[q])'
  <2>1. /\ Phase(proc[q]) = "idle" /\ ToCome(proc[q]) = DOMAIN vdf /\ proc[q].op = "none" /\ proc[q].at = "idle"
        /\ Phase(proc[q])' = "idle" /\ ToCome(proc[q])' = DOMAIN vdf
        /\ proc'[q].op = "none" /\ proc'[q].at = "idle"
    BY <1>1, <1>2, <1>4, IdleForm DEF Phase, Writing, ToCome
  <2>2. Kept(proc[q])'
    <3>1. ScriptHeld(proc[q]) /\ ArgsArrive(proc[q]) /\ PrefixArrives(proc[q]) /\ KeepsForeign(proc[q])
      BY <1>4 DEF Good, Kept
    <3>2. ScriptHeld(proc[q])' /\ ArgsArrive(proc[q])'
      BY <1>1, <2>1, <3>1 DEF ScriptHeld, HasScript, ArgsArrive
    <3>3. PrefixArrives(proc[q])' /\ KeepsForeign(proc[q])'
      BY <1>1, <1>2, <2>1, <3>1 DEF PrefixArrives, KeepsForeign, InFile, Intact, Writing
    <3> QED  BY <3>2, <3>3 DEF Kept
  <2>3. ASSUME "offline" \notin env  PROVE NoGhost(proc[q])'
    <3>1. NoGhost(proc[q])
      BY <1>4, <2>3 DEF Good
    <3> QED  BY <1>1, <1>2, <1>3, <2>1, <3>1 DEF NoGhost, HasScript
  <2>4. ASSUME "offline" \notin env, "no_runner" \notin env  PROVE Told(proc[q])'
    <3>1. Told(proc[q])
      BY <1>4, <2>4 DEF Good
    <3> QED  BY <1>1, <2>1, <3>1 DEF Told, Scanned, Listed, Shown, ScanAhead, HasScript, Alike
  <2> QED  BY <1>1, <2>2, <2>3, <2>4 DEF Good
<1> QED  BY <1>1, <1>4, RestKeeps

LEMMA DeviceInit == Init => DeviceInv
<1> SUFFICES ASSUME Init PROVE DeviceInv
  OBVIOUS
<1>1. TypeInv
  BY TypeInit
<1>2. \A q \in Procs : proc[q] = Idle
  BY DEF Init
<1>3. /\ Phase(Idle) = "idle" /\ ToCome(Idle) = {Foreign} /\ Idle.op = "none" /\ Idle.at = "idle"
      /\ Scan \in pending
  BY IdleForm DEF Phase, Writing, ToCome, Init
<1>4. \A g \in Titles : /\ HasScript(g) <=> g \in games
                        /\ script[g].args \in {None, wanted[g]}
                        /\ script[g].prefix = "id" => <<g, "id">> \in prefixes
  BY DEF Init, HasScript, OldScript, NoScript
<1>5. Kept(Idle)
  <2>1. InFile(vdf) /\ ~Writing(Idle)
    BY <1>3, IdleFacts DEF InFile, Intact, Init, Others
  <2> QED  BY <1>3, <1>4, <2>1 DEF Kept, ScriptHeld, ArgsArrive, PrefixArrives, KeepsForeign
<1>6. NoGhost(Idle)
  BY <1>3 DEF NoGhost, Init
<1>7. Told(Idle)
  BY <1>3 DEF Told, Scanned, Listed, Shown
<1>8. OneRuns /\ CommandsAlone
  BY <1>2, IdleForm, JobForm DEF OneRuns, CommandsAlone, Init, Commands
<1> QED  BY <1>1, <1>2, <1>5, <1>6, <1>7, <1>8 DEF DeviceInv, Good

LEMMA DeviceNext ==
  ASSUME DeviceInv, [Next]_vars
  PROVE  DeviceInv'
<1>1. TypeInv' /\ TypeInv
  BY SMTT(40), TypeNext DEF DeviceInv
<1>2. CASE UNCHANGED vars
  <2>1. UNCHANGED <<env, games, script, prefixes, vdf, watch, known, reported, pending, proc, wanted, dropped>>
    BY <1>2 DEF vars, fileVars, steamVars, clientVars, historyVars
  <2>2. /\ Serial' = Serial /\ (OneRuns => OneRuns') /\ (CommandsAlone => CommandsAlone')
        /\ \A p \in Procs : Lone(p)' => Lone(p)
    BY <2>1 DEF Serial, OneRuns, CommandsAlone, Lone
  <2>3. ASSUME NEW p \in Procs, Good(proc[p])  PROVE Good(proc[p])'
    <3>1. Kept(proc[p])'
      BY <2>1, <2>3
      DEF Good, Kept, ScriptHeld, HasScript, ArgsArrive, PrefixArrives, KeepsForeign, InFile, Intact,
          Parsed, ToCome, Writing, Phase
    <3>2. ASSUME "offline" \notin env  PROVE NoGhost(proc[p])'
      BY <2>1, <2>3, <3>2 DEF Good, NoGhost, HasScript, ToCome, Writing, Phase
    <3>3. ASSUME "offline" \notin env, "no_runner" \notin env  PROVE Told(proc[p])'
      BY <2>1, <2>3, <3>3
      DEF Good, Told, Scanned, Listed, Shown, ScanAhead, HasScript, Alike, ToCome, Writing, Phase
    <3> QED  BY <2>1, <3>1, <3>2, <3>3 DEF Good
  <2> QED  BY <1>1, <2>2, <2>3 DEF DeviceInv
<1>3. CASE Next
  <2>1. env' = env
    BY <1>1, <1>3, StepLocal DEF Next, Disturb, Command, SetLaunchArgs, Cloud, Restart, WatchFires
  <2>2. CASE ~Serial
    BY <1>1, <2>1, <2>2 DEF DeviceInv, Serial
  <2>3. CASE Serial
    <3>1. CASE Disturb
      <4>1. ~Restart
        BY <2>3 DEF Restart, Serial
      <4> QED  BY <1>1, <2>3, <3>1, <4>1, DisturbForm, CommandKeeps, SetLaunchArgsKeeps, WatchKeeps
    <3>2. CASE WatchFires
      BY <1>1, <2>3, <3>2, WatchKeeps
    <3>3. CASE \E p \in Procs : Step(p)
      BY <1>1, <2>3, <3>3, StepKeeps
    <3> QED  BY <1>3, <3>1, <3>2, <3>3 DEF Next
  <2> QED  BY <2>2, <2>3
<1> QED  BY <1>2, <1>3

LEMMA DeviceCorrect == Spec => []DeviceInv
  BY DeviceInit, DeviceNext, PTL DEF Spec

\* When all rests, Good speaks of what is there and no more.
LEMMA AtRest ==
  ASSUME DeviceInv, Serial, Quiet
  PROVE  Good(Idle) /\ pending = {} /\ ToCome(Idle) = DOMAIN vdf
<1>1. PICK p \in Procs : TRUE
  BY DeviceAssumption
<1>2. proc[p] = Idle /\ Lone(p) /\ pending = {}
  BY DEF DeviceInv, OneRuns, Lone, Quiet, AllIdle
<1> QED  BY <1>2, IdleFacts DEF DeviceInv

\* Only InstallFiles, which has the arguments, and the rewritings write a script, and a
\* rewriting writes what it has read of the script that is there.
LEMMA StepKeepsArguments ==
  ASSUME DeviceInv, Serial, "windows" \notin env, NEW p \in Procs, Step(p), NEW g \in Titles,
         script[g].args # None, script'[g] # NoScript
  PROVE  script'[g].args # None
<1>1. TypeInv /\ script \in [Titles -> Script]
  BY DEF DeviceInv, TypeInv, TypeOK, Script
<1>2. CASE UNCHANGED script
  BY <1>2
<1>3. CASE InstallFiles(p)
  <2>1. proc[p].game \in Titles
    BY <1>1, <1>3, InstallFilesForm
  <2>2. CASE UNCHANGED script
    BY <2>2
  <2>3. ASSUME NEW n \in Script, n.args # None, CreateRunScript(proc[p].game, n)
        PROVE  script'[g].args # None
    <3>1. /\ \A h \in Titles \ {proc[p].game} : script'[h] = script[h]
          /\ script' = script \/ script'[proc[p].game].args = n.args
      BY <1>1, <2>1, <2>3, CreateForm
    <3> QED  BY <2>3, <3>1
  <2> QED  BY <1>1, <1>3, <2>2, <2>3, InstallFilesForm
<1>4. CASE RepathScript(p)
  BY <1>1, <1>4, RepathScriptForm
<1>5. CASE RemoveFiles(p)
  BY <1>1, <1>5, RemoveFilesForm
<1>6. CASE WriteScript(p)
  <2> DEFINE r == proc[p]
             n == Rewritten(r.op, r.game, r.script)
  <2>1. /\ r.at = "write" /\ r.game \in Titles /\ r.op \in {"exe", "args", "regen"}
        /\ r.script \in Script /\ CreateRunScript(r.game, n)
    BY <1>1, <1>6, WriteScriptForm DEF WriteScript
  <2>2. Good(r)
    BY <2>1 DEF DeviceInv, OneRuns, Lone
  <2>3. r.script = script[r.game]
    BY <1>1, <2>1, <2>2, ParsedForm DEF Good, Kept, ScriptHeld
  <2>4. /\ n \in Script
        /\ script[r.game] # NoScript /\ script[r.game].args # None => n.args # None
    BY <1>1, <2>1, <2>3, RewrittenForm
  <2>5. script[g] # NoScript
    BY DEF NoScript
  <2> HIDE DEF n
  <2>6. /\ "no_runner" \in env => script' = script
        /\ "no_runner" \notin env => script'[r.game].args = n.args
        /\ \A h \in Titles \ {r.game} : script'[h] = script[h]
    BY <1>1, <2>1, <2>4, CreateForm
  <2> QED  BY <2>4, <2>5, <2>6
<1>7. UNCHANGED script \/ InstallFiles(p) \/ RepathScript(p) \/ RemoveFiles(p) \/ WriteScript(p)
  BY Zenon DEF Step, Begin, Parse, MovePrefix, AddShortcut, TruncateVdf, FillVdf, Added, SetIcon,
       IconDone, FixShortcuts, ScanGame, Report, KeepShortcut, RemoveShortcut, ReaddShortcut, fileVars
<1> QED  BY <1>2, <1>3, <1>4, <1>5, <1>6, <1>7

\* Launch arguments, prefixes and what is known of foreign shortcuts survive whatever
\* rewrites the files, if goroutines run one after the other.
THEOREM NothingIsLost == Spec => NothingLost
<1>1. DeviceInv => SettingsKept /\ ScriptFindsPrefix /\ ForeignKept
  <2>1. ASSUME DeviceInv, Serial, Quiet
        PROVE  /\ env \intersect {"windows", "no_runner"} = {} =>
                    \A g \in Titles : script[g].args \in {None, wanted[g]}
               /\ \A g \in Titles : script[g].prefix = "id" => <<g, "id">> \in prefixes
               /\ "fold" \notin env => Foreign \in DOMAIN vdf /\ Intact(vdf[Foreign])
    BY <2>1, AtRest, IdleFacts
    DEF Good, Kept, ArgsArrive, PrefixArrives, KeepsForeign, InFile
  <2> QED  BY <2>1 DEF SettingsKept, ScriptFindsPrefix, ForeignKept, Intact
<1>2. DeviceInv /\ [Next]_vars => [ArgumentsStay]_vars
  <2>1. SUFFICES ASSUME DeviceInv, Next, Serial, "windows" \notin env, NEW g \in Titles,
                        script[g].args # None, script'[g] # NoScript
                 PROVE  script'[g].args # None
    BY DEF ArgumentsStay
  <2>2. CASE \E p \in Procs : Step(p)
    BY <2>1, <2>2, StepKeepsArguments
  <2>3. CASE Disturb \/ WatchFires
    BY <2>1, <2>3 DEF Disturb, Command, SetLaunchArgs, Cloud, Restart, WatchFires, fileVars
  <2> QED  BY <2>1, <2>2, <2>3 DEF Next
<1> QED  BY <1>1, <1>2, DeviceCorrect, PTL DEF NothingLost, Spec

\* A deleted game's shortcut stays away.
THEOREM NoGhosts == Spec => []NoGhostShortcut
<1>1. DeviceInv => NoGhostShortcut
  <2>1. ASSUME DeviceInv, Serial, Quiet, "offline" \notin env
        PROVE  dropped \intersect DOMAIN vdf = {}
    BY <2>1, AtRest DEF Good, NoGhost
  <2> QED  BY <2>1 DEF NoGhostShortcut
<1> QED  BY <1>1, DeviceCorrect, PTL

\* The server shows what is on the device once everything has run.
THEOREM ServerIsTold == Spec => []ServerShowsDevice
<1>1. DeviceInv => ServerShowsDevice
  <2>1. ASSUME DeviceInv, Serial, Quiet, "offline" \notin env, "no_runner" \notin env
        PROVE  reported = [g \in games |-> script[g] # NoScript \/ Alike(g) \intersect DOMAIN vdf # {}]
    BY <2>1, AtRest, IdleFacts DEF Good, Told, Shown, HasScript
  <2> QED  BY <2>1 DEF ServerShowsDevice
<1> QED  BY <1>1, DeviceCorrect, PTL
=============================================================================
