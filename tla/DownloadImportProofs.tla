----------------------- MODULE DownloadImportProofs -----------------------
(***************************************************************************)
(* What DownloadImport keeps for every set of downloads, files, goroutines *)
(* and environments: forms; that the monitor imports a download once and   *)
(* so empties no file that is seeded, where names are its own and marks    *)
(* are not lost; that a directory is listed whole, but for what could not  *)
(* be copied; and that a download goes to the game it was started from.    *)
(***************************************************************************)
EXTENDS DownloadImport, FiniteSetTheorems, TLAPS

-----------------------------------------------------------------------------
(* The invariants, each by the name of what it is for.                     *)

Steps == {"idle", "start", "name", "copy", "match", "save", "version", "finish"}

\* The fields of an import and the columns of a row.
ImportRecord ==
  [at : Steps, from : Downloads \union {None}, id : Downloads \union {None},
   name : Names \union {None}, igdb : Names \union {None}, left : SUBSET Files,
   good : BOOLEAN, game : Ids \union {NoId}]
GameRow ==
  [title : Names, igdb : Names \union {None}, path : Names \union {None},
   version : Names \union {None}]

Running(p) == proc[p].at # "idle"

TypeInv ==
  /\ TypeOK
  /\ proc \in [Imports -> ImportRecord] /\ rows \in [DOMAIN rows -> GameRow]
  /\ \A p \in Imports : Running(p) =>
       proc[p].from \in Downloads /\ proc[p].name \in Names /\ proc[p].id \in {None, proc[p].from}

Ended(d) == torrent[d] \in {"completed", "removed"}

\* A file of the download d is in the directory of the name n, where each has a name of
\* its own.
Has(L, n, d, f) == \E o \in Places : <<n, d, f, o>> \in L

\* Only downloads that have ended are polled, imported, or have files; the monitor
\* starts one import of each.
OnceInv ==
  /\ \A d \in polled \union processed : Ended(d)
  /\ polled \cap processed = {}
  /\ \A p \in Imports : Running(p) =>
       Ended(proc[p].from) /\ (proc[p].id # None => proc[p].id \in processed)
  /\ \A p, q \in Imports :
       Running(p) /\ Running(q) /\ proc[p].id = proc[q].id /\ proc[p].id # None => p = q
  /\ \A d \in Downloads : data[d] # {} => Ended(d)
  /\ \A d \in Downloads : ~Directory(d) => \A f, g \in data[d] : f = g
  /\ OwnNames => \A t \in library : t[2] \in Downloads /\ Ended(t[2])

\* Without imports by hand, what is in the library was brought by the import of its
\* download, and is not brought again.
Seeding == Unattended /\ OwnNames /\ Remembered

SeedInv ==
  Seeding =>
    /\ \A p \in Imports : Running(p) => proc[p].id # None
    /\ \A t \in library : t[2] \in processed
    /\ \A p \in Imports : proc[p].at \in {"start", "name"} =>
         \A t \in library : t[2] # proc[p].from
    /\ \A p \in Imports : proc[p].at = "copy" =>
         \A t \in library : t[2] = proc[p].from => t[3] \notin proc[p].left
    /\ SourceSurvives

\* It is there, or could not be brought.
There(n, d, f) == Has(library, n, d, f) \/ <<d, f>> \in failed

\* A file of an import is to be copied, or was; of a download that is one file, only a
\* game's.
Copied(p) ==
  \A f \in data[proc[p].from] :
    IF Directory(proc[p].from) \/ f \in GameFiles
    THEN f \in proc[p].left \/ There(proc[p].name, proc[p].from, f)
    ELSE ~proc[p].good

Brought(p) == \A f \in data[proc[p].from] : There(proc[p].name, proc[p].from, f)

Copying(p, t) == proc[p].at = "copy" /\ proc[p].from = t[2] /\ proc[p].name = t[1]

\* Where imports by hand are served one after the other, a directory that is in the
\* library is there with all its files that could be copied, or is being copied.
WholeInv ==
  /\ \A p \in Imports :
       /\ proc[p].at \in {"start", "name"} => ~proc[p].good
       /\ proc[p].at = "copy" => Copied(p)
       /\ proc[p].at \in {"match", "save"} => Brought(p)
  /\ "manual" \in env =>
       /\ \A p, q \in Imports :
            proc[p].at \notin {"idle", "start"} /\ proc[q].at \notin {"idle", "start"} => p = q
       /\ \A t \in library :
            \/ ~Directory(t[2])
            \/ \E p \in Imports : Copying(p, t)
            \/ \A f \in data[t[2]] : There(t[1], t[2], f)

\* The game a download was started from is in its request, then in its link, until its
\* import has taken it.
ClickInv ==
  /\ \A d \in Downloads :
       /\ torrent[d] = "completed" \/ d \in polled \union processed => request[d] = NoId
       /\ torrent[d] = "absent" => request[d] = NoId /\ links[d] = NoId /\ wanted[d] = NoId
       /\ request[d] # NoId => wanted[d] = request[d] /\ links[d] = NoId
       /\ request[d] = NoId /\ d \notin processed => links[d] = wanted[d]
       /\ wanted[d] <= lastId
  /\ \A p \in Imports : proc[p].id # None =>
       /\ proc[p].at \in {"start", "name", "copy", "match"} =>
            links[proc[p].id] = wanted[proc[p].id]
       /\ proc[p].at = "save" /\ wanted[proc[p].id] \in DOMAIN rows =>
            proc[p].game = wanted[proc[p].id]

-----------------------------------------------------------------------------
(* Records: what an update of a field makes of an import, and of the others. *)

\* A column of a row is set: the other rows, and the form of all, are kept.
LEMMA RowsKept ==
  ASSUME NEW column \in {"path", "version"}, NEW g, NEW v \in Names \union {None},
         rows \in [DOMAIN rows -> GameRow]
  PROVE  /\ DOMAIN SetColumn(rows, g, column, v) = DOMAIN rows
         /\ SetColumn(rows, g, column, v) \in [DOMAIN rows -> GameRow]
  BY DEF SetColumn, GameRow

\* The server starts with the forms TypeInv says.
LEMMA TypeInit == Init => TypeInv
<1> SUFFICES ASSUME Init PROVE TypeInv
  OBVIOUS
<1> USE DEF Init
<1>1. Idle \in ImportRecord
  BY DEF Idle, ImportRecord, Steps, NoId
<1>2. proc \in [Imports -> ImportRecord]
  BY <1>1
<1>3. \A p \in Imports : ~Running(p)
  BY DEF Running, Idle
<1>4. rows = [i \in {1} |-> Row(Other, Other, None, None)]
  OBVIOUS
<1>5. rows \in [DOMAIN rows -> GameRow]
  <2>1. Row(Other, Other, None, None) \in GameRow
    BY DEF Row, GameRow, Names
  <2> QED BY <1>4, <2>1
<1>6. TypeOK
  BY <1>1, <1>2, <1>4, ImportAssumption
    DEF TypeOK, ImportRecord, Steps, Ids, NoId, NoLinks
<1> QED BY <1>2, <1>3, <1>5, <1>6 DEF TypeInv

\* An import by its fields.
ImportOf(at, from, id, name, igdb, left, good, game) ==
  [at |-> at, from |-> from, id |-> id, name |-> name, igdb |-> igdb, left |-> left,
   good |-> good, game |-> game]

\* An import is what its fields are, and an update of one field leaves the others.
LEMMA FieldsOf ==
  ASSUME NEW x \in ImportRecord
  PROVE  x = ImportOf(x.at, x.from, x.id, x.name, x.igdb, x.left, x.good, x.game)
  BY DEF ImportRecord, ImportOf

\* What starts an import, and what a step makes of its fields.
LEMMA StartFields ==
  ASSUME NEW w \in ImportRecord, NEW at, NEW d, NEW i, NEW n
  PROVE  [w EXCEPT !.at = at, !.from = d, !.id = i, !.name = n] =
           ImportOf(at, d, i, n, w.igdb, w.left, w.good, w.game)
<1> DEFINE x == [w EXCEPT !.at = at]
           y == [x EXCEPT !.from = d]
           z == [y EXCEPT !.id = i]
<1>1. [w EXCEPT !.at = at, !.from = d, !.id = i, !.name = n] = [z EXCEPT !.name = n]
  OBVIOUS
<1>2. x = ImportOf(at, w.from, w.id, w.name, w.igdb, w.left, w.good, w.game)
  BY FieldsOf DEF ImportOf
<1> HIDE DEF x
<1>3. y = ImportOf(at, d, w.id, w.name, w.igdb, w.left, w.good, w.game)
  BY <1>2 DEF ImportOf
<1> HIDE DEF y
<1>4. z = ImportOf(at, d, i, w.name, w.igdb, w.left, w.good, w.game)
  BY <1>3 DEF ImportOf
<1> HIDE DEF z
<1> QED BY <1>1, <1>4 DEF ImportOf

\* ... of an import that has looked at a file,
LEMMA CopyFields ==
  ASSUME NEW w \in ImportRecord, NEW f, NEW b
  PROVE  [w EXCEPT !.left = @ \ {f}, !.good = @ \/ b] =
           ImportOf(w.at, w.from, w.id, w.name, w.igdb, w.left \ {f}, w.good \/ b, w.game)
<1> DEFINE l == w.left \ {f}
           g == w.good \/ b
           x == [w EXCEPT !.left = l]
<1>1. [w EXCEPT !.left = @ \ {f}, !.good = @ \/ b] = [x EXCEPT !.good = g]
  BY DEF ImportRecord
<1> HIDE DEF l, g
<1>2. x = ImportOf(w.at, w.from, w.id, w.name, w.igdb, l, w.good, w.game)
  BY FieldsOf DEF ImportOf
<1> HIDE DEF x
<1>3. [x EXCEPT !.good = g] = ImportOf(w.at, w.from, w.id, w.name, w.igdb, l, g, w.game)
  BY <1>2 DEF ImportOf
<1> QED BY <1>1, <1>3 DEF l, g

\* ... and of one that has its game.
LEMMA GameFields ==
  ASSUME NEW w \in ImportRecord, NEW g, NEW at
  PROVE  [w EXCEPT !.game = g, !.at = at] =
           ImportOf(at, w.from, w.id, w.name, w.igdb, w.left, w.good, g)
<1> DEFINE x == [w EXCEPT !.game = g]
<1>1. [w EXCEPT !.game = g, !.at = at] = [x EXCEPT !.at = at]
  OBVIOUS
<1>2. x = ImportOf(w.at, w.from, w.id, w.name, w.igdb, w.left, w.good, g)
  BY FieldsOf DEF ImportOf
<1> HIDE DEF x
<1> QED BY <1>1, <1>2 DEF ImportOf
\* An import that starts.
LEMMA NewImport ==
  /\ Idle \in ImportRecord
  /\ \A d, n, i : Process(d, i, n) = ImportOf("start", d, i, n, None, {}, FALSE, NoId)
<1>1. Idle \in ImportRecord
  BY DEF Idle, ImportRecord, Steps, NoId
<1>2. ASSUME NEW d, NEW n, NEW i
      PROVE  Process(d, i, n) = ImportOf("start", d, i, n, None, {}, FALSE, NoId)
  <2>1. Idle.igdb = None /\ Idle.left = {} /\ Idle.good = FALSE /\ Idle.game = NoId
    BY DEF Idle
  <2>2. Process(d, i, n) = ImportOf("start", d, i, n, Idle.igdb, Idle.left, Idle.good, Idle.game)
    BY <1>1, StartFields DEF Process
  <2> QED BY <2>1, <2>2
<1> QED BY <1>1, <1>2

\* The records of goroutines after one of them has changed its own.
OneProc(p, r) ==
  /\ proc' \in [Imports -> ImportRecord]
  /\ proc'[p] = r /\ \A q \in Imports : q # p => proc'[q] = proc[q]
  /\ \A q \in Imports : Running(q)' =>
       /\ proc'[q].from \in Downloads /\ proc'[q].name \in Names
       /\ proc'[q].id \in {None, proc'[q].from}

\* A step that gives one goroutine a record of the right form changes no other.
LEMMA OneProcIs ==
  ASSUME TypeInv, NEW p \in Imports, NEW r \in ImportRecord, proc' = [proc EXCEPT ![p] = r],
         r.at # "idle" => r.from \in Downloads /\ r.name \in Names /\ r.id \in {None, r.from}
  PROVE  OneProc(p, r)
<1>1. /\ proc' \in [Imports -> ImportRecord]
      /\ \A q \in Imports : proc'[q] = IF q = p THEN r ELSE proc[q]
  BY DEF TypeInv
<1> QED BY <1>1 DEF OneProc, TypeInv, Running

\* The fields of an import.
LEMMA Fields ==
  ASSUME TypeInv, NEW p \in Imports
  PROVE  /\ proc[p] \in ImportRecord
         /\ proc[p].at \in Steps /\ proc[p].igdb \in Names \union {None}
         /\ proc[p].left \in SUBSET Files
         /\ proc[p].good \in BOOLEAN /\ proc[p].game \in Ids \union {NoId}
         /\ Running(p) => /\ proc[p].from \in Downloads /\ proc[p].name \in Names
                          /\ proc[p].id \in {None, proc[p].from}
  BY DEF TypeInv, ImportRecord

\* A goroutine that goes on to another step keeps the rest of its import.
LEMMA GoesOn ==
  ASSUME TypeInv, NEW p \in Imports, Running(p), NEW at \in Steps, Goto(p, at)
  PROVE  /\ OneProc(p, proc'[p])
         /\ proc'[p].at = at /\ proc'[p].from = proc[p].from /\ proc'[p].id = proc[p].id
         /\ proc'[p].name = proc[p].name /\ proc'[p].left = proc[p].left
         /\ proc'[p].good = proc[p].good /\ proc'[p].game = proc[p].game
<1> DEFINE r == ImportOf(at, proc[p].from, proc[p].id, proc[p].name, proc[p].igdb,
                         proc[p].left, proc[p].good, proc[p].game)
<1>1. proc' = [proc EXCEPT ![p] = [proc[p] EXCEPT !.at = at]]
  BY DEF Goto, TypeInv
<1>2. [proc[p] EXCEPT !.at = at] = r
  BY Fields, FieldsOf DEF ImportOf
<1>3. r \in ImportRecord
  BY Fields DEF ImportOf, ImportRecord
<1>4. /\ r.at = at /\ r.from = proc[p].from /\ r.id = proc[p].id
      /\ r.name = proc[p].name /\ r.left = proc[p].left
      /\ r.good = proc[p].good /\ r.game = proc[p].game
  BY DEF ImportOf
<1>5. proc' = [proc EXCEPT ![p] = r]
  BY <1>1, <1>2
<1> HIDE DEF r
<1>6. OneProc(p, r)
  BY <1>3, <1>4, <1>5, Fields, OneProcIs
<1> QED BY <1>4, <1>6 DEF OneProc

-----------------------------------------------------------------------------
(* What each step makes of the record of its goroutine; the forms.         *)

\* What each step makes of the record of its goroutine.
LEMMA Started ==
  ASSUME TypeInv, NEW p \in Imports, NEW d \in Downloads, NEW n \in Names, NEW i \in {None, d},
         proc' = [proc EXCEPT ![p] = Process(d, i, n)]
  PROVE  /\ OneProc(p, proc'[p])
         /\ proc'[p].at = "start" /\ proc'[p].from = d /\ proc'[p].id = i /\ ~proc'[p].good
<1> DEFINE r == ImportOf("start", d, i, n, None, {}, FALSE, NoId)
<1>1. r \in ImportRecord
  BY DEF ImportOf, ImportRecord, Steps
<1>2. r.at = "start" /\ r.from = d /\ r.id = i /\ r.name = n /\ r.good = FALSE
  BY DEF ImportOf
<1>3. proc' = [proc EXCEPT ![p] = r]
  BY NewImport
<1> HIDE DEF r
<1>4. OneProc(p, r)
  BY <1>1, <1>2, <1>3, OneProcIs
<1> QED BY <1>2, <1>4 DEF OneProc

\* StartImport takes an idle goroutine for the download, with its id.
LEMMA StartDoes ==
  ASSUME TypeInv, NEW d \in Downloads, StartImport(d)
  PROVE  \E p \in Imports :
           /\ proc[p].at = "idle" /\ OneProc(p, proc'[p])
           /\ proc'[p].at = "start" /\ proc'[p].from = d /\ proc'[p].id = d /\ ~proc'[p].good
<1>1. PICK p \in Imports : proc[p].at = "idle" /\ proc' = [proc EXCEPT ![p] = Process(d, d, d)]
  BY DEF StartImport
<1>2. d \in Names /\ d \in {None, d}
  BY DEF Names
<1> QED BY <1>1, <1>2, Started

\* ImportGame takes one without an id.
LEMMA ManualDoes ==
  ASSUME TypeInv, NEW d \in Downloads, NEW g, ImportGame(g, d)
  PROVE  \E p \in Imports :
           /\ proc[p].at = "idle" /\ OneProc(p, proc'[p])
           /\ proc'[p].at = "start" /\ proc'[p].from = d /\ proc'[p].id = None /\ ~proc'[p].good
<1>1. PICK p \in Imports :
        proc[p].at = "idle" /\ proc' = [proc EXCEPT ![p] = Process(d, None, rows[g].title)]
  BY DEF ImportGame
<1>2. rows[g].title \in Names /\ None \in {None, d}
  BY DEF ImportGame, TypeInv, GameRow
<1> QED BY <1>1, <1>2, Started

\* Resolve sets what is to be copied, or goes on to a directory that is there.
LEMMA ResolveDoes ==
  ASSUME TypeInv, NEW p \in Imports, Resolve(p)
  PROVE  /\ Running(p) /\ OneProc(p, proc'[p])
         /\ proc'[p].from = proc[p].from /\ proc'[p].id = proc[p].id
         /\ proc'[p].good = proc[p].good /\ proc'[p].game = proc[p].game
         /\ proc'[p].left = IF Directory(proc[p].from) THEN data[proc[p].from]
                            ELSE data[proc[p].from] \intersect GameFiles
         /\ proc'[p].at = IF /\ Directory(proc[p].from)
                            /\ \E f \in Files : Sharing(proc'[p].name, proc[p].from, f) # {}
                         THEN "match" ELSE "copy"
<1> DEFINE d == proc[p].from
           L == IF Directory(d) THEN data[d] ELSE data[d] \intersect GameFiles
           At(n) == IF Directory(d) /\ (\E f \in Files : Sharing(n, d, f) # {})
                    THEN "match" ELSE "copy"
<1>1. Running(p)
  BY DEF Resolve, Running
<1>2. d \in Downloads /\ proc[p].name \in Names /\ L \in SUBSET Files
  BY <1>1, Fields DEF TypeInv, TypeOK
<1>3. PICK n \in Names, igdb \in Names \union {None} :
        proc' = [proc EXCEPT ![p].name = n, ![p].igdb = igdb, ![p].left = L, ![p].at = At(n)]
  <2>1. IgdbName(proc[p].name) \in Names
    BY DEF IgdbName, Names
  <2> QED BY <1>2, <2>1 DEF Resolve
<1> DEFINE at == At(n)
           r == ImportOf(at, d, proc[p].id, n, igdb, L, proc[p].good, proc[p].game)
<1>4. at \in Steps
  BY DEF Steps
<1>5. r \in ImportRecord
  <2> HIDE DEF L, at
  <2> QED BY <1>2, <1>4, Fields DEF ImportOf, ImportRecord
<1>6. /\ r.at = at /\ r.from = d /\ r.id = proc[p].id /\ r.name = n /\ r.left = L
      /\ r.good = proc[p].good /\ r.game = proc[p].game
  <2> HIDE DEF L, at
  <2> QED BY DEF ImportOf
<1>7. proc' = [proc EXCEPT ![p] = r]
  <2> HIDE DEF L
  <2>1. proc' = [proc EXCEPT ![p] =
                   [proc[p] EXCEPT !.name = n, !.igdb = igdb, !.left = L, !.at = at]]
    BY <1>3 DEF TypeInv
  <2>2. proc[p] \in ImportRecord
    BY Fields
  <2> HIDE DEF at
  <2> DEFINE x == [proc[p] EXCEPT !.name = n]
             y == [x EXCEPT !.igdb = igdb]
             z == [y EXCEPT !.left = L]
  <2>3. [proc[p] EXCEPT !.name = n, !.igdb = igdb, !.left = L, !.at = at] = [z EXCEPT !.at = at]
    OBVIOUS
  <2>4. x = ImportOf(proc[p].at, d, proc[p].id, n, proc[p].igdb, proc[p].left, proc[p].good,
                     proc[p].game)
    BY <2>2, FieldsOf DEF ImportOf
  <2> HIDE DEF x
  <2>5. y = ImportOf(proc[p].at, d, proc[p].id, n, igdb, proc[p].left, proc[p].good, proc[p].game)
    BY <2>4 DEF ImportOf
  <2> HIDE DEF y
  <2>6. z = ImportOf(proc[p].at, d, proc[p].id, n, igdb, L, proc[p].good, proc[p].game)
    BY <2>5 DEF ImportOf
  <2> HIDE DEF z
  <2>7. [proc[p] EXCEPT !.name = n, !.igdb = igdb, !.left = L, !.at = at] = r
    BY <2>3, <2>6 DEF ImportOf
  <2> QED BY <2>1, <2>7
<1> HIDE DEF r
<1>8. OneProc(p, r)
  BY <1>1, <1>2, <1>5, <1>6, <1>7, Fields, OneProcIs
<1>9. proc'[p] = r
  BY <1>8 DEF OneProc
<1> QED BY <1>1, <1>6, <1>8, <1>9

\* A step that takes up one file: the goroutine,
LEMMA TakeUpDoes ==
  ASSUME TypeInv, NEW p \in Imports, NEW f \in Files, NEW new \in BOOLEAN, TakeUp(p, f, new)
  PROVE  /\ Running(p) /\ OneProc(p, proc'[p]) /\ proc[p].at = "copy" /\ f \in proc[p].left
         /\ proc'[p].at = "copy" /\ proc'[p].from = proc[p].from /\ proc'[p].id = proc[p].id
         /\ proc'[p].name = proc[p].name /\ proc'[p].left = proc[p].left \ {f}
         /\ proc'[p].good = (proc[p].good \/ new)
<1> DEFINE r == ImportOf(proc[p].at, proc[p].from, proc[p].id, proc[p].name, proc[p].igdb,
                         proc[p].left \ {f}, proc[p].good \/ new, proc[p].game)
<1>1. Running(p) /\ proc[p].at = "copy" /\ f \in proc[p].left
  BY DEF TakeUp, Running
<1>2. r \in ImportRecord
  BY Fields DEF ImportOf, ImportRecord
<1>3. /\ r.at = proc[p].at /\ r.from = proc[p].from /\ r.id = proc[p].id /\ r.name = proc[p].name
      /\ r.left = proc[p].left \ {f} /\ r.good = (proc[p].good \/ new)
  BY DEF ImportOf
<1>4. proc' = [proc EXCEPT ![p] = r]
  <2>1. proc' = [proc EXCEPT ![p].left = @ \ {f}, ![p].good = @ \/ new]
    BY DEF TakeUp
  <2>2. proc' = [proc EXCEPT ![p] = [proc[p] EXCEPT !.left = @ \ {f}, !.good = @ \/ new]]
    BY <2>1 DEF TypeInv
  <2>3. proc[p] \in ImportRecord
    BY Fields
  <2>4. [proc[p] EXCEPT !.left = @ \ {f}, !.good = @ \/ new] = r
    BY <2>3, CopyFields
  <2> QED BY <2>2, <2>4
<1> HIDE DEF r
<1>5. OneProc(p, r)
  BY <1>1, <1>2, <1>3, <1>4, Fields, OneProcIs
<1> QED BY <1>1, <1>3, <1>5 DEF OneProc

\* ... and the files: one that is gone, that is brought, or that fails.
LEMMA CopyDoes ==
  ASSUME TypeInv, NEW p \in Imports, NEW f \in Files,
         SkipFile(p, f) \/ CopyFile(p, f) \/ CopyFails(p, f)
  PROVE  /\ Running(p) /\ OneProc(p, proc'[p]) /\ proc[p].at = "copy" /\ f \in proc[p].left
         /\ proc'[p].at = "copy" /\ proc'[p].from = proc[p].from /\ proc'[p].id = proc[p].id
         /\ proc'[p].name = proc[p].name /\ proc'[p].left = proc[p].left \ {f}
         /\ \/ proc'[p].good = proc[p].good
            \/ f \in data[proc[p].from] /\ f \in GameFiles
         /\ proc'[p].good \in BOOLEAN
         /\ UNCHANGED <<clientVars, linkVars, monitorVars, importing, rowVars, cut, env>>
         /\ library \subseteq library' /\ failed \subseteq failed'
         /\ failed' \subseteq failed \union {<<proc[p].from, f>>}
         /\ \A t \in library' : t \in library \/ \E o \in Places :
              t = <<proc[p].name, Place(proc[p].from), f, o>>
         /\ f \in data[proc[p].from] =>
              \/ \E o \in Places : <<proc[p].name, Place(proc[p].from), f, o>> \in library'
              \/ <<proc[p].from, f>> \in failed'
         /\ \/ emptied' = emptied
            \/ Truncates(proc[p].name, proc[p].from, f)
<1> DEFINE d == proc[p].from
           n == proc[p].name
<1>1. PICK new \in BOOLEAN : TakeUp(p, f, new) /\ (new => f \in data[d] /\ f \in GameFiles)
  <2>1. CASE SkipFile(p, f)
    BY <2>1 DEF SkipFile
  <2>2. CASE CopyFile(p, f)
    <3>1. f \in data[d] /\ TakeUp(p, f, f \in GameFiles)
      BY <2>2 DEF CopyFile
    <3>2. CASE f \in GameFiles
      <4>1. TakeUp(p, f, TRUE)
        BY <3>1, <3>2 DEF TakeUp
      <4> QED BY <3>1, <3>2, <4>1
    <3>3. CASE f \notin GameFiles
      <4>1. TakeUp(p, f, FALSE)
        BY <3>1, <3>3 DEF TakeUp
      <4> QED BY <4>1
    <3> QED BY <3>2, <3>3
  <2>3. CASE CopyFails(p, f)
    BY <2>3 DEF CopyFails
  <2> QED BY <2>1, <2>2, <2>3
<1>2. /\ Running(p) /\ OneProc(p, proc'[p]) /\ proc[p].at = "copy" /\ f \in proc[p].left
      /\ proc'[p].at = "copy" /\ proc'[p].from = d /\ proc'[p].id = proc[p].id
      /\ proc'[p].name = n /\ proc'[p].left = proc[p].left \ {f}
      /\ proc'[p].good = (proc[p].good \/ new) /\ proc[p].good \in BOOLEAN
  BY <1>1, TakeUpDoes, Fields
<1>3. d \in Places
  BY <1>2, Fields DEF Places
<1>4. /\ UNCHANGED <<clientVars, linkVars, monitorVars, importing, rowVars, cut, env>>
      /\ library \subseteq library' /\ failed \subseteq failed'
      /\ failed' \subseteq failed \union {<<d, f>>}
      /\ \A t \in library' : t \in library \/ \E o \in Places : t = <<n, Place(d), f, o>>
      /\ f \in data[d] => \/ \E o \in Places : <<n, Place(d), f, o>> \in library'
                          \/ <<d, f>> \in failed'
      /\ emptied' = emptied \/ Truncates(n, d, f)
  <2>1. CASE SkipFile(p, f)
    BY <2>1 DEF SkipFile, diskVars
  <2>2. CASE CopyFile(p, f)
    <3>1. Sharing(n, d, f) # {} => \E o \in Places : <<n, Place(d), f, o>> \in library
      BY DEF Sharing
    <3>2. None \in Places
      BY DEF Places
    <3>3. PICK o \in Places : library' = IF Sharing(n, d, f) = {}
                                        THEN library \union {<<n, Place(d), f, o>>} ELSE library
      BY <2>2, <1>3, <3>2 DEF CopyFile
    <3>4. UNCHANGED <<clientVars, linkVars, monitorVars, importing, failed, rowVars, cut, env>>
      BY <2>2 DEF CopyFile
    <3>5. Truncates(n, d, f)
      BY <2>2 DEF CopyFile
    <3> QED BY <3>1, <3>3, <3>4, <3>5
  <2>3. CASE CopyFails(p, f)
    <3>1. None \in Places
      BY DEF Places
    <3>2. \/ library' = library /\ emptied' = emptied
          \/ /\ library' = library \/ library' = library \union {<<n, Place(d), f, None>>}
             /\ Truncates(n, d, f)
      BY <2>3 DEF CopyFails
    <3>3. /\ failed' = failed \union {<<d, f>>}
          /\ UNCHANGED <<clientVars, linkVars, monitorVars, importing, rowVars, cut, env>>
      BY <2>3 DEF CopyFails
    <3> QED BY <3>1, <3>2, <3>3
  <2> QED BY <2>1, <2>2, <2>3
<1> QED BY <1>1, <1>2, <1>4

\* A goroutine that is to save a game, or that has made one.
LEMMA GameTaken ==
  ASSUME TypeInv, NEW p \in Imports, Running(p), NEW at \in Steps, NEW g \in Ids \union {NoId},
         \/ proc' = [proc EXCEPT ![p].game = g, ![p].at = at]
         \/ proc' = [proc EXCEPT ![p].at = at, ![p].game = g]
  PROVE  /\ OneProc(p, proc'[p])
         /\ proc'[p].at = at /\ proc'[p].from = proc[p].from /\ proc'[p].id = proc[p].id
         /\ proc'[p].name = proc[p].name /\ proc'[p].left = proc[p].left
         /\ proc'[p].good = proc[p].good /\ proc'[p].game = g
<1> DEFINE r == ImportOf(at, proc[p].from, proc[p].id, proc[p].name, proc[p].igdb,
                         proc[p].left, proc[p].good, g)
<1>1. proc' = [proc EXCEPT ![p] = [proc[p] EXCEPT !.game = g, !.at = at]]
  BY DEF TypeInv
<1>2. [proc[p] EXCEPT !.game = g, !.at = at] = r
  <2>1. proc[p] \in ImportRecord
    BY Fields
  <2> QED BY <2>1, GameFields
<1>3. r \in ImportRecord
  BY Fields DEF ImportOf, ImportRecord
<1>4. /\ r.at = at /\ r.from = proc[p].from /\ r.id = proc[p].id
      /\ r.name = proc[p].name /\ r.left = proc[p].left
      /\ r.good = proc[p].good /\ r.game = g
  BY DEF ImportOf
<1>5. proc' = [proc EXCEPT ![p] = r]
  BY <1>1, <1>2
<1> HIDE DEF r
<1>6. OneProc(p, r)
  BY <1>3, <1>4, <1>5, Fields, OneProcIs
<1> QED BY <1>4, <1>6 DEF OneProc

\* Match prefers the game of the link.
LEMMA MatchDoes ==
  ASSUME TypeInv, NEW p \in Imports, Match(p)
  PROVE  /\ Running(p) /\ OneProc(p, proc'[p])
         /\ proc'[p].at \in {"save", "finish"}
         /\ proc'[p].from = proc[p].from /\ proc'[p].id = proc[p].id /\ proc'[p].name = proc[p].name
         /\ proc'[p].good = proc[p].good
         /\ LinkedGame(proc[p].id) # {} => proc'[p].game \in LinkedGame(proc[p].id)
<1>1. Running(p)
  BY DEF Match, Running
<1>2. \/ LinkedGame(proc[p].id) = {} /\ (Goto(p, "finish") \/ Goto(p, "save"))
      \/ \E g \in DOMAIN rows : /\ proc' = [proc EXCEPT ![p].game = g, ![p].at = "save"]
                                /\ LinkedGame(proc[p].id) # {} => g \in LinkedGame(proc[p].id)
  BY DEF Match, LinkedGame, ByIgdbID, ByTitle
<1>3. CASE LinkedGame(proc[p].id) = {} /\ (Goto(p, "finish") \/ Goto(p, "save"))
  BY <1>1, <1>3, GoesOn DEF Steps
<1>4. ASSUME NEW g \in DOMAIN rows, proc' = [proc EXCEPT ![p].game = g, ![p].at = "save"],
             LinkedGame(proc[p].id) # {} => g \in LinkedGame(proc[p].id)
      PROVE  /\ OneProc(p, proc'[p])
             /\ proc'[p].at \in {"save", "finish"}
             /\ proc'[p].from = proc[p].from /\ proc'[p].id = proc[p].id
             /\ proc'[p].name = proc[p].name
             /\ proc'[p].good = proc[p].good
             /\ LinkedGame(proc[p].id) # {} => proc'[p].game \in LinkedGame(proc[p].id)
  <2>1. g \in Ids \union {NoId}
    BY ImportAssumption DEF TypeInv, TypeOK, Ids
  <2>2. /\ OneProc(p, proc'[p])
        /\ proc'[p].at = "save" /\ proc'[p].from = proc[p].from /\ proc'[p].id = proc[p].id
        /\ proc'[p].name = proc[p].name /\ proc'[p].good = proc[p].good /\ proc'[p].game = g
    BY <1>1, <1>4, <2>1, GameTaken DEF Steps
  <2> QED BY <1>4, <2>2
<1>5. CASE \E g \in DOMAIN rows : /\ proc' = [proc EXCEPT ![p].game = g, ![p].at = "save"]
                                  /\ LinkedGame(proc[p].id) # {} => g \in LinkedGame(proc[p].id)
  <2>1. PICK g \in DOMAIN rows : /\ proc' = [proc EXCEPT ![p].game = g, ![p].at = "save"]
                                 /\ LinkedGame(proc[p].id) # {} => g \in LinkedGame(proc[p].id)
    BY <1>5
  <2> HIDE DEF LinkedGame
  <2> QED BY ONLY <1>1, <1>4, <2>1
<1> QED BY <1>2, <1>3, <1>5

\* Save keeps the game it was given, or makes the next row.
LEMMA SaveDoes ==
  ASSUME TypeInv, NEW p \in Imports, Save(p)
  PROVE  /\ Running(p) /\ OneProc(p, proc'[p])
         /\ proc'[p].at = "version" /\ proc'[p].from = proc[p].from /\ proc'[p].id = proc[p].id
         /\ \/ /\ proc[p].game # NoId /\ proc'[p].game = proc[p].game /\ lastId' = lastId
               /\ DOMAIN rows' = DOMAIN rows
            \/ /\ proc[p].game = NoId /\ proc'[p].game = lastId' /\ lastId' = lastId + 1
               /\ DOMAIN rows' = DOMAIN rows \union {lastId'}
         /\ lastId' \in 0..MaxGame /\ rows' \in [DOMAIN rows' -> GameRow]
<1>0. /\ lastId \in 0..MaxGame /\ DOMAIN rows \subseteq 1..lastId
      /\ rows \in [DOMAIN rows -> GameRow]
  BY DEF TypeInv, TypeOK
<1>1. Running(p)
  BY DEF Save, Running
<1>2. CASE proc[p].game # NoId
  <2>1. /\ Goto(p, "version") /\ lastId' = lastId
        /\ rows' = SetColumn(rows, proc[p].game, "path", proc[p].name)
    BY <1>2 DEF Save
  <2>2. DOMAIN rows' = DOMAIN rows /\ rows' \in [DOMAIN rows -> GameRow]
    BY <1>0, <1>1, <2>1, RowsKept, Fields
  <2>3. /\ OneProc(p, proc'[p]) /\ proc'[p].at = "version"
        /\ proc'[p].from = proc[p].from /\ proc'[p].id = proc[p].id
        /\ proc'[p].game = proc[p].game
    BY <1>1, <2>1, GoesOn DEF Steps
  <2> QED BY <1>0, <1>1, <1>2, <2>1, <2>2, <2>3
<1>3. CASE proc[p].game = NoId
  <2>1. /\ lastId < MaxGame /\ lastId' = lastId + 1
        /\ rows' = CreateGame(rows, lastId', Row(proc[p].name, proc[p].igdb, proc[p].name, None))
        /\ proc' = [proc EXCEPT ![p].at = "version", ![p].game = lastId']
    BY <1>3 DEF Save
  <2>2. lastId' \in 0..MaxGame /\ lastId' \in Ids \union {NoId}
    BY <1>0, <2>1, ImportAssumption DEF Ids
  <2>3. Row(proc[p].name, proc[p].igdb, proc[p].name, None) \in GameRow
    BY <1>1, Fields DEF Row, GameRow
  <2>4. DOMAIN rows' = DOMAIN rows \union {lastId'} /\ rows' \in [DOMAIN rows' -> GameRow]
    BY SMTT(40), <1>0, <2>1, <2>3 DEF CreateGame
  <2>5. /\ OneProc(p, proc'[p]) /\ proc'[p].at = "version"
        /\ proc'[p].from = proc[p].from /\ proc'[p].id = proc[p].id
        /\ proc'[p].game = lastId'
    BY <1>1, <2>1, <2>2, GameTaken DEF Steps
  <2> QED BY <1>1, <1>3, <2>1, <2>2, <2>4, <2>5
<1> QED BY <1>2, <1>3

\* Finish gives the goroutine back.
LEMMA FinishDoes ==
  ASSUME TypeInv, NEW p \in Imports, Finish(p)
  PROVE  Running(p) /\ OneProc(p, proc'[p]) /\ proc'[p].at = "idle"
<1>1. proc' = [proc EXCEPT ![p] = Idle] /\ Running(p)
  BY DEF Finish, Running
<1>2. Idle.at = "idle" /\ Idle \in ImportRecord
  BY NewImport DEF Idle
<1>3. OneProc(p, Idle)
  BY <1>1, <1>2, OneProcIs
<1> QED BY <1>1, <1>2, <1>3 DEF OneProc

\* Those who start, end, remove and link downloads, and poll them, keep the forms.
LEMMA TypeClient ==
  ASSUME TypeInv, NEW d \in Downloads, NEW g,
         \/ AddTorrent(d, g) \/ RecordLink(d) \/ Complete(d) \/ DeleteDownload(d)
         \/ NotReachable(d) \/ NotFound(d)
  PROVE  TypeInv'
<1> USE ImportAssumption DEF TypeInv, TypeOK, Running
<1>1. CASE AddTorrent(d, g)
  <2>1. g \in Ids \union {NoId}
    BY <1>1 DEF AddTorrent, Ids
  <2> QED BY <1>1, <2>1 DEF AddTorrent, monitorVars, diskVars, rowVars
<1>2. CASE RecordLink(d)
  BY <1>2 DEF RecordLink, clientVars, monitorVars, diskVars, rowVars
<1>3. CASE Complete(d)
  BY <1>3 DEF Complete, linkVars, monitorVars, diskVars, rowVars
<1>4. CASE DeleteDownload(d)
  BY <1>4 DEF DeleteDownload, linkVars, monitorVars, diskVars, rowVars
<1>7. CASE NotReachable(d)
  BY <1>7 DEF NotReachable, clientVars, linkVars, diskVars, rowVars
<1>8. CASE NotFound(d)
  <2>1. notFound[d] \in 0..(NotFoundThreshold - 1)
    OBVIOUS
  <2>2. notFound' \in [Downloads -> 0..(NotFoundThreshold - 1)]
    <3>1. CASE notFound[d] + 1 >= NotFoundThreshold
      BY <1>8, <3>1 DEF NotFound
    <3>2. CASE ~ (notFound[d] + 1 >= NotFoundThreshold)
      <4>1. notFound[d] + 1 \in 0..(NotFoundThreshold - 1)
        BY <2>1, <3>2
      <4> QED BY <1>8, <3>2, <4>1 DEF NotFound
    <3> QED BY <3>1, <3>2
  <2>3. polled' \subseteq Downloads /\ processed' \subseteq Downloads
    BY <1>8 DEF NotFound
  <2> QED BY <1>8, <2>2, <2>3 DEF NotFound, clientVars, linkVars, diskVars, rowVars
<1> QED BY <1>1, <1>2, <1>3, <1>4, <1>7, <1>8

\* ... as do an outage and a new poll,
LEMMA TypeQuiet == ASSUME TypeInv, Outage \/ Poll PROVE TypeInv'
<1> USE DEF TypeInv, TypeOK, Running, linkVars, diskVars, rowVars
<1>1. CASE Outage
  BY <1>1 DEF Outage, monitorVars
<1>2. CASE Poll
  BY <1>2 DEF Poll, clientVars
<1> QED BY <1>1, <1>2

\* ... and the start of an import.
LEMMA TypeStarts ==
  ASSUME TypeInv, NEW d \in Downloads, NEW g, StartImport(d) \/ ImportGame(g, d) PROVE TypeInv'
<1>1. PICK p \in Imports : OneProc(p, proc'[p])
  BY StartDoes, ManualDoes
<1>2. \A q \in Imports :
        /\ proc'[q].at \in Steps /\ proc'[q].left \subseteq Files
        /\ proc'[q].game \in Ids \union {NoId}
  BY <1>1 DEF OneProc, ImportRecord
<1>3. UNCHANGED <<clientVars, linkVars, diskVars, rowVars, cut, env>>
  BY DEF StartImport, ImportGame
<1>4. /\ polled' \subseteq Downloads /\ processed' \subseteq Downloads
      /\ importing' \subseteq Downloads
      /\ notFound' \in [Downloads -> 0..(NotFoundThreshold - 1)]
  BY ImportAssumption DEF StartImport, ImportGame, TypeInv, TypeOK, monitorVars
<1>5. TypeOK'
  BY <1>2, <1>3, <1>4 DEF TypeInv, TypeOK, Steps, clientVars, linkVars, diskVars, rowVars
<1> QED BY <1>1, <1>3, <1>5 DEF TypeInv, OneProc, rowVars

\* What a goroutine writes besides its own record, in the form it had.
LEMMA TypeRest ==
  ASSUME TypeInv, NEW p \in Imports, OneProc(p, proc'[p]),
         UNCHANGED <<torrent, reachable, request, wanted, monitorVars>>,
         data' \in [Downloads -> SUBSET Files], links' \in [Downloads -> Ids \union {NoId}],
         emptied' \subseteq Downloads \X Files, failed' \subseteq Downloads \X Files,
         library' \subseteq Names \X Places \X Files \X Places,
         importing' \subseteq Downloads, cut' \subseteq Downloads, listed' \subseteq Downloads,
         lastId' \in 0..MaxGame, DOMAIN rows' \subseteq 1..(lastId'),
         rows' \in [DOMAIN rows' -> GameRow]
  PROVE  TypeInv'
<1>1. \A q \in Imports :
        /\ proc'[q].at \in Steps /\ proc'[q].left \subseteq Files
        /\ proc'[q].game \in Ids \union {NoId}
  BY DEF OneProc, ImportRecord
<1>2. TypeOK'
  BY <1>1 DEF TypeInv, TypeOK, Steps, monitorVars
<1> QED BY <1>2 DEF TypeInv, OneProc

\* The steps of a goroutine keep the forms.
LEMMA TypeImport == ASSUME TypeInv, NEW p \in Imports, Import(p) PROVE TypeInv'
<1> USE DEF clientVars, linkVars, diskVars, rowVars
<1>0. /\ data \in [Downloads -> SUBSET Files] /\ links \in [Downloads -> Ids \union {NoId}]
      /\ emptied \subseteq Downloads \X Files /\ failed \subseteq Downloads \X Files
      /\ library \subseteq Names \X Places \X Files \X Places
      /\ importing \subseteq Downloads /\ cut \subseteq Downloads /\ listed \subseteq Downloads
      /\ lastId \in 0..MaxGame /\ DOMAIN rows \subseteq 1..lastId
      /\ rows \in [DOMAIN rows -> GameRow]
      /\ Running(p) => /\ proc[p].from \in Downloads /\ proc[p].name \in Names
                       /\ proc[p].id \in {None, proc[p].from}
  BY DEF TypeInv, TypeOK
<1>1. CASE Begin(p)
  <2>1. Running(p) /\ (Goto(p, "name") \/ Goto(p, "finish"))
    BY <1>1 DEF Begin, Running
  <2>2. data' \in [Downloads -> SUBSET Files] /\ cut' \subseteq Downloads
    BY <1>0, <1>1, <2>1 DEF Begin
  <2>3. OneProc(p, proc'[p])
    BY <2>1, GoesOn DEF Steps
  <2> QED BY <1>0, <1>1, <2>2, <2>3, TypeRest DEF Begin
<1>2. CASE Resolve(p)
  BY <1>0, <1>2, ResolveDoes, TypeRest, ZenonT(30) DEF Resolve
<1>3. ASSUME NEW f \in Files, SkipFile(p, f) \/ CopyFile(p, f) \/ CopyFails(p, f)
      PROVE  TypeInv'
  <2> DEFINE d == proc[p].from
             n == proc[p].name
  <2>1. /\ Running(p) /\ OneProc(p, proc'[p])
        /\ UNCHANGED <<clientVars, linkVars, monitorVars, importing, rowVars, cut, env>>
        /\ failed' \subseteq failed \union {<<d, f>>}
        /\ \A t \in library' : t \in library \/ \E o \in Places : t = <<n, Place(d), f, o>>
        /\ emptied' = emptied \/ Truncates(n, d, f)
    BY <1>3, CopyDoes
  <2>2. d \in Downloads /\ n \in Names /\ Place(d) \in Places
    BY <1>0, <2>1 DEF Place, Places
  <2>3. emptied' \subseteq Downloads \X Files
    <3>1. CASE emptied' = emptied
      BY <1>0, <3>1
    <3>2. CASE Truncates(n, d, f)
      <4>1. Sharing(n, d, f) \ {None} \subseteq Downloads
        BY DEF Sharing, Places
      <4> QED BY <1>0, <3>2, <4>1 DEF Truncates
    <3> QED BY <2>1, <3>1, <3>2
  <2>4. library' \subseteq Names \X Places \X Files \X Places
    BY <1>0, <2>1, <2>2
  <2>5. failed' \subseteq Downloads \X Files
    BY <1>0, <2>1, <2>2
  <2> QED BY <1>0, <2>1, <2>3, <2>4, <2>5, TypeRest
<1>4. CASE EndCopy(p)
  <2>1. Running(p) /\ (Goto(p, "match") \/ Goto(p, "finish"))
    BY <1>4 DEF EndCopy, Running
  <2>2. cut' \subseteq Downloads
    BY <1>0, <1>4, <2>1 DEF EndCopy
  <2>3. OneProc(p, proc'[p])
    BY <2>1, GoesOn DEF Steps
  <2> QED BY <1>0, <1>4, <2>2, <2>3, TypeRest DEF EndCopy
<1>5. CASE Match(p)
  <2>1. Running(p) /\ OneProc(p, proc'[p])
    BY <1>5, MatchDoes
  <2>2. links' \in [Downloads -> Ids \union {NoId}] /\ listed' \subseteq Downloads
    BY <1>0, <1>5, <2>1 DEF Match
  <2> QED BY <1>0, <1>5, <2>1, <2>2, TypeRest DEF Match
<1>6. CASE Save(p)
  <2>1. Running(p) /\ OneProc(p, proc'[p])
    BY <1>6, SaveDoes
  <2>2. listed' \subseteq Downloads
    BY <1>0, <1>6, <2>1 DEF Save
  <2>3. /\ lastId' \in 0..MaxGame /\ DOMAIN rows' \subseteq 1..(lastId')
        /\ rows' \in [DOMAIN rows' -> GameRow]
    <3>1. /\ lastId' \in 0..MaxGame /\ rows' \in [DOMAIN rows' -> GameRow]
          /\ (lastId' = lastId /\ DOMAIN rows' = DOMAIN rows)
             \/ (lastId' = lastId + 1 /\ DOMAIN rows' = DOMAIN rows \union {lastId'})
      BY <1>6, SaveDoes
    <3> QED BY <1>0, <3>1, ImportAssumption
  <2> QED BY <1>0, <1>6, <2>1, <2>2, <2>3, TypeRest DEF Save
<1>7. CASE SetVersion(p)
  <2>1. Running(p) /\ Goto(p, "finish")
    BY <1>7 DEF SetVersion, Running
  <2>2. DOMAIN rows' = DOMAIN rows /\ rows' \in [DOMAIN rows -> GameRow]
    <3>1. CASE proc[p].id = None
      BY <1>0, <1>7, <3>1 DEF SetVersion
    <3>2. CASE proc[p].id # None
      <4>1. proc[p].id \in Names \union {None}
        BY <1>0, <2>1 DEF Names
      <4> QED BY <1>0, <1>7, <3>2, <4>1, RowsKept DEF SetVersion, UpdateGameVersion
    <3> QED BY <3>1, <3>2
  <2>3. OneProc(p, proc'[p])
    BY <2>1, GoesOn DEF Steps
  <2> QED BY <1>0, <1>7, <2>2, <2>3, TypeRest DEF SetVersion
<1>8. CASE Finish(p)
  <2>1. OneProc(p, proc'[p])
    BY <1>8, FinishDoes
  <2>2. importing' \subseteq Downloads
    BY <1>0, <1>8 DEF Finish
  <2> QED BY <1>0, <1>8, <2>1, <2>2, TypeRest DEF Finish
<1> QED BY <1>1, <1>2, <1>3, <1>4, <1>5, <1>6, <1>7, <1>8 DEF Import

\* A game deleted and a stop of the server keep them too.
LEMMA TypeEnds ==
  ASSUME TypeInv, (\E g \in Ids : RemoveGame(g)) \/ Crash \/ UNCHANGED vars PROVE TypeInv'
<1>1. ASSUME NEW g \in Ids, RemoveGame(g) PROVE TypeInv'
  <2>1. library' \subseteq library
    BY <1>1 DEF RemoveGame
  <2>2. DOMAIN rows' \subseteq DOMAIN rows /\ rows' \in [DOMAIN rows' -> GameRow]
    BY <1>1 DEF RemoveGame, DeleteGame, Restrict, TypeInv
  <2> QED BY <1>1, <2>1, <2>2 DEF RemoveGame, TypeInv, TypeOK, Running, clientVars, linkVars,
    monitorVars
<1>2. CASE Crash
  <2>1. proc' \in [Imports -> ImportRecord] /\ \A q \in Imports : proc'[q] = Idle
    BY <1>2, NewImport DEF Crash, CrashAnd
  <2>2. \A q \in Imports : ~Running(q)'
    BY <2>1 DEF Running, Idle
  <2>3. \A q \in Imports :
        /\ proc'[q].at \in Steps /\ proc'[q].left \subseteq Files
        /\ proc'[q].game \in Ids \union {NoId}
    BY <2>1 DEF ImportRecord
  <2>4. notFound' \in [Downloads -> 0..(NotFoundThreshold - 1)]
    BY <1>2, ImportAssumption DEF Crash, CrashAnd
  <2>5. \A f \in {request', links', wanted'} : f \in [Downloads -> Ids \union {NoId}]
    BY <1>2 DEF Crash, CrashAnd, Loaded, NoLinks, TypeInv, TypeOK
  <2>6. /\ cut' \subseteq Downloads /\ polled' = {} /\ importing' = {}
        /\ processed' \subseteq Downloads
    BY <1>2 DEF Crash, CrashAnd, Loaded, Stopped, TypeInv, TypeOK
  <2>7. UNCHANGED <<clientVars, diskVars, rowVars, env>>
    BY <1>2 DEF Crash, CrashAnd
  <2>8. TypeOK'
    BY <2>3, <2>4, <2>5, <2>6, <2>7 DEF TypeInv, TypeOK, Steps, clientVars, diskVars, rowVars
  <2> QED BY <2>1, <2>2, <2>7, <2>8 DEF TypeInv, rowVars
<1>3. CASE UNCHANGED vars
  BY <1>3 DEF vars, TypeInv, TypeOK, Running, clientVars, linkVars, monitorVars, diskVars, rowVars
<1> QED BY <1>1, <1>2, <1>3

\* TypeInv is inductive.
LEMMA TypeStep == ASSUME TypeInv, [Next]_vars PROVE TypeInv'
<1>1. ASSUME NEW d \in Downloads, NEW g,
             \/ AddTorrent(d, g) \/ RecordLink(d) \/ Complete(d) \/ DeleteDownload(d)
             \/ NotReachable(d) \/ NotFound(d)
      PROVE  TypeInv'
  BY <1>1, TypeClient
<1>2. ASSUME NEW d \in Downloads, NEW g, StartImport(d) \/ ImportGame(g, d) PROVE TypeInv'
  BY <1>2, TypeStarts
<1>3. CASE Outage \/ Poll
  BY <1>3, TypeQuiet
<1> QED BY <1>1, <1>2, <1>3, TypeImport, TypeEnds DEF Next, Monitor

-----------------------------------------------------------------------------
(* A download is imported once by the monitor.                             *)

\* A set of at most one file.
LEMMA OneFile ==
  ASSUME NEW F \in SUBSET Files, ~(Cardinality(F) > 1), NEW f \in F, NEW g \in F PROVE f = g
<1> SUFFICES ASSUME f # g PROVE FALSE
  OBVIOUS
<1>1. IsFiniteSet(F)
  BY ImportAssumption, FS_Subset
<1>2. Cardinality({f, g}) = 2
  <2>1. Cardinality({f}) = 1 /\ IsFiniteSet({f})
    BY FS_Singleton
  <2>2. Cardinality({f} \union {g}) = Cardinality({f}) + 1
    BY <2>1, FS_AddElement
  <2>3. {f} \union {g} = {f, g}
    OBVIOUS
  <2> QED BY <2>1, <2>2, <2>3
<1>3. Cardinality({f, g}) <= Cardinality(F)
  BY <1>1, FS_Subset
<1>4. Cardinality(F) \in Nat
  BY <1>1, FS_CardinalityType
<1> QED BY <1>2, <1>3, <1>4

\* Nothing has been downloaded when the server starts for the first time.
LEMMA OnceInit == Init => OnceInv
<1> SUFFICES ASSUME Init PROVE OnceInv
  OBVIOUS
<1>1. \A p \in Imports : ~Running(p)
  BY DEF Init, Running, Idle
<1> QED BY <1>1 DEF Init, OnceInv

\* A goroutine that goes on, brings files of its own download and cleans it.
Working(p) ==
  /\ Running(p) /\ OneProc(p, proc'[p])
  /\ Running(p)' => proc'[p].from = proc[p].from /\ proc'[p].id = proc[p].id
  /\ UNCHANGED <<torrent, polled, processed, request, wanted, env>>
  /\ data' \in [Downloads -> SUBSET Files] /\ \A d \in Downloads : data'[d] \subseteq data[d]
  /\ OwnNames => \A t \in library' : t \in library \/ t[2] = proc[p].from

\* Every step of Process is such a step.
LEMMA ImportWorks == ASSUME TypeInv, NEW p \in Imports, Import(p) PROVE Working(p)
<1> USE DEF Working, clientVars, linkVars, monitorVars, diskVars, rowVars
<1>0. data \in [Downloads -> SUBSET Files]
  BY DEF TypeInv, TypeOK
<1>1. CASE Begin(p)
  <2>1. Running(p) /\ (Goto(p, "name") \/ Goto(p, "finish"))
    BY <1>1 DEF Begin, Running
  <2>2. OneProc(p, proc'[p]) /\ proc'[p].from = proc[p].from /\ proc'[p].id = proc[p].id
    BY <2>1, GoesOn DEF Steps
  <2>3. data' \in [Downloads -> SUBSET Files] /\ \A d \in Downloads : data'[d] \subseteq data[d]
    BY SMTT(40), <1>0, <1>1 DEF Begin
  <2> QED BY <1>1, <2>1, <2>2, <2>3 DEF Begin
<1>2. CASE Resolve(p)
  BY <1>0, <1>2, ResolveDoes, ZenonT(30) DEF Resolve
<1>3. ASSUME NEW f \in Files, SkipFile(p, f) \/ CopyFile(p, f) \/ CopyFails(p, f)
      PROVE  Working(p)
  <2>1. OwnNames => \A t \in library' : t \in library \/ t[2] = proc[p].from
    <3>1. \A t \in library' : t \in library \/ \E o \in Places :
            t = <<proc[p].name, Place(proc[p].from), f, o>>
      BY <1>3, CopyDoes
    <3> QED BY <3>1 DEF Place
  <2>2. UNCHANGED <<torrent, polled, processed, request, wanted, env, data>>
    BY <1>3, CopyDoes
  <2>3. /\ Running(p) /\ OneProc(p, proc'[p])
        /\ proc'[p].from = proc[p].from /\ proc'[p].id = proc[p].id
    BY <1>3, CopyDoes
  <2> QED BY <1>0, <2>1, <2>2, <2>3
<1>4. CASE EndCopy(p)
  <2>1. Running(p) /\ (Goto(p, "match") \/ Goto(p, "finish"))
    BY <1>4 DEF EndCopy, Running
  <2> QED BY <1>0, <1>4, <2>1, GoesOn DEF EndCopy, Steps
<1>5. CASE Match(p)
  BY <1>0, <1>5, MatchDoes DEF Match
<1>6. CASE Save(p)
  BY <1>0, <1>6, SaveDoes DEF Save
<1>7. CASE SetVersion(p)
  <2>1. Running(p) /\ Goto(p, "finish")
    BY <1>7 DEF SetVersion, Running
  <2> QED BY <1>0, <1>7, <2>1, GoesOn DEF SetVersion, Steps
<1>8. CASE Finish(p)
  BY <1>0, <1>8, FinishDoes DEF Finish, Running
<1> QED BY <1>1, <1>2, <1>3, <1>4, <1>5, <1>6, <1>7, <1>8 DEF Import

\* It leaves what is polled and marked, and the ids of the others.
LEMMA OnceImport == ASSUME TypeInv, OnceInv, NEW p \in Imports, Import(p) PROVE OnceInv'
<1>1. Working(p)
  BY ImportWorks
<1>2. \A q \in Imports : Running(q)' =>
        Running(q) /\ proc'[q].from = proc[q].from /\ proc'[q].id = proc[q].id
  BY <1>1 DEF Working, OneProc, Running
<1>3. \A d \in Downloads : Ended(d)' = Ended(d)
  BY <1>1 DEF Working, Ended
<1>4. \A q \in Imports : Running(q) => proc[q].from \in Downloads
  BY DEF TypeInv
<1>5. polled \subseteq Downloads /\ processed \subseteq Downloads
  BY DEF TypeInv, TypeOK
<1>6. OwnNames' => \A t \in library' : t[2] \in Downloads /\ Ended(t[2])'
  <2>1. OwnNames' = OwnNames
    BY <1>1 DEF Working, OwnNames
  <2> QED BY <1>1, <1>3, <1>4, <2>1 DEF Working, OnceInv
<1>7. \A d \in polled' \union processed' : Ended(d)'
  BY <1>1, <1>3, <1>5 DEF Working, OnceInv
<1>8. polled' \cap processed' = {}
  BY <1>1 DEF Working, OnceInv
<1>9. \A q \in Imports : Running(q)' =>
        Ended(proc[q].from)' /\ (proc'[q].id # None => proc'[q].id \in processed')
  <2> TAKE q \in Imports
  <2> HAVE Running(q)'
  <2>1. Running(q) /\ proc'[q].from = proc[q].from /\ proc'[q].id = proc[q].id
    BY <1>2
  <2>2. processed' = processed
    BY <1>1 DEF Working
  <2>3. Ended(proc[q].from) /\ (proc[q].id # None => proc[q].id \in processed)
    BY <2>1 DEF OnceInv
  <2>4. torrent' = torrent
    BY <1>1 DEF Working
  <2> QED BY <2>1, <2>2, <2>3, <2>4 DEF Ended
<1>10. \A q, r \in Imports :
         Running(q)' /\ Running(r)' /\ proc'[q].id = proc'[r].id /\ proc'[q].id # None => q = r
  BY <1>2 DEF OnceInv
<1>11. \A d \in Downloads : data'[d] # {} => Ended(d)'
  BY <1>1, <1>3 DEF Working, OnceInv
<1>12. \A d \in Downloads : ~Directory(d)' => \A f, g \in data'[d] : f = g
  BY <1>1 DEF Working, OnceInv, Directory
<1> QED BY <1>6, <1>7, <1>8, <1>9, <1>10, <1>11, <1>12 DEF OnceInv

\* Nothing is imported of a download that has yet to end.
LEMMA OnceClient ==
  ASSUME TypeInv, OnceInv, NEW d \in Downloads, NEW g,
         \/ AddTorrent(d, g) \/ RecordLink(d) \/ Complete(d) \/ DeleteDownload(d)
         \/ NotReachable(d) \/ NotFound(d)
  PROVE  OnceInv'
<1>0. /\ torrent \in [Downloads -> {"absent", "downloading", "completed", "removed"}]
      /\ data \in [Downloads -> SUBSET Files]
  BY DEF TypeInv, TypeOK
<1> USE <1>0 DEF OnceInv, Ended, Running, OwnNames, Directory, clientVars, linkVars, monitorVars,
  diskVars, rowVars
<1>1. CASE AddTorrent(d, g)
  <2>1. \A e \in Downloads : Ended(e) => Ended(e)'
    BY <1>1 DEF AddTorrent
  <2> QED BY <1>1, <2>1 DEF AddTorrent
<1>2. CASE RecordLink(d)
  BY <1>2 DEF RecordLink
<1>3. CASE Complete(d)
  <2>1. PICK F \in Contents :
          Directory(d) = (Cardinality(F) > 1) /\ data' = [data EXCEPT ![d] = F]
    BY <1>3 DEF Complete
  <2>2. ~Directory(d) => \A f, h \in F : f = h
    BY <2>1, OneFile, ImportAssumption
  <2>3. torrent' = [torrent EXCEPT ![d] = "completed"]
    BY <1>3 DEF Complete
  <2> QED BY <1>3, <2>1, <2>2, <2>3 DEF Complete
<1>4. CASE DeleteDownload(d)
  BY <1>4 DEF DeleteDownload
<1>5. CASE NotReachable(d)
  BY <1>5 DEF NotReachable
<1>6. CASE NotFound(d)
  BY <1>6 DEF NotFound
<1> QED BY <1>1, <1>2, <1>3, <1>4, <1>5, <1>6

\* The monitor starts what it has polled and not marked.
LEMMA OnceStarts ==
  ASSUME TypeInv, OnceInv, NEW d \in Downloads, NEW g, StartImport(d) \/ ImportGame(g, d)
  PROVE  OnceInv'
<1> USE DEF OnceInv, Ended, OwnNames, Directory, clientVars, linkVars, monitorVars, diskVars,
  rowVars
<1>1. CASE StartImport(d)
  <2>1. PICK p \in Imports :
           /\ proc[p].at = "idle" /\ OneProc(p, proc'[p])
           /\ proc'[p].at = "start" /\ proc'[p].from = d /\ proc'[p].id = d
    BY <1>1, StartDoes
  <2>2. d \in polled /\ polled' = polled \ {d} /\ processed' = processed \union {d}
    BY <1>1 DEF StartImport
  <2>3. UNCHANGED <<torrent, data, library, env>>
    BY <1>1 DEF StartImport
  <2>4. \A q \in Imports :
          q # p /\ Running(q)' => Running(q) /\ proc'[q] = proc[q] /\ proc[q].id # d
    BY <2>1, <2>2, ImportAssumption DEF OneProc, Running
  <2>5. \A q \in Imports : Running(q)' =>
          Ended(proc[q].from)' /\ (proc'[q].id # None => proc'[q].id \in processed')
    BY <2>1, <2>2, <2>3, <2>4
  <2>6. \A q, r \in Imports :
          Running(q)' /\ Running(r)' /\ proc'[q].id = proc'[r].id /\ proc'[q].id # None => q = r
    BY <2>1, <2>4
  <2> QED BY <2>2, <2>3, <2>5, <2>6
<1>2. CASE ImportGame(g, d)
  <2>1. PICK p \in Imports :
           /\ proc[p].at = "idle" /\ OneProc(p, proc'[p])
           /\ proc'[p].at = "start" /\ proc'[p].from = d /\ proc'[p].id = None
    BY <1>2, ManualDoes
  <2>2. data[d] # {} /\ UNCHANGED <<torrent, data, library, polled, processed, env>>
    BY <1>2 DEF ImportGame
  <2>3. \A q \in Imports : q # p /\ Running(q)' => Running(q) /\ proc'[q] = proc[q]
    BY <2>1 DEF OneProc, Running
  <2>4. \A q \in Imports : Running(q)' =>
          Ended(proc[q].from)' /\ (proc'[q].id # None => proc'[q].id \in processed')
    BY <2>1, <2>2, <2>3
  <2>5. \A q, r \in Imports :
          Running(q)' /\ Running(r)' /\ proc'[q].id = proc'[r].id /\ proc'[q].id # None => q = r
    BY <2>1, <2>3
  <2> QED BY <2>2, <2>4, <2>5
<1> QED BY <1>1, <1>2

\* A stop keeps the marks and ends the imports.
LEMMA OnceEnds ==
  ASSUME TypeInv, OnceInv, (\E g \in Ids : RemoveGame(g)) \/ Crash \/ UNCHANGED vars PROVE OnceInv'
<1> USE DEF OnceInv, Ended, Running, OwnNames, Directory, clientVars, linkVars, monitorVars,
  diskVars, rowVars
<1>1. ASSUME NEW g \in Ids, RemoveGame(g) PROVE OnceInv'
  <2>1. library' \subseteq library
    BY <1>1 DEF RemoveGame
  <2> QED BY <1>1, <2>1 DEF RemoveGame
<1>2. CASE Crash
  <2>1. \A q \in Imports : ~Running(q)'
    BY <1>2 DEF Crash, CrashAnd, Idle
  <2>2. /\ UNCHANGED <<torrent, data, library, env>>
        /\ polled' = {} /\ processed' \subseteq processed
    BY <1>2 DEF Crash, CrashAnd, Loaded
  <2> QED BY <2>1, <2>2
<1>3. CASE UNCHANGED vars
  BY <1>3 DEF vars
<1> QED BY <1>1, <1>2, <1>3

\* With TypeInv, OnceInv is inductive.
LEMMA OnceStep == ASSUME TypeInv, OnceInv, [Next]_vars PROVE OnceInv'
<1>1. ASSUME NEW d \in Downloads, NEW g,
             \/ AddTorrent(d, g) \/ RecordLink(d) \/ Complete(d) \/ DeleteDownload(d)
             \/ NotReachable(d) \/ NotFound(d)
      PROVE  OnceInv'
  BY <1>1, OnceClient
<1>2. ASSUME NEW d \in Downloads, NEW g, StartImport(d) \/ ImportGame(g, d) PROVE OnceInv'
  BY <1>2, OnceStarts
<1>3. Outage \/ Poll => OnceInv'
  <2> SUFFICES ASSUME Outage \/ Poll PROVE OnceInv'
    OBVIOUS
  <2> USE DEF OnceInv, Ended, Running, OwnNames, Directory, clientVars, linkVars, monitorVars,
    diskVars, rowVars
  <2>1. CASE Outage
    BY <2>1 DEF Outage
  <2>2. CASE Poll
    BY <2>2 DEF Poll
  <2> QED BY <2>1, <2>2
<1> QED BY <1>1, <1>2, <1>3, OnceImport, OnceEnds DEF Next, Monitor

\* TypeOK: every variable keeps the form the code's types give it, and a path that is
\* not found is looked for no more often than the threshold of the monitor says.
THEOREM TypeCorrect == Spec => []TypeOK
<1>1. Init => TypeInv
  BY TypeInit
<1>2. TypeInv /\ [Next]_vars => TypeInv'
  BY TypeStep
<1>3. TypeInv => TypeOK
  BY DEF TypeInv
<1> QED BY <1>1, <1>2, <1>3, PTL DEF Spec

-----------------------------------------------------------------------------
(* No file that is seeded is emptied.                                      *)

\* The library is empty at first.
LEMMA SeedInit == Init => SeedInv
<1> SUFFICES ASSUME Init PROVE SeedInv
  OBVIOUS
<1>1. \A p \in Imports : proc[p].at = "idle" /\ ~Running(p)
  BY DEF Init, Running, Idle
<1> QED BY <1>1 DEF Init, SeedInv, SourceSurvives

\* Each import of the monitor has a download of its own.
LEMMA OwnDownload ==
  ASSUME TypeInv, OnceInv, SeedInv, Seeding, NEW p \in Imports, NEW q \in Imports,
         Running(p), Running(q), p # q
  PROVE  proc[p].from # proc[q].from
<1>1. proc[p].id = proc[p].from /\ proc[q].id = proc[q].from /\ proc[p].id # None
  BY DEF TypeInv, SeedInv
<1> QED BY <1>1 DEF OnceInv

\* A step that brings no file.
LEMMA SeedGoes ==
  ASSUME TypeInv, OnceInv, SeedInv, Seeding, NEW p \in Imports, Working(p),
         UNCHANGED <<library, emptied>>,
         proc'[p].at \in {"start", "name"} => proc[p].at \in {"start", "name"},
         proc'[p].at = "copy" => proc[p].at \in {"start", "name"}
  PROVE  SeedInv'
<1>1. \A q \in Imports : Running(q)' =>
        Running(q) /\ proc'[q].from = proc[q].from /\ proc'[q].id = proc[q].id
  BY DEF Working, OneProc, Running
<1>2. \A q \in Imports : q # p => proc'[q] = proc[q]
  BY DEF Working, OneProc
<1>3. Running(p) /\ UNCHANGED <<processed, env>>
  BY DEF Working
<1>4. \A q \in Imports : proc'[q].at \in {"start", "name"} =>
         \A t \in library' : t[2] # proc'[q].from
  BY <1>1, <1>2 DEF SeedInv, Running
<1>5. \A q \in Imports : proc'[q].at = "copy" =>
         \A t \in library' : t[2] = proc'[q].from => t[3] \notin proc'[q].left
  BY <1>1, <1>2 DEF SeedInv, Running
<1>6. /\ \A q \in Imports : Running(q)' => proc'[q].id # None
      /\ \A t \in library' : t[2] \in processed'
      /\ SourceSurvives'
  BY <1>1, <1>3 DEF SeedInv, SourceSurvives
<1> QED BY <1>4, <1>5, <1>6 DEF SeedInv

\* A file is brought once: no link to it is there for os.Create to empty.
LEMMA SeedCopy ==
  ASSUME TypeInv, OnceInv, SeedInv, Seeding, NEW p \in Imports, NEW f \in Files,
         SkipFile(p, f) \/ CopyFile(p, f) \/ CopyFails(p, f)
  PROVE  SeedInv'
<1> DEFINE d == proc[p].from
<1>0. Place(d) = d
  BY DEF Seeding, Place
<1>1. /\ Running(p) /\ OneProc(p, proc'[p]) /\ proc[p].at = "copy" /\ f \in proc[p].left
      /\ proc'[p].at = "copy" /\ proc'[p].from = d /\ proc'[p].id = proc[p].id
      /\ proc'[p].left = proc[p].left \ {f}
  BY CopyDoes
<1>2. \A q \in Imports : q # p => proc'[q] = proc[q]
  BY <1>1 DEF OneProc
<1>3. Sharing(proc[p].name, d, f) = {}
  <2>1. \A t \in library : t[2] = d => t[3] # f
    BY <1>1 DEF SeedInv
  <2>2. ASSUME NEW o \in Places, <<proc[p].name, d, f, o>> \in library PROVE FALSE
    <3> DEFINE t == <<proc[p].name, d, f, o>>
    <3>1. t[2] = d /\ t[3] = f
      OBVIOUS
    <3> QED BY <2>1, <2>2, <3>1
  <2> QED BY <1>0, <2>2 DEF Sharing
<1>4. emptied' = {}
  <2>1. emptied = {}
    BY DEF SeedInv, SourceSurvives
  <2>2. emptied' = emptied \/ Truncates(proc[p].name, d, f)
    BY CopyDoes
  <2> QED BY <1>3, <2>1, <2>2 DEF Truncates
<1>5. \A t \in library' : t \in library \/ (t[2] = d /\ t[3] = f)
  <2>1. \A t \in library' : t \in library \/ \E o \in Places :
          t = <<proc[p].name, Place(d), f, o>>
    BY CopyDoes
  <2> QED BY <1>0, <2>1
<1>6. UNCHANGED <<processed, env>>
  BY CopyDoes DEF monitorVars
<1>7. d \in processed
  BY <1>1 DEF TypeInv, OnceInv, SeedInv
<1>8. \A q \in Imports : Running(q)' => proc'[q].id # None
  <2>1. \A q \in Imports : Running(q)' => Running(q) /\ proc'[q].id = proc[q].id
    BY <1>1, <1>2 DEF Running
  <2> QED BY <2>1 DEF SeedInv
<1>9. \A q \in Imports : proc'[q].at \in {"start", "name"} =>
         \A t \in library' : t[2] # proc'[q].from
  <2> SUFFICES ASSUME NEW q \in Imports, proc'[q].at \in {"start", "name"}
               PROVE  \A t \in library' : t[2] # proc'[q].from
    OBVIOUS
  <2>1. q # p /\ proc'[q] = proc[q] /\ Running(q)
    BY <1>1, <1>2 DEF Running
  <2>2. proc[q].from # d
    BY <1>1, <2>1, OwnDownload
  <2> QED BY <1>5, <2>1, <2>2 DEF SeedInv
<1>10. \A q \in Imports : proc'[q].at = "copy" =>
         \A t \in library' : t[2] = proc'[q].from => t[3] \notin proc'[q].left
  <2> SUFFICES ASSUME NEW q \in Imports, proc'[q].at = "copy"
               PROVE  \A t \in library' : t[2] = proc'[q].from => t[3] \notin proc'[q].left
    OBVIOUS
  <2>1. CASE q = p
    BY <1>1, <1>5, <2>1 DEF SeedInv
  <2>2. CASE q # p
    <3>1. proc'[q] = proc[q] /\ Running(q)
      BY <1>2, <2>2 DEF Running
    <3>2. proc[q].from # d
      BY <1>1, <2>2, <3>1, OwnDownload
    <3> QED BY <1>5, <3>1, <3>2 DEF SeedInv
  <2> QED BY <2>1, <2>2
<1>11. \A t \in library' : t[2] \in processed'
  BY <1>5, <1>6, <1>7 DEF SeedInv
<1> QED BY <1>4, <1>8, <1>9, <1>10, <1>11 DEF SeedInv, SourceSurvives

\* The steps of an import keep SeedInv,
LEMMA SeedImport ==
  ASSUME TypeInv, OnceInv, SeedInv, Seeding, NEW p \in Imports, Import(p) PROVE SeedInv'
<1>0. Working(p)
  BY ImportWorks
<1> USE DEF diskVars
<1>1. CASE Begin(p)
  <2>1. /\ proc[p].at = "start" /\ UNCHANGED <<library, emptied>>
        /\ (Goto(p, "name") \/ Goto(p, "finish"))
    BY <1>1 DEF Begin
  <2>2. proc'[p].at \in {"name", "finish"}
    BY <2>1, GoesOn DEF Steps, Running
  <2> QED BY <1>0, <2>1, <2>2, SeedGoes
<1>2. CASE Resolve(p)
  <2>1. proc[p].at = "name" /\ UNCHANGED <<library, emptied>>
    BY <1>2 DEF Resolve
  <2> QED BY <1>0, <1>2, <2>1, SeedGoes, ResolveDoes
<1>3. ASSUME NEW f \in Files, SkipFile(p, f) \/ CopyFile(p, f) \/ CopyFails(p, f)
      PROVE  SeedInv'
  BY <1>3, SeedCopy
<1>4. CASE EndCopy(p)
  <2>1. Running(p) /\ UNCHANGED <<library, emptied>> /\ (Goto(p, "match") \/ Goto(p, "finish"))
    BY <1>4 DEF EndCopy, Running
  <2>2. proc'[p].at \in {"match", "finish"}
    BY <2>1, GoesOn DEF Steps
  <2> QED BY <1>0, <2>1, <2>2, SeedGoes
<1>5. CASE Match(p)
  <2>1. UNCHANGED <<library, emptied>>
    BY <1>5 DEF Match
  <2> QED BY <1>0, <1>5, <2>1, SeedGoes, MatchDoes
<1>6. CASE Save(p)
  <2>1. UNCHANGED <<library, emptied>>
    BY <1>6 DEF Save
  <2> QED BY <1>0, <1>6, <2>1, SeedGoes, SaveDoes
<1>7. CASE SetVersion(p)
  <2>1. Running(p) /\ UNCHANGED <<library, emptied>> /\ Goto(p, "finish")
    BY <1>7 DEF SetVersion, Running
  <2>2. proc'[p].at = "finish"
    BY <2>1, GoesOn DEF Steps
  <2> QED BY <1>0, <2>1, <2>2, SeedGoes
<1>8. CASE Finish(p)
  <2>1. UNCHANGED <<library, emptied>>
    BY <1>8 DEF Finish
  <2> QED BY <1>0, <1>8, <2>1, SeedGoes, FinishDoes
<1> QED BY <1>1, <1>2, <1>3, <1>4, <1>5, <1>6, <1>7, <1>8 DEF Import

\* ... a download that is imported for the first time has nothing in the library,
LEMMA SeedStarts ==
  ASSUME TypeInv, OnceInv, SeedInv, Seeding, NEW d \in Downloads, StartImport(d) PROVE SeedInv'
<1>1. PICK p \in Imports :
        /\ proc[p].at = "idle" /\ OneProc(p, proc'[p])
        /\ proc'[p].at = "start" /\ proc'[p].from = d /\ proc'[p].id = d
  BY StartDoes
<1>2. /\ d \notin processed /\ processed' = processed \union {d}
      /\ UNCHANGED <<library, emptied, env>>
  BY DEF StartImport, OnceInv, diskVars
<1>3. \A q \in Imports : q # p => proc'[q] = proc[q]
  BY <1>1 DEF OneProc
<1>4. \A t \in library : t[2] # d
  BY <1>2 DEF SeedInv
<1>5. d # None
  BY ImportAssumption
<1>6. \A q \in Imports : Running(q)' => proc'[q].id # None
  BY <1>1, <1>3, <1>5 DEF SeedInv, Running
<1>7. \A q \in Imports : proc'[q].at \in {"start", "name"} =>
         \A t \in library' : t[2] # proc'[q].from
  BY <1>1, <1>2, <1>3, <1>4 DEF SeedInv
<1>8. \A q \in Imports : proc'[q].at = "copy" =>
         \A t \in library' : t[2] = proc'[q].from => t[3] \notin proc'[q].left
  BY <1>1, <1>2, <1>3 DEF SeedInv
<1> QED BY <1>2, <1>6, <1>7, <1>8 DEF SeedInv, SourceSurvives

\* ... and nobody else brings files.
LEMMA SeedRest ==
  ASSUME TypeInv, OnceInv, SeedInv, Seeding,
         \/ \E d \in Downloads : \/ \E g \in 0..MaxGame : AddTorrent(d, g)
                                 \/ RecordLink(d) \/ Complete(d) \/ DeleteDownload(d)
                                 \/ NotReachable(d) \/ NotFound(d)
         \/ Outage \/ Poll \/ (\E g \in Ids : RemoveGame(g)) \/ Crash \/ UNCHANGED vars
  PROVE  SeedInv'
<1> USE DEF SeedInv, SourceSurvives, Running, monitorVars, diskVars
<1>1. CASE Crash
  <2>1. \A q \in Imports : proc'[q].at = "idle"
    BY <1>1 DEF Crash, CrashAnd, Idle
  <2>2. UNCHANGED <<library, emptied, processed>>
    BY <1>1 DEF Crash, CrashAnd, Loaded, Seeding, Remembered
  <2> QED BY <2>1, <2>2
<1>2. ASSUME UNCHANGED <<proc, emptied>>, library' \subseteq library, processed \subseteq processed'
      PROVE  SeedInv'
  BY <1>2
<1>3. ASSUME NEW d \in Downloads, NEW g,
             \/ AddTorrent(d, g) \/ RecordLink(d) \/ Complete(d) \/ DeleteDownload(d)
             \/ NotReachable(d) \/ NotFound(d)
      PROVE  UNCHANGED <<proc, emptied, library>> /\ processed \subseteq processed'
  BY <1>3 DEF AddTorrent, RecordLink, Complete, DeleteDownload, NotReachable, NotFound
<1>4. ASSUME NEW g \in Ids, RemoveGame(g)
      PROVE  UNCHANGED <<proc, emptied, processed>> /\ library' \subseteq library
  BY <1>4 DEF RemoveGame
<1>5. ASSUME Outage \/ Poll \/ UNCHANGED vars
      PROVE  UNCHANGED <<proc, emptied, library, processed>>
  BY <1>5 DEF Outage, Poll, vars
<1> QED BY <1>1, <1>2, <1>3, <1>4, <1>5

\* What may happen is part of the environment, which does not change.
LEMMA EnvStays == ASSUME [Next]_vars PROVE env' = env
<1>1. ASSUME NEW p \in Imports, Import(p) PROVE env' = env
  BY <1>1, ZenonT(30) DEF Import, Begin, Resolve, SkipFile, CopyFile, CopyFails, EndCopy, Match,
    Save, SetVersion, Finish
<1>2. ASSUME NEW d \in Downloads, NEW g,
             \/ AddTorrent(d, g) \/ RecordLink(d) \/ Complete(d) \/ DeleteDownload(d)
             \/ NotReachable(d) \/ NotFound(d) \/ StartImport(d) \/ ImportGame(g, d)
      PROVE  env' = env
  BY <1>2 DEF AddTorrent, RecordLink, Complete, DeleteDownload, NotReachable, NotFound,
    StartImport, ImportGame
<1>3. ASSUME NEW g \in Ids, RemoveGame(g) PROVE env' = env
  BY <1>3 DEF RemoveGame
<1>4. ASSUME Outage \/ Poll \/ Crash \/ UNCHANGED vars PROVE env' = env
  BY <1>4 DEF Outage, Poll, Crash, CrashAnd, vars
<1> QED BY SMTT(40), <1>1, <1>2, <1>3, <1>4 DEF Next, Monitor

\* With TypeInv and OnceInv, SeedInv is inductive.
LEMMA SeedStep == ASSUME TypeInv, OnceInv, SeedInv, [Next]_vars PROVE SeedInv'
<1>1. CASE ~Seeding
  BY <1>1, EnvStays DEF SeedInv, Seeding, Unattended, OwnNames, Remembered
<1>2. CASE Seeding
  <2>1. ASSUME NEW d \in Downloads, NEW g, ImportGame(g, d) PROVE FALSE
    BY <1>2, <2>1 DEF ImportGame, Seeding, Unattended
  <2> QED BY <1>2, <2>1, SeedImport, SeedStarts, SeedRest DEF Next, Monitor
<1> QED BY <1>1, <1>2

\* SeedsSurvive: while nobody imports by hand, no two downloads go to one path and no mark is
\* lost in a stop, linkOrCopyFile never meets a link to what is seeded, whatever overlaps,
\* fails, is removed, cannot be reached or is stopped.
THEOREM ImportsKeepSeeding == Spec => []SeedsSurvive
<1>1. Init => TypeInv /\ OnceInv /\ SeedInv
  BY TypeInit, OnceInit, SeedInit
<1>2. TypeInv /\ OnceInv /\ SeedInv /\ [Next]_vars => (TypeInv /\ OnceInv /\ SeedInv)'
  BY TypeStep, OnceStep, SeedStep
<1>3. SeedInv => SeedsSurvive
  BY DEF SeedInv, Seeding, SeedsSurvive
<1> QED BY <1>1, <1>2, <1>3, PTL DEF Spec

-----------------------------------------------------------------------------
(* A directory is listed whole.                                            *)

\* Where names are its own, what shares its content with a file is under its name.
LEMMA Shared ==
  ASSUME OwnNames, NEW n, NEW d, NEW f PROVE (Sharing(n, d, f) # {}) <=> Has(library, n, d, f)
  BY DEF Sharing, Has, Place

\* The library is empty at first.
LEMMA WholeInit == Init => WholeInv
<1> SUFFICES ASSUME Init PROVE WholeInv
  OBVIOUS
<1>1. \A p \in Imports : proc[p].at = "idle"
  BY DEF Init, Idle
<1> QED BY <1>1 DEF Init, WholeInv

\* A goroutine that goes on, while the others keep what they have brought.
LEMMA WholeGoes ==
  ASSUME TypeInv, OnceInv, WholeInv, OwnNames, NEW p \in Imports, Working(p),
         library \subseteq library', failed \subseteq failed',
         proc'[p].at \in {"start", "name"} => ~proc'[p].good,
         proc'[p].at = "copy" => Copied(p)',
         proc'[p].at \in {"match", "save"} => Brought(p)',
         "manual" \in env =>
           /\ proc'[p].at \notin {"idle", "start"} =>
                \A q \in Imports \ {p} : proc[q].at \in {"idle", "start"}
           /\ \A t \in library' : t \notin library => Copying(p, t)'
           /\ \A t \in library : Directory(t[2]) /\ Copying(p, t) =>
                Copying(p, t)' \/ \A f \in data'[t[2]] : There(t[1], t[2], f)'
  PROVE  WholeInv'
<1>1. \A q \in Imports : q # p => proc'[q] = proc[q]
  BY DEF Working, OneProc
<1>2. /\ \A d \in Downloads : data'[d] \subseteq data[d]
      /\ \A q \in Imports : Running(q) => proc[q].from \in Downloads
      /\ \A t \in library : t[2] \in Downloads
      /\ env' = env
  BY DEF Working, TypeInv, TypeOK, OnceInv
<1>6. /\ \A n, d, f : There(n, d, f) => There(n, d, f)'
      /\ \A d : Directory(d)' = Directory(d)
  BY <1>2 DEF There, Has, Directory
<1>3. ASSUME NEW q \in Imports, q # p
      PROVE  /\ proc'[q].at \in {"start", "name"} => ~proc'[q].good
             /\ proc'[q].at = "copy" => Copied(q)'
             /\ proc'[q].at \in {"match", "save"} => Brought(q)'
  <2>1. proc'[q] = proc[q]
    BY <1>1, <1>3
  <2>2. proc[q].at = "copy" => Copied(q)'
    <3> SUFFICES ASSUME proc[q].at = "copy" PROVE Copied(q)'
      OBVIOUS
    <3>1. Copied(q) /\ data'[proc[q].from] \subseteq data[proc[q].from]
      BY <1>2 DEF WholeInv, Running
    <3> QED BY <1>6, <2>1, <3>1 DEF Copied
  <2>3. proc[q].at \in {"match", "save"} => Brought(q)'
    <3> SUFFICES ASSUME proc[q].at \in {"match", "save"} PROVE Brought(q)'
      OBVIOUS
    <3>1. Brought(q) /\ data'[proc[q].from] \subseteq data[proc[q].from]
      BY <1>2 DEF WholeInv, Running
    <3> QED BY <1>6, <2>1, <3>1 DEF Brought
  <2> QED BY <2>1, <2>2, <2>3 DEF WholeInv
<1>4. ASSUME "manual" \in env
      PROVE  \A q, r \in Imports :
               proc'[q].at \notin {"idle", "start"} /\ proc'[r].at \notin {"idle", "start"} => q = r
  BY <1>1, <1>4 DEF WholeInv
<1>5. ASSUME "manual" \in env, NEW t \in library'
      PROVE  \/ ~Directory(t[2])'
             \/ \E q \in Imports : Copying(q, t)'
             \/ \A f \in data'[t[2]] : There(t[1], t[2], f)'
  <2>1. CASE t \notin library
    BY <1>5, <2>1
  <2>2. CASE t \in library
    <3>1. CASE ~Directory(t[2])
      BY <1>6, <3>1
    <3>2. CASE \A f \in data[t[2]] : There(t[1], t[2], f)
      <4>1. data'[t[2]] \subseteq data[t[2]]
        BY <1>2, <2>2
      <4> QED BY <1>6, <3>2, <4>1
    <3>3. CASE Directory(t[2]) /\ \E q \in Imports : Copying(q, t)
      <4>1. PICK q \in Imports : Copying(q, t)
        BY <3>3
      <4>2. CASE q = p
        BY <1>5, <2>2, <3>3, <4>1, <4>2
      <4>3. CASE q # p
        BY <1>1, <4>1, <4>3 DEF Copying
      <4> QED BY <4>2, <4>3
    <3> QED BY <1>5, <2>2, <3>1, <3>2, <3>3 DEF WholeInv
  <2> QED BY <2>1, <2>2
<1> QED BY <1>2, <1>3, <1>4, <1>5 DEF WholeInv

\* The directory of a download is cleaned and found, or its files are to be copied.
LEMMA WholeFound ==
  ASSUME TypeInv, OnceInv, SeedInv, WholeInv, NEW p \in Imports, Begin(p) \/ Resolve(p),
         Considerate
  PROVE  WholeInv'
<1> DEFINE d == proc[p].from
<1>0. Working(p) /\ OwnNames
  BY ImportWorks DEF Import, Considerate
<1>1. CASE Begin(p)
  <2>1. /\ Running(p) /\ proc[p].at = "start" /\ UNCHANGED <<library, failed>>
        /\ (Goto(p, "name") \/ Goto(p, "finish"))
    BY <1>1 DEF Begin, Running, diskVars
  <2>2. proc'[p].at \in {"name", "finish"} /\ proc'[p].good = proc[p].good
    BY <2>1, GoesOn DEF Steps
  <2>3. ~proc[p].good
    BY <2>1 DEF WholeInv
  <2>4. "manual" \in env => \A q \in Imports \ {p} : proc[q].at \in {"idle", "start"}
    BY <1>1 DEF Begin, Considerate, Unattended
  <2>5. \A t : ~Copying(p, t)
    BY <2>1 DEF Copying
  <2> QED BY <1>0, <2>1, <2>2, <2>3, <2>4, <2>5, WholeGoes
<1>2. CASE Resolve(p)
  <2>1. /\ Running(p) /\ proc[p].at = "name" /\ ~proc[p].good
        /\ UNCHANGED <<library, failed, data, env>>
    BY <1>2 DEF Resolve, Running, diskVars, clientVars, WholeInv
  <2>2. /\ proc'[p].from = d /\ ~proc'[p].good
        /\ proc'[p].left = IF Directory(d) THEN data[d] ELSE data[d] \intersect GameFiles
        /\ proc'[p].at = IF /\ Directory(d)
                            /\ \E f \in Files : Sharing(proc'[p].name, d, f) # {}
                         THEN "match" ELSE "copy"
    BY <1>2, <2>1, ResolveDoes
  <2>3. proc'[p].at = "copy" => Copied(p)'
    BY <2>1, <2>2 DEF Copied, Directory
  <2>4. ASSUME proc'[p].at = "match" PROVE Brought(p)'
    <3>1. PICK f \in Files : Has(library, proc'[p].name, d, f)
      BY <1>0, <2>2, <2>4, Shared
    <3>0. PICK o \in Places : <<proc'[p].name, d, f, o>> \in library
      BY <3>1 DEF Has
    <3> DEFINE t == <<proc'[p].name, d, f, o>>
    <3>2. t \in library /\ t[1] = proc'[p].name /\ t[2] = d /\ Directory(d)
      BY <2>2, <2>4, <3>0
    <3> HIDE DEF t
    <3>3. "manual" \in env
      BY <2>1, <3>2 DEF SeedInv, Seeding, Unattended, Considerate
    <3>4. \A q \in Imports : ~Copying(q, t)
      BY <2>1, <3>3 DEF WholeInv, Copying
    <3>5. \A g \in data[d] : There(proc'[p].name, d, g)
      BY <3>2, <3>3, <3>4 DEF WholeInv
    <3> QED BY <2>1, <2>2, <3>5 DEF Brought, There
  <2>5. "manual" \in env => \A q \in Imports \ {p} : proc[q].at \in {"idle", "start"}
    BY <2>1 DEF WholeInv
  <2>6. \A t : ~Copying(p, t)
    BY <2>1 DEF Copying
  <2>7. proc'[p].at \in {"match", "copy"}
    BY <2>2
  <2> QED BY <1>0, <2>1, <2>2, <2>3, <2>4, <2>5, <2>6, <2>7, WholeGoes
<1> QED BY <1>1, <1>2

\* A file that is brought, or fails, moves from what is left to what is there.
LEMMA WholeCopy ==
  ASSUME TypeInv, OnceInv, WholeInv, OwnNames, NEW p \in Imports, NEW f \in Files,
         SkipFile(p, f) \/ CopyFile(p, f) \/ CopyFails(p, f)
  PROVE  WholeInv'
<1> DEFINE d == proc[p].from
           n == proc[p].name
<1>1. Working(p)
  BY ImportWorks DEF Import
<1>2. /\ Running(p) /\ proc[p].at = "copy" /\ UNCHANGED <<data, env>>
      /\ proc'[p].at = "copy" /\ proc'[p].from = d /\ proc'[p].name = n
      /\ proc'[p].left = proc[p].left \ {f}
      /\ proc'[p].good = proc[p].good \/ (f \in data[d] /\ f \in GameFiles)
      /\ library \subseteq library' /\ failed \subseteq failed'
  BY CopyDoes DEF clientVars
<1>3. Copied(p) /\ d \in Downloads /\ Place(d) = d
  BY <1>2 DEF WholeInv, TypeInv, Place
<1>4. /\ f \in data[d] => Has(library', n, d, f) \/ <<d, f>> \in failed'
      /\ \A t \in library' : t \in library \/ (t[1] = n /\ t[2] = d)
  <2>1. /\ f \in data[d] => \/ \E o \in Places : <<n, Place(d), f, o>> \in library'
                            \/ <<d, f>> \in failed'
        /\ \A t \in library' : t \in library \/ \E o \in Places : t = <<n, Place(d), f, o>>
    BY CopyDoes
  <2> QED BY <1>3, <2>1 DEF Has
<1>5. \A g : There(n, d, g) => Has(library', n, d, g) \/ <<d, g>> \in failed'
  BY <1>2 DEF There, Has
<1>6. Copied(p)'
  <2>0. ASSUME NEW g \in data[d]
        PROVE  IF Directory(d) \/ g \in GameFiles
               THEN g \in proc'[p].left \/ Has(library', n, d, g) \/ <<d, g>> \in failed'
               ELSE ~proc'[p].good
    <3>1. IF Directory(d) \/ g \in GameFiles THEN g \in proc[p].left \/ There(n, d, g)
          ELSE ~proc[p].good
      BY <1>3 DEF Copied
    <3>2. CASE Directory(d) \/ g \in GameFiles
      BY <1>2, <1>4, <1>5, <3>1, <3>2
    <3>3. CASE ~(Directory(d) \/ g \in GameFiles)
      <4>1. f \in data[d] => f = g
        BY <1>3, <3>3 DEF OnceInv
      <4> QED BY <1>2, <3>1, <3>3, <4>1
    <3> QED BY <3>2, <3>3
  <2> QED BY <1>2, <2>0 DEF Copied, There, Directory
<1>7. \A t \in library' : t \notin library => Copying(p, t)'
  BY <1>2, <1>4 DEF Copying
<1>8. \A t : Copying(p, t) => Copying(p, t)'
  BY <1>2 DEF Copying
<1>9. "manual" \in env => \A q \in Imports \ {p} : proc[q].at \in {"idle", "start"}
  BY <1>2 DEF WholeInv
<1> QED BY <1>1, <1>2, <1>6, <1>7, <1>8, <1>9, WholeGoes

\* When nothing is left, the directory is whole.
LEMMA WholeEndCopy ==
  ASSUME TypeInv, OnceInv, WholeInv, OwnNames, NEW p \in Imports, EndCopy(p) PROVE WholeInv'
<1> DEFINE d == proc[p].from
           n == proc[p].name
<1>1. /\ Working(p) /\ Running(p) /\ proc[p].at = "copy" /\ Copied(p) /\ proc[p].left = {}
      /\ UNCHANGED <<data, library, failed>>
  BY ImportWorks DEF Import, EndCopy, Running, clientVars, diskVars, WholeInv
<1>2. /\ Goto(p, IF proc[p].good THEN "match" ELSE "finish")
  BY DEF EndCopy
<1>3. /\ proc'[p].at = IF proc[p].good THEN "match" ELSE "finish"
      /\ proc'[p].from = d /\ proc'[p].name = n
  <2>1. (IF proc[p].good THEN "match" ELSE "finish") \in Steps
    BY DEF Steps
  <2> QED BY <1>1, <1>2, <2>1, GoesOn
<1>4. proc[p].good \/ Directory(d) => \A f \in data[d] : There(n, d, f)
  BY <1>1 DEF Copied
<1>5. proc[p].good => Brought(p)'
  BY <1>1, <1>3, <1>4 DEF Brought, There
<1>6. \A t \in library : Directory(t[2]) /\ Copying(p, t) =>
        \A f \in data'[t[2]] : There(t[1], t[2], f)'
  BY <1>1, <1>4 DEF Copying, There
<1>7. "manual" \in env => \A q \in Imports \ {p} : proc[q].at \in {"idle", "start"}
  BY <1>1 DEF WholeInv
<1>8. proc'[p].at \in {"match", "finish"} /\ (proc'[p].at = "match" => proc[p].good)
  BY <1>3
<1> QED BY <1>1, <1>5, <1>6, <1>7, <1>8, WholeGoes

\* Nothing is taken from it before the row is written.
LEMMA WholeEnds ==
  ASSUME TypeInv, OnceInv, WholeInv, OwnNames, NEW p \in Imports,
         Match(p) \/ Save(p) \/ SetVersion(p) \/ Finish(p)
  PROVE  WholeInv'
<1>1. /\ Working(p) /\ Running(p) /\ proc[p].at \in {"match", "save", "version", "finish"}
      /\ UNCHANGED <<data, library, failed>>
  <2>1. Working(p)
    BY ImportWorks DEF Import
  <2> QED BY <2>1 DEF Match, Save, SetVersion, Finish, Running, clientVars, diskVars
<1>2. /\ proc'[p].at \in {"save", "version", "finish", "idle"}
      /\ proc'[p].at = "save" => /\ proc[p].at = "match" /\ proc'[p].from = proc[p].from
                                 /\ proc'[p].name = proc[p].name
  <2>1. CASE Match(p)
    BY <2>1, MatchDoes DEF Match
  <2>2. CASE Save(p)
    BY <2>2, SaveDoes
  <2>3. CASE SetVersion(p)
    <3>1. Goto(p, "finish")
      BY <2>3 DEF SetVersion
    <3> QED BY <1>1, <3>1, GoesOn DEF Steps
  <2>4. CASE Finish(p)
    BY <2>4, FinishDoes
  <2> QED BY <2>1, <2>2, <2>3, <2>4
<1>3. proc'[p].at = "save" => Brought(p)'
  BY <1>1, <1>2 DEF WholeInv, Brought, There
<1>4. \A t : ~Copying(p, t)
  BY <1>1 DEF Copying
<1>5. "manual" \in env => \A q \in Imports \ {p} : proc[q].at \in {"idle", "start"}
  BY <1>1 DEF WholeInv
<1> QED BY <1>1, <1>2, <1>3, <1>4, <1>5, WholeGoes

\* An import that starts has brought nothing.
LEMMA WholeStarts ==
  ASSUME TypeInv, WholeInv, NEW d \in Downloads, NEW g, StartImport(d) \/ ImportGame(g, d)
  PROVE  WholeInv'
<1>1. PICK p \in Imports :
        proc[p].at = "idle" /\ OneProc(p, proc'[p]) /\ proc'[p].at = "start" /\ ~proc'[p].good
  BY StartDoes, ManualDoes
<1>2. UNCHANGED <<data, library, failed, env>>
  BY DEF StartImport, ImportGame, clientVars, diskVars
<1>0. \A e : Directory(e)' = Directory(e)
  BY <1>2 DEF Directory
<1>3. \A q \in Imports : q # p => proc'[q] = proc[q]
  BY <1>1 DEF OneProc
<1>4. \A q \in Imports : \A t : Copying(q, t) => Copying(q, t)'
  BY <1>1, <1>3 DEF Copying
<1>5. ASSUME NEW q \in Imports
      PROVE  /\ proc'[q].at \in {"start", "name"} => ~proc'[q].good
             /\ proc'[q].at = "copy" => Copied(q)'
             /\ proc'[q].at \in {"match", "save"} => Brought(q)'
  <2>1. CASE q = p
    BY <1>1, <2>1
  <2>2. CASE q # p
    BY <1>0, <1>2, <1>3, <2>2 DEF WholeInv, Copied, Brought, There
  <2> QED BY <2>1, <2>2
<1>6. "manual" \in env =>
        /\ \A q, r \in Imports :
             proc'[q].at \notin {"idle", "start"} /\ proc'[r].at \notin {"idle", "start"} => q = r
        /\ \A t \in library :
             ~Directory(t[2]) \/ (\E q \in Imports : Copying(q, t)')
               \/ \A f \in data[t[2]] : There(t[1], t[2], f)
  BY <1>1, <1>3, <1>4 DEF WholeInv
<1> QED BY <1>0, <1>2, <1>5, <1>6 DEF WholeInv, There

\* What a download gets when it completes is of no import, and not in the library.
LEMMA WholeRest ==
  ASSUME TypeInv, OnceInv, WholeInv, Considerate,
         \/ \E d \in Downloads : \/ \E g \in 0..MaxGame : AddTorrent(d, g)
                                 \/ RecordLink(d) \/ Complete(d) \/ DeleteDownload(d)
                                 \/ NotReachable(d) \/ NotFound(d)
         \/ Outage \/ Poll \/ (\E g \in Ids : RemoveGame(g)) \/ Crash \/ UNCHANGED vars
  PROVE  WholeInv'
<1> USE DEF clientVars, monitorVars, diskVars
<1>0. /\ \A q \in Imports : Running(q) => proc[q].from \in Downloads
      /\ \A t \in library : t[2] \in Downloads
      /\ data \in [Downloads -> SUBSET Files]
  BY DEF TypeInv, TypeOK, OnceInv, Considerate
<1>1. CASE Crash
  <2>1. "manual" \notin env /\ env' = env
    BY <1>1 DEF Crash, CrashAnd, Considerate, Unattended
  <2>2. \A q \in Imports : proc'[q].at = "idle"
    BY <1>1 DEF Crash, CrashAnd, Idle
  <2> QED BY <2>1, <2>2 DEF WholeInv
<1>2. ASSUME UNCHANGED <<proc, library, failed, env>>,
             \A d \in Downloads : Ended(d) => data'[d] \subseteq data[d]
      PROVE  WholeInv'
  <2>1. \A q \in Imports : proc[q].at # "idle" => data'[proc[q].from] \subseteq data[proc[q].from]
    BY <1>0, <1>2 DEF OnceInv, Running
  <2>2. \A t \in library : data'[t[2]] \subseteq data[t[2]]
    BY <1>0, <1>2 DEF OnceInv, Considerate
  <2>0. \A d : Directory(d)' = Directory(d)
    BY <1>2 DEF Directory
  <2>3. \A q \in Imports : /\ proc[q].at = "copy" => Copied(q)'
                           /\ proc[q].at \in {"match", "save"} => Brought(q)'
    <3> SUFFICES ASSUME NEW q \in Imports
                 PROVE  /\ proc[q].at = "copy" => Copied(q)'
                        /\ proc[q].at \in {"match", "save"} => Brought(q)'
      OBVIOUS
    <3>1. proc[q].at = "copy" => Copied(q)'
      BY <1>2, <2>0, <2>1 DEF WholeInv, Copied, There
    <3>2. proc[q].at \in {"match", "save"} => Brought(q)'
      BY <1>2, <2>1 DEF WholeInv, Brought, There
    <3> QED BY <3>1, <3>2
  <2>4. \A q \in Imports : \A t : Copying(q, t)' = Copying(q, t)
    BY <1>2 DEF Copying
  <2>5. "manual" \in env =>
          /\ \A q, r \in Imports :
               proc'[q].at \notin {"idle", "start"} /\ proc'[r].at \notin {"idle", "start"} => q = r
          /\ \A t \in library :
               ~Directory(t[2]) \/ (\E q \in Imports : Copying(q, t)')
                 \/ \A f \in data'[t[2]] : There(t[1], t[2], f)
    BY <1>2, <2>2, <2>4 DEF WholeInv
  <2> QED BY <1>2, <2>0, <2>3, <2>5 DEF WholeInv, There
<1>3. ASSUME NEW d \in Downloads, NEW g,
             \/ AddTorrent(d, g) \/ RecordLink(d) \/ Complete(d) \/ DeleteDownload(d)
             \/ NotReachable(d) \/ NotFound(d)
      PROVE  /\ UNCHANGED <<proc, library, failed, env>>
             /\ \A e \in Downloads : Ended(e) => data'[e] \subseteq data[e]
  <2>1. Complete(d) => \A e \in Downloads : Ended(e) => data'[e] \subseteq data[e]
    <3> SUFFICES ASSUME Complete(d), NEW e \in Downloads, Ended(e) PROVE data'[e] \subseteq data[e]
      OBVIOUS
    <3>1. e # d
      BY DEF Complete, Ended
    <3> QED BY <1>0, <3>1 DEF Complete
  <2>2. DeleteDownload(d) => \A e \in Downloads : data'[e] \subseteq data[e]
    BY <1>0 DEF DeleteDownload
  <2> QED BY <1>3, <2>1, <2>2 DEF AddTorrent, RecordLink, Complete, DeleteDownload,
    NotReachable, NotFound
<1>4. ASSUME NEW g \in Ids, RemoveGame(g) PROVE UNCHANGED <<proc, library, failed, env, data>>
  BY <1>4 DEF RemoveGame, Considerate
<1>5. ASSUME Outage \/ Poll \/ UNCHANGED vars PROVE UNCHANGED <<proc, library, failed, env, data>>
  BY <1>5 DEF Outage, Poll, vars
<1> QED BY <1>1, <1>2, <1>3, <1>4, <1>5

\* With the invariants before it, WholeInv is inductive.
LEMMA WholeStep ==
  ASSUME TypeInv, OnceInv, SeedInv, WholeInv, Considerate, [Next]_vars PROVE WholeInv'
<1>1. ASSUME NEW p \in Imports, Import(p) PROVE WholeInv'
  BY <1>1, WholeFound, WholeCopy, WholeEndCopy, WholeEnds DEF Import, Considerate
<1> QED BY <1>1, WholeStarts, WholeRest DEF Next, Monitor

\* WholeWhenListed: addGameToLibrary writes the path of a directory that has every file of
\* the download which linkOrCopyFile did not fail on, in the environments that are
\* considerate.
THEOREM ListedIsWhole == Spec => WholeWhenListed
<1> DEFINE Inv == TypeInv /\ OnceInv /\ SeedInv /\ (Considerate => WholeInv)
           Whole == \A p \in Imports :
             (Considerate /\ proc[p].at = "save" /\ proc'[p].at = "version") =>
               LET d == proc[p].from IN
               \A f \in data[d] : Sharing(proc[p].name, d, f) # {} \/ <<d, f>> \in failed
<1>1. Init => Inv
  BY TypeInit, OnceInit, SeedInit, WholeInit
<1>2. Inv /\ [Next]_vars => Inv'
  <2>1. [Next]_vars => Considerate' = Considerate
    BY EnvStays DEF Considerate, OwnNames, Remembered, Unattended
  <2> QED BY <2>1, TypeStep, OnceStep, SeedStep, WholeStep
<1>3. Inv /\ [Next]_vars => Whole
  <2> SUFFICES ASSUME Inv, Considerate, NEW p \in Imports, proc[p].at = "save",
                      NEW f \in data[proc[p].from]
               PROVE  \/ Sharing(proc[p].name, proc[p].from, f) # {}
                      \/ <<proc[p].from, f>> \in failed
    OBVIOUS
  <2> QED BY Shared DEF WholeInv, Brought, There, Considerate
<1>4. WholeWhenListed <=> [][Whole]_vars
  BY DEF WholeWhenListed
<1> HIDE DEF Inv, Whole
<1> QED BY <1>1, <1>2, <1>3, <1>4, PTL DEF Spec

-----------------------------------------------------------------------------
(* A download goes to the game it was started from.                        *)

\* No game has been clicked at first.
LEMMA ClickInit == Init => ClickInv
<1> SUFFICES ASSUME Init PROVE ClickInv
  OBVIOUS
<1>1. \A p \in Imports : proc[p].at = "idle"
  BY DEF Init, Idle
<1>2. lastId = 1
  BY DEF Init
<1> QED BY <1>1, <1>2 DEF Init, ClickInv, NoId, NoLinks

\* The part of ClickInv that is about a download, and the part about an import.
ClickOf(d) ==
  /\ torrent[d] = "completed" \/ d \in polled \union processed => request[d] = NoId
  /\ torrent[d] = "absent" => request[d] = NoId /\ links[d] = NoId /\ wanted[d] = NoId
  /\ request[d] # NoId => wanted[d] = request[d] /\ links[d] = NoId
  /\ request[d] = NoId /\ d \notin processed => links[d] = wanted[d]
  /\ wanted[d] <= lastId

ClickIn(p) ==
  proc[p].id # None =>
    /\ proc[p].at \in {"start", "name", "copy", "match"} => links[proc[p].id] = wanted[proc[p].id]
    /\ proc[p].at = "save" /\ wanted[proc[p].id] \in DOMAIN rows =>
         proc[p].game = wanted[proc[p].id]

\* ClickInv by its parts,
LEMMA ClickParts ==
  ClickInv <=> (\A d \in Downloads : ClickOf(d)) /\ (\A p \in Imports : ClickIn(p))
  BY DEF ClickInv, ClickOf, ClickIn

\* ... and the same after a step.
LEMMA ClickAgain ==
  (\A d \in Downloads : ClickOf(d)') /\ (\A p \in Imports : ClickIn(p)') => ClickInv'
  BY DEF ClickInv, ClickOf, ClickIn

\* An import of the monitor is of a download it has marked.
LEMMA IdMarked ==
  ASSUME TypeInv, OnceInv, NEW p \in Imports, Running(p), proc[p].id # None
  PROVE  proc[p].id \in Downloads /\ proc[p].id \in processed /\ Ended(proc[p].id)
  BY DEF TypeInv, OnceInv

\* A step of an import that does not look at the link.
LEMMA ClickGoes ==
  ASSUME TypeInv, OnceInv, ClickInv, NEW p \in Imports, Working(p), UNCHANGED links,
         lastId' \in Nat, lastId <= lastId',
         \A g \in DOMAIN rows' : g \in DOMAIN rows \/ g > lastId,
         proc'[p].at # "save",
         proc'[p].at \in {"start", "name", "copy", "match"} =>
           proc[p].at \in {"start", "name", "copy", "match"}
  PROVE  ClickInv'
<1>0. /\ UNCHANGED <<torrent, polled, processed, request, wanted>>
      /\ \A q \in Imports : q # p => proc'[q] = proc[q]
      /\ Running(p) /\ (Running(p)' => proc'[p].id = proc[p].id)
  BY DEF Working, OneProc
<1>1. ASSUME NEW d \in Downloads PROVE ClickOf(d)'
  <2>1. wanted[d] \in Nat /\ lastId \in Nat
    BY ImportAssumption DEF TypeInv, TypeOK, Ids, NoId
  <2>2. ClickOf(d)
    BY ClickParts
  <2> QED BY <1>0, <2>1, <2>2 DEF ClickOf
<1>2. ASSUME NEW q \in Imports PROVE ClickIn(q)'
  <2>1. ClickIn(q)
    BY ClickParts
  <2>2. CASE q = p
    BY <1>0, <2>1, <2>2 DEF ClickIn, Running
  <2>3. CASE q # p
    <3>1. proc'[q] = proc[q]
      BY <1>0, <2>3
    <3>2. ASSUME proc[q].at = "save", proc[q].id # None, wanted[proc[q].id] \in DOMAIN rows'
          PROVE  wanted[proc[q].id] \in DOMAIN rows
      <4>1. proc[q].id \in Downloads
        BY <3>2, IdMarked DEF Running
      <4>2. wanted[proc[q].id] <= lastId /\ wanted[proc[q].id] \in Nat /\ lastId \in Nat
        BY <4>1, ClickParts, ImportAssumption DEF ClickOf, TypeInv, TypeOK, Ids, NoId
      <4> QED BY <3>2, <4>2
    <3> QED BY <1>0, <2>1, <3>1, <3>2 DEF ClickIn
  <2> QED BY <2>2, <2>3
<1> QED BY <1>1, <1>2, ClickAgain

\* Match takes the link of its download, and no other import has that download.
LEMMA ClickMatch ==
  ASSUME TypeInv, OnceInv, ClickInv, Linked, NEW p \in Imports, Match(p) PROVE ClickInv'
<1> DEFINE id == proc[p].id
<1>1. /\ Working(p) /\ Running(p) /\ proc[p].at = "match" /\ UNCHANGED <<rows, lastId>>
      /\ links' = IF id = None THEN links ELSE [links EXCEPT ![id] = NoId]
      /\ links \in [Downloads -> Ids \union {NoId}]
  <2>1. HasLink(id) <=> id # None /\ links[id] # NoId
    BY DEF HasLink, Linked
  <2>2. links' = IF HasLink(id) THEN [links EXCEPT ![id] = NoId] ELSE links
    BY DEF Match
  <2>3. Working(p) /\ Running(p) /\ proc[p].at = "match" /\ UNCHANGED <<rows, lastId>>
    BY ImportWorks DEF Import, Match, Running
  <2>4. links \in [Downloads -> Ids \union {NoId}]
    BY DEF TypeInv, TypeOK
  <2>5. id # None => id \in Downloads
    BY <2>3, Fields
  <2> HIDE DEF id
  <2>6. links' = IF id = None THEN links ELSE [links EXCEPT ![id] = NoId]
    BY <2>1, <2>2, <2>4, <2>5
  <2> QED BY <2>3, <2>4, <2>6
<1>2. /\ proc'[p].at \in {"save", "finish"} /\ proc'[p].id = id
      /\ LinkedGame(id) # {} => proc'[p].game \in LinkedGame(id)
      /\ \A q \in Imports : q # p => proc'[q] = proc[q]
  BY MatchDoes DEF OneProc
<1>3. id # None => id \in Downloads /\ id \in processed /\ Ended(id)
  BY <1>1, IdMarked
<1>4. UNCHANGED <<torrent, polled, processed, request, wanted>>
  BY <1>1 DEF Working
<1>5. ASSUME NEW d \in Downloads PROVE ClickOf(d)'
  <2>1. ClickOf(d)
    BY ClickParts
  <2>2. links'[d] = links[d] \/ (links'[d] = NoId /\ d \in processed)
    BY <1>1, <1>3
  <2> QED BY <1>1, <1>4, <2>1, <2>2 DEF ClickOf
<1>6. ASSUME NEW q \in Imports PROVE ClickIn(q)'
  <2>1. ClickIn(q)
    BY ClickParts
  <2>2. CASE q = p
    <3>1. links[id] = wanted[id] \/ id = None
      BY <1>1, <2>1, <2>2 DEF ClickIn
    <3>2. id # None /\ wanted[id] \in DOMAIN rows => LinkedGame(id) = {wanted[id]}
      <4>1. wanted[id] \in DOMAIN rows => wanted[id] # NoId
        BY ImportAssumption DEF TypeInv, TypeOK, NoId
      <4> QED BY <3>1, <4>1 DEF LinkedGame, HasLink, Linked
    <3> QED BY <1>1, <1>2, <1>4, <2>2, <3>2 DEF ClickIn
  <2>3. CASE q # p
    <3>1. proc'[q] = proc[q]
      BY <1>2, <2>3
    <3>2. Running(q) /\ proc[q].id # None => proc[q].id # id /\ proc[q].id \in Downloads
      BY <1>1, <2>3, IdMarked DEF OnceInv
    <3>3. Running(q) /\ proc[q].id # None => links'[proc[q].id] = links[proc[q].id]
      BY <1>1, <3>2
    <3> QED BY <1>1, <1>4, <2>1, <3>1, <3>3 DEF ClickIn, Running
  <2> QED BY <2>2, <2>3
<1> QED BY <1>5, <1>6, ClickAgain

\* The steps of an import keep ClickInv.
LEMMA ClickImport ==
  ASSUME TypeInv, OnceInv, ClickInv, Linked, NEW p \in Imports, Import(p) PROVE ClickInv'
<1>0. Working(p)
  BY ImportWorks
<1>1. lastId \in Nat
  BY ImportAssumption DEF TypeInv, TypeOK
<1> USE DEF linkVars, rowVars
<1>2. CASE Begin(p)
  <2>1. /\ proc[p].at = "start" /\ UNCHANGED <<links, rows, lastId>>
        /\ (Goto(p, "name") \/ Goto(p, "finish"))
    BY <1>2 DEF Begin
  <2>2. proc'[p].at \in {"name", "finish"}
    BY <2>1, GoesOn DEF Steps, Running
  <2> QED BY <1>0, <1>1, <2>1, <2>2, ClickGoes
<1>3. CASE Resolve(p)
  <2>1. proc[p].at = "name" /\ UNCHANGED <<links, rows, lastId>>
    BY <1>3 DEF Resolve
  <2>2. proc'[p].at \in {"match", "copy"}
    BY <1>3, ResolveDoes
  <2> QED BY <1>0, <1>1, <2>1, <2>2, ClickGoes
<1>4. ASSUME NEW f \in Files, SkipFile(p, f) \/ CopyFile(p, f) \/ CopyFails(p, f)
      PROVE  ClickInv'
  <2>1. proc[p].at = "copy" /\ UNCHANGED <<links, rows, lastId>>
    BY <1>4, CopyDoes
  <2>2. proc'[p].at = "copy"
    BY <1>4, CopyDoes
  <2> QED BY <1>0, <1>1, <2>1, <2>2, ClickGoes
<1>5. CASE EndCopy(p)
  <2>1. /\ proc[p].at = "copy" /\ UNCHANGED <<links, rows, lastId>>
        /\ (Goto(p, "match") \/ Goto(p, "finish"))
    BY <1>5 DEF EndCopy
  <2>2. proc'[p].at \in {"match", "finish"}
    BY <2>1, GoesOn DEF Steps, Running
  <2> QED BY <1>0, <1>1, <2>1, <2>2, ClickGoes
<1>6. CASE Match(p)
  BY <1>6, ClickMatch
<1>7. CASE Save(p)
  <2>1. UNCHANGED links
    BY <1>7 DEF Save
  <2>2. /\ proc'[p].at = "version"
        /\ \/ lastId' = lastId /\ DOMAIN rows' = DOMAIN rows
           \/ lastId' = lastId + 1 /\ DOMAIN rows' = DOMAIN rows \union {lastId'}
    BY <1>7, SaveDoes
  <2>3. /\ lastId' \in Nat /\ lastId <= lastId'
        /\ \A g \in DOMAIN rows' : g \in DOMAIN rows \/ g > lastId
    BY <1>1, <2>2
  <2> QED BY <1>0, <2>1, <2>2, <2>3, ClickGoes
<1>8. CASE SetVersion(p)
  <2>1. Running(p) /\ UNCHANGED <<links, lastId>> /\ Goto(p, "finish")
    BY <1>8 DEF SetVersion, Running
  <2>2. proc'[p].at = "finish"
    BY <2>1, GoesOn DEF Steps
  <2>3. DOMAIN rows' = DOMAIN rows
    <3>1. rows \in [DOMAIN rows -> GameRow]
      BY DEF TypeInv
    <3>2. CASE proc[p].id = None
      BY <1>8, <3>2 DEF SetVersion
    <3>3. CASE proc[p].id # None
      <4>1. proc[p].id \in Names \union {None}
        BY <2>1, Fields DEF Names
      <4> QED BY <1>8, <3>1, <3>3, <4>1, RowsKept DEF SetVersion, UpdateGameVersion
    <3> QED BY <3>2, <3>3
  <2> QED BY <1>0, <1>1, <2>1, <2>2, <2>3, ClickGoes
<1>9. CASE Finish(p)
  <2>1. UNCHANGED <<links, rows, lastId>>
    BY <1>9 DEF Finish
  <2>2. proc'[p].at = "idle"
    BY <1>9, FinishDoes
  <2> QED BY <1>0, <1>1, <2>1, <2>2, ClickGoes
<1> QED BY <1>2, <1>3, <1>4, <1>5, <1>6, <1>7, <1>8, <1>9 DEF Import

\* A request, and its link, are of a download that no import has.
LEMMA ClickClient ==
  ASSUME TypeInv, OnceInv, ClickInv, Linked, NEW d \in Downloads, NEW g,
         \/ AddTorrent(d, g) \/ RecordLink(d) \/ Complete(d) \/ DeleteDownload(d)
         \/ NotReachable(d) \/ NotFound(d)
  PROVE  ClickInv'
<1>0. /\ torrent \in [Downloads -> {"absent", "downloading", "completed", "removed"}]
      /\ request \in [Downloads -> Ids \union {NoId}] /\ links \in [Downloads -> Ids \union {NoId}]
      /\ wanted \in [Downloads -> Ids \union {NoId}] /\ DOMAIN rows \subseteq 1..lastId
      /\ lastId \in Nat /\ NoId = 0
      /\ UNCHANGED <<proc, rows, lastId>>
  BY ImportAssumption DEF TypeInv, TypeOK, NoId,
    AddTorrent, RecordLink, Complete, DeleteDownload, NotReachable, NotFound, rowVars
<1>1. d \in polled \union processed => Ended(d)
  BY DEF OnceInv
<1>2. ClickOf(d)
  BY ClickParts
<1>3. ClickOf(d)'
  <2>1. CASE AddTorrent(d, g)
    <3>1. /\ g \in DOMAIN rows \union {NoId} /\ torrent[d] = "absent"
          /\ torrent' = [torrent EXCEPT ![d] = "downloading"]
          /\ request' = [request EXCEPT ![d] = g] /\ wanted' = [wanted EXCEPT ![d] = g]
          /\ UNCHANGED <<links, polled, processed>>
      BY <2>1 DEF AddTorrent, monitorVars
    <3>2. g \in Nat /\ g <= lastId
      BY <1>0, <3>1
    <3>3. d \notin polled \union processed
      BY <1>1, <3>1 DEF Ended
    <3> QED BY <1>0, <1>2, <3>1, <3>2, <3>3 DEF ClickOf
  <2>2. CASE RecordLink(d)
    BY <1>0, <1>2, <2>2 DEF RecordLink, ClickOf, clientVars, monitorVars, Linked
  <2>3. CASE Complete(d)
    BY <1>0, <1>2, <2>3 DEF Complete, ClickOf, linkVars, monitorVars, Linked
  <2>4. CASE DeleteDownload(d)
    BY <1>0, <1>2, <2>4 DEF DeleteDownload, ClickOf, linkVars, monitorVars
  <2>5. CASE NotReachable(d)
    BY <1>0, <1>2, <2>5 DEF NotReachable, ClickOf, clientVars, linkVars
  <2>6. CASE NotFound(d)
    BY <1>0, <1>2, <2>6 DEF NotFound, ClickOf, clientVars, linkVars
  <2> QED BY <2>1, <2>2, <2>3, <2>4, <2>5, <2>6
<1>4. ASSUME NEW e \in Downloads, e # d PROVE ClickOf(e)'
  <2>1. ClickOf(e)
    BY ClickParts
  <2>2. /\ torrent'[e] = torrent[e] /\ request'[e] = request[e] /\ links'[e] = links[e]
        /\ wanted'[e] = wanted[e] /\ (e \in polled' => e \in polled)
        /\ (e \in processed' <=> e \in processed)
    BY <1>0, <1>4 DEF AddTorrent, RecordLink, Complete, DeleteDownload, NotReachable, NotFound,
      clientVars, linkVars, monitorVars
  <2> QED BY <1>0, <2>1, <2>2 DEF ClickOf
<1>5. ASSUME NEW p \in Imports PROVE ClickIn(p)'
  <2>1. ClickIn(p)
    BY ClickParts
  <2>2. ASSUME Running(p), proc[p].id # None
        PROVE  links'[proc[p].id] = links[proc[p].id] /\ wanted'[proc[p].id] = wanted[proc[p].id]
    <3>1. proc[p].id \in Downloads /\ proc[p].id \in processed /\ Ended(proc[p].id)
      BY <2>2, IdMarked
    <3>2. torrent[proc[p].id] # "absent" /\ request[proc[p].id] = NoId
      BY <3>1, ClickParts DEF Ended, ClickOf
    <3> QED BY <1>0, <3>1, <3>2 DEF AddTorrent, RecordLink, Complete, DeleteDownload,
      NotReachable, NotFound, linkVars
  <2> QED BY <1>0, <2>1, <2>2 DEF ClickIn, Running
<1> QED BY <1>3, <1>4, <1>5, ClickAgain

\* What the monitor starts has its link.
LEMMA ClickStarts ==
  ASSUME TypeInv, OnceInv, ClickInv, NEW d \in Downloads, NEW g, StartImport(d) \/ ImportGame(g, d)
  PROVE  ClickInv'
<1>1. UNCHANGED <<torrent, request, links, wanted, rows, lastId>>
  BY DEF StartImport, ImportGame, clientVars, linkVars, rowVars
<1>2. CASE StartImport(d)
  <2>1. PICK p \in Imports :
          OneProc(p, proc'[p]) /\ proc'[p].at = "start" /\ proc'[p].from = d /\ proc'[p].id = d
    BY <1>2, StartDoes
  <2>2. /\ d \in polled /\ d \notin processed
        /\ polled' = polled \ {d} /\ processed' = processed \union {d}
    BY <1>2 DEF StartImport, OnceInv
  <2>3. links[d] = wanted[d]
    BY <2>2, ClickParts DEF ClickOf
  <2>4. \A e \in Downloads : ClickOf(e)'
    BY <1>1, <2>2, ClickParts DEF ClickOf
  <2>5. \A q \in Imports : ClickIn(q)'
    BY <1>1, <2>1, <2>3, ClickParts DEF ClickIn, OneProc
  <2> QED BY <2>4, <2>5, ClickAgain
<1>3. CASE ImportGame(g, d)
  <2>1. PICK p \in Imports : OneProc(p, proc'[p]) /\ proc'[p].at = "start" /\ proc'[p].id = None
    BY <1>3, ManualDoes
  <2>2. UNCHANGED <<polled, processed>>
    BY <1>3 DEF ImportGame, monitorVars
  <2>3. \A e \in Downloads : ClickOf(e)'
    BY <1>1, <2>2, ClickParts DEF ClickOf
  <2>4. \A q \in Imports : ClickIn(q)'
    BY <1>1, <2>1, ClickParts DEF ClickIn, OneProc
  <2> QED BY <2>3, <2>4, ClickAgain
<1> QED BY <1>2, <1>3

\* A stop drops requests with the games they were for; games are only taken away.
LEMMA ClickRest ==
  ASSUME TypeInv, OnceInv, ClickInv, Linked,
         Outage \/ Poll \/ (\E g \in Ids : RemoveGame(g)) \/ Crash \/ UNCHANGED vars
  PROVE  ClickInv'
<1> USE DEF clientVars, linkVars, monitorVars, rowVars
<1>1. CASE Crash
  <2>1. \A q \in Imports : proc'[q].at = "idle"
    BY <1>1 DEF Crash, CrashAnd, Idle
  <2>2. /\ request' = [d \in Downloads |-> NoId] /\ polled' = {} /\ processed' = processed
        /\ wanted' = [d \in Downloads |-> IF request[d] # NoId THEN NoId ELSE wanted[d]]
        /\ UNCHANGED <<torrent, links, lastId>>
    BY <1>1 DEF Crash, CrashAnd, Loaded, NoLinks, Linked, Remembered
  <2>3. lastId \in Nat /\ NoId = 0
    BY ImportAssumption DEF TypeInv, TypeOK, NoId
  <2>4. ASSUME NEW d \in Downloads PROVE ClickOf(d)'
    <3>1. ClickOf(d)
      BY ClickParts
    <3> QED BY <2>2, <2>3, <3>1 DEF ClickOf
  <2>5. \A q \in Imports : ClickIn(q)'
    BY <2>1 DEF ClickIn
  <2> QED BY <2>4, <2>5, ClickAgain
<1>2. ASSUME UNCHANGED <<proc, request, links, wanted, torrent, processed, lastId>>,
             \A d \in polled' : torrent[d] = "completed" \/ d \in polled,
             DOMAIN rows' \subseteq DOMAIN rows
      PROVE  ClickInv'
  <2>1. \A d \in Downloads : ClickOf(d)'
    BY <1>2, ClickParts DEF ClickOf
  <2>2. \A q \in Imports : ClickIn(q)'
    BY <1>2, ClickParts DEF ClickIn
  <2> QED BY <2>1, <2>2, ClickAgain
<1>3. ASSUME NEW g \in Ids, RemoveGame(g) PROVE ClickInv'
  <2>1. DOMAIN rows' \subseteq DOMAIN rows
    BY <1>3 DEF RemoveGame, DeleteGame, Restrict
  <2> QED BY <1>2, <1>3, <2>1 DEF RemoveGame
<1>4. CASE Outage
  BY <1>2, <1>4 DEF Outage
<1>5. CASE Poll
  BY <1>2, <1>5 DEF Poll
<1>6. CASE UNCHANGED vars
  BY <1>2, <1>6 DEF vars
<1> QED BY <1>1, <1>3, <1>4, <1>5, <1>6

\* While links are recorded in time, under the id of the download, ClickInv is inductive.
LEMMA ClickStep ==
  ASSUME TypeInv, OnceInv, ClickInv, Linked, [Next]_vars PROVE ClickInv'
  BY ClickImport, ClickClient, ClickStarts, ClickRest DEF Next, Monitor

\* Only Save takes an import from "save" to "version".
LEMMA SavesOnly ==
  ASSUME TypeInv, [Next]_vars, NEW p \in Imports, proc[p].at = "save", proc'[p].at = "version"
  PROVE  Save(p)
<1>1. ASSUME NEW q \in Imports, Import(q) PROVE Save(p)
  <2>1. CASE q # p
    <3>1. proc'[p] = proc[p]
      <4>1. Working(q)
        BY ONLY TypeInv, <1>1, ImportWorks
      <4> QED BY <2>1, <4>1 DEF Working, OneProc
    <3> QED BY <3>1
  <2>2. CASE q = p
    BY <1>1, <2>2
      DEF Import, Begin, Resolve, SkipFile, CopyFile, CopyFails, TakeUp, EndCopy, Match,
        SetVersion, Finish
  <2> QED BY <2>1, <2>2
<1>2. ASSUME NEW d \in Downloads, NEW g, StartImport(d) \/ ImportGame(g, d) PROVE FALSE
  <2>1. PICK q \in Imports : proc[q].at = "idle" /\ OneProc(q, proc'[q])
    BY <1>2, StartDoes, ManualDoes
  <2> QED BY <2>1 DEF OneProc
<1>3. UNCHANGED proc => FALSE
  OBVIOUS
<1>4. Crash => FALSE
  BY DEF Crash, CrashAnd, Idle
<1>5. ASSUME NEW d \in Downloads, NEW g,
             \/ AddTorrent(d, g) \/ RecordLink(d) \/ Complete(d) \/ DeleteDownload(d)
             \/ NotReachable(d) \/ NotFound(d)
      PROVE  UNCHANGED proc
  BY <1>5 DEF AddTorrent, RecordLink, Complete, DeleteDownload, NotReachable, NotFound
<1>6. ASSUME NEW g \in Ids, RemoveGame(g) PROVE UNCHANGED proc
  BY <1>6 DEF RemoveGame
<1>7. ASSUME Outage \/ Poll \/ UNCHANGED vars PROVE UNCHANGED proc
  BY <1>7 DEF Outage, Poll, vars
<1> QED BY <1>1, <1>2, <1>3, <1>4, <1>5, <1>6, <1>7 DEF Next, Monitor

\* ClickedGameGetsIt: where AddTorrent has recorded its link before the download ends, under
\* the id that the client reports, and no stop loses it, the link is followed, across
\* restarts and whatever else has the name.
THEOREM LinkIsFollowed == Spec => ClickedGameGetsIt
<1> DEFINE Inv == TypeInv /\ OnceInv /\ (Linked => ClickInv)
           Follows == \A p \in Imports :
             (Linked /\ proc[p].at = "save" /\ proc'[p].at = "version" /\ proc[p].id # None
                /\ wanted[proc[p].id] \in DOMAIN rows)
               => proc'[p].game = wanted[proc[p].id]
<1>1. Init => Inv
  BY TypeInit, OnceInit, ClickInit
<1>2. Inv /\ [Next]_vars => Inv'
  <2>1. [Next]_vars => Linked' = Linked
    BY EnvStays DEF Linked, Remembered
  <2> QED BY <2>1, TypeStep, OnceStep, ClickStep
<1>3. Inv /\ [Next]_vars => Follows
  <2> SUFFICES ASSUME Inv, [Next]_vars, Linked, NEW p \in Imports, proc[p].at = "save",
                      proc'[p].at = "version", proc[p].id # None,
                      wanted[proc[p].id] \in DOMAIN rows
               PROVE  proc'[p].game = wanted[proc[p].id]
    OBVIOUS
  <2>1. Save(p)
    BY SavesOnly
  <2>2. proc[p].game = wanted[proc[p].id]
    BY DEF ClickInv
  <2>3. wanted[proc[p].id] # NoId
    BY ImportAssumption DEF TypeInv, TypeOK, NoId
  <2> QED BY <2>1, <2>2, <2>3, SaveDoes
<1>4. ClickedGameGetsIt <=> [][Follows]_vars
  BY DEF ClickedGameGetsIt
<1> HIDE DEF Inv, Follows
<1> QED BY <1>1, <1>2, <1>3, <1>4, PTL DEF Spec
=============================================================================
