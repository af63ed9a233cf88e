------------------------- MODULE GameLibraryProofs -------------------------
(***************************************************************************)
(* The forms of the table and of what its writers remember of it, that     *)
(* scans do not list a directory twice, and that the version an import     *)
(* gave a row stays, for any number of each.                               *)
(***************************************************************************)
EXTENDS GameLibrary, TLAPS

Columns == {"title", "igdb", "path", "meta", "version", "latest", "updateAvailable"}

GameRow(r) ==
  /\ DOMAIN r = Columns
  /\ r.title \in Titles /\ r.path \in Titles \union {None}
  /\ r.version \in Versions /\ r.latest \in Versions

Table(rs) == \A g \in DOMAIN rs : GameRow(rs[g])

-----------------------------------------------------------------------------
(* The statements of GameRepository.                                       *)

LEMMA NewRow ==
  ASSUME NEW t \in Titles, NEW p \in Titles \union {None}, NEW v \in Versions
  PROVE  GameRow(Row(t, p, v)) /\ Row(t, p, v).path = p
  BY LibraryAssumption DEF GameRow, Row, Columns, Versions

LEMMA Created ==
  ASSUME NEW rs, NEW id, NEW row
  PROVE  /\ DOMAIN CreateGame(rs, id, row) = DOMAIN rs \union {id}
         /\ CreateGame(rs, id, row)[id] = row
         /\ \A g \in DOMAIN rs : g # id => CreateGame(rs, id, row)[g] = rs[g]
  BY DEF CreateGame

LEMMA Deleted ==
  ASSUME NEW rs, NEW id
  PROVE  /\ DOMAIN DeleteGame(rs, id) = DOMAIN rs \ {id}
         /\ \A g \in DOMAIN rs \ {id} : DeleteGame(rs, id)[g] = rs[g]
  BY DEF DeleteGame, Restrict

LEMMA DeletedFromTable ==
  ASSUME NEW rs, Table(rs), NEW id
  PROVE  DOMAIN DeleteGame(rs, id) \subseteq DOMAIN rs /\ Table(DeleteGame(rs, id))
<1> DEFINE new == DeleteGame(rs, id)
<1>1. DOMAIN new = DOMAIN rs \ {id} /\ \A g \in DOMAIN rs \ {id} : new[g] = rs[g]
  BY Deleted
<1> HIDE DEF new
<1>2. DOMAIN new \subseteq DOMAIN rs /\ Table(new)
  BY <1>1 DEF Table
<1> QED BY <1>2 DEF new

LEMMA Updated ==
  ASSUME NEW rs, Table(rs), NEW id, NEW row, GameRow(row)
  PROVE  /\ DOMAIN UpdateGame(rs, id, row) = DOMAIN rs
         /\ Table(UpdateGame(rs, id, row))
         /\ \A g \in DOMAIN rs : g # id => UpdateGame(rs, id, row)[g] = rs[g]
         /\ id \in DOMAIN rs => UpdateGame(rs, id, row)[id].path = row.path
<1> DEFINE new == UpdateGame(rs, id, row)
<1>1. DOMAIN new = DOMAIN rs /\ \A g \in DOMAIN rs : g # id => new[g] = rs[g]
  BY DEF UpdateGame
<1>2. ASSUME id \in DOMAIN rs
      PROVE  /\ DOMAIN new[id] = Columns
             /\ \A c \in Columns : new[id][c] = IF c \in VersionColumns THEN rs[id][c] ELSE row[c]
  BY <1>2 DEF UpdateGame, Table, GameRow
<1>3. ASSUME id \in DOMAIN rs
      PROVE  GameRow(new[id]) /\ new[id].path = row.path
  <2>1. /\ new[id].title = row.title /\ new[id].path = row.path
        /\ new[id].version = rs[id].version /\ new[id].latest = rs[id].latest
    BY <1>2, <1>3 DEF Columns, VersionColumns
  <2> QED BY <1>2, <1>3, <2>1 DEF GameRow, Table
<1> QED BY <1>1, <1>3 DEF Table

\* Columns of versions and of the path keep the table a table.
LEMMA ColumnSet ==
  ASSUME NEW rs, Table(rs), NEW id,
         NEW column \in {"path", "version", "latest", "updateAvailable"}, NEW value,
         column = "path" => value \in Titles \union {None},
         column \in {"version", "latest"} => value \in Versions
  PROVE  /\ DOMAIN SetColumn(rs, id, column, value) = DOMAIN rs
         /\ Table(SetColumn(rs, id, column, value))
         /\ column # "path" =>
              \A g \in DOMAIN rs : SetColumn(rs, id, column, value)[g].path = rs[g].path
<1> DEFINE new == SetColumn(rs, id, column, value)
<1>1. DOMAIN new = DOMAIN rs /\ \A g \in DOMAIN rs : g # id => new[g] = rs[g]
  BY DEF SetColumn
<1>2. ASSUME id \in DOMAIN rs
      PROVE  /\ DOMAIN new[id] = Columns
             /\ \A c \in Columns : new[id][c] = IF c = column THEN value ELSE rs[id][c]
  BY <1>2 DEF SetColumn, Table, GameRow, Columns
<1> HIDE DEF new
<1>3. ASSUME id \in DOMAIN rs
      PROVE  GameRow(new[id]) /\ (column # "path" => new[id].path = rs[id].path)
  <2>1. \A c \in {"title", "path", "version", "latest"} :
          new[id][c] = IF c = column THEN value ELSE rs[id][c]
    BY <1>2, <1>3 DEF Columns
  <2>2. GameRow(rs[id])
    BY <1>3 DEF Table
  <2> QED BY <1>2, <1>3, <2>1, <2>2 DEF GameRow
<1>4. /\ DOMAIN new = DOMAIN rs
      /\ Table(new)
      /\ column # "path" => \A g \in DOMAIN rs : new[g].path = rs[g].path
  BY <1>1, <1>3 DEF Table
<1> QED BY <1>4 DEF new

-----------------------------------------------------------------------------
(* Types.                                                                  *)

Places == {"idle", "begun", "root", "walk"}

\* Besides TypeOK: rows have all their columns, and so has what a handler, a report or
\* the checker has read and writes back later.
Remembered ==
  /\ DOMAIN edit = Edits
  /\ \A e \in Edits : edit[e] # None => GameRow(edit[e].row)
  /\ report # None => report.version \in Versions
  /\ published \in [Titles -> Versions]
  /\ \A c \in check : GameRow(c.row)

ScanTypes ==
  scan \in [Scans -> [at : Places, left : SUBSET Titles,
                     known : SUBSET (Titles \union {None}), cancelled : BOOLEAN]]

ScanInv ==
  /\ ScanTypes
  /\ scanning \in BOOLEAN /\ cancelable \in Scans \union {None}

\* What the actions on the table keep.
RowsOK == lastId \in 0..MaxGame /\ DOMAIN rows \subseteq 1..lastId /\ Table(rows)

\* The inductive invariant of the forms.
TypeInv == RowsOK /\ Remembered /\ ScanInv /\ folder \subseteq Titles

LEMMA InsertKeepsTable ==
  ASSUME RowsOK, NEW row, GameRow(row), Insert(row)
  PROVE  RowsOK'
<1>1. lastId \in Nat /\ lastId' = lastId + 1 /\ lastId' \in 0..MaxGame
  BY LibraryAssumption DEF RowsOK, Insert
<1>2. /\ DOMAIN rows' = DOMAIN rows \union {lastId'}
      /\ \A g \in DOMAIN rows' : GameRow(rows'[g])
  BY DEF Insert, RowsOK, Table, CreateGame
<1>3. DOMAIN rows' \subseteq 1..lastId'
  BY <1>1, <1>2 DEF RowsOK
<1> QED BY <1>1, <1>2, <1>3 DEF RowsOK, Table

LEMMA TypeInit == Init => TypeInv
<1> SUFFICES ASSUME Init PROVE TypeInv
  OBVIOUS
<1>1. RowsOK
  BY LibraryAssumption DEF Init, RowsOK, Table, NoRows
<1>2. Remembered
  BY LibraryAssumption DEF Init, Remembered, Versions
<1>3. ScanInv /\ folder \subseteq Titles
  BY DEF Init, ScanInv, ScanTypes, NoScan, Places
<1> QED BY <1>1, <1>2, <1>3 DEF TypeInv

LEMMA ScanStep ==
  ASSUME TypeInv, NEW s \in Scans, Scanner(s)
  PROVE  ScanInv' /\ RowsOK'
<1> USE DEF ScanInv, ScanTypes, Places
<1>0. ScanInv /\ RowsOK /\ folder \subseteq Titles
  BY DEF TypeInv
<1>1. CASE StartScan(s)
  <2>1. RowsOK' BY <1>0, <1>1 DEF StartScan, libraryVars, RowsOK
  <2>2. ScanInv' BY <1>0, <1>1 DEF StartScan, NoScan
  <2> QED BY <2>1, <2>2
<1>2. CASE SetCancel(s)
  <2>1. RowsOK' BY <1>0, <1>2 DEF SetCancel, libraryVars, RowsOK
  <2>2. ScanInv' BY <1>0, <1>2 DEF SetCancel
  <2> QED BY <2>1, <2>2
<1>3. CASE ReadFolder(s)
  <2>1. RowsOK' BY <1>0, <1>3 DEF ReadFolder, libraryVars, RowsOK
  <2>2. PICK kn \in SUBSET (Titles \union {None}) :
          scan' = [scan EXCEPT ![s].at = "walk", ![s].left = folder, ![s].known = kn]
    <3>1. { rows[g].path : g \in DOMAIN rows } \subseteq Titles \union {None}
      BY <1>0 DEF RowsOK, Table, GameRow
    <3> QED BY <1>3, <3>1 DEF ReadFolder
  <2>3. scan' \in [Scans -> [at : Places, left : SUBSET Titles,
                             known : SUBSET (Titles \union {None}), cancelled : BOOLEAN]]
    <3>1. scan' = [scan EXCEPT ![s] = [scan[s] EXCEPT !.at = "walk", !.left = folder,
                                                     !.known = kn]]
      BY <1>0, <2>2
    <3>2. [scan[s] EXCEPT !.at = "walk", !.left = folder, !.known = kn]
            \in [at : Places, left : SUBSET Titles, known : SUBSET (Titles \union {None}),
                 cancelled : BOOLEAN]
      BY <1>0, <3>1
    <3> QED BY <1>0, <3>1, <3>2
  <2>4. ScanInv' BY <1>0, <1>3, <2>3 DEF ReadFolder
  <2> QED BY <2>1, <2>4
<1>4. CASE EndScan(s)
  <2>1. RowsOK' BY <1>0, <1>4 DEF EndScan, libraryVars, RowsOK
  <2>2. ScanInv' BY <1>0, <1>4 DEF EndScan, NoScan
  <2> QED BY <2>1, <2>2
<1>5. ASSUME NEW t \in Titles, ScanEntry(s, t)
      PROVE  ScanInv' /\ RowsOK'
  <2>1. ScanInv' BY <1>0, <1>5 DEF ScanEntry
  <2>2. GameRow(Row(t, t, 0))
    BY NewRow, LibraryAssumption DEF Versions
  <2>3. RowsOK'
    <3>1. CASE UNCHANGED libraryVars BY <1>0, <3>1 DEF libraryVars, RowsOK
    <3>2. CASE Insert(Row(t, t, 0)) BY <1>0, <2>2, <3>2, InsertKeepsTable
    <3> QED BY <1>5, <3>1, <3>2 DEF ScanEntry
  <2> QED BY <2>1, <2>3
<1> QED BY <1>1, <1>2, <1>3, <1>4, <1>5 DEF Scanner

\* Whatever the ten results show is a version.
LEMMA FoundVersions ==
  ASSUME published \in [Titles -> Versions], NEW t \in Titles
  PROVE  BestOf(t) \subseteq Versions /\ 0 \in Versions
BY LibraryAssumption DEF BestOf, Versions

LEMMA TypeStep == TypeInv /\ [Next]_vars => TypeInv'
<1> SUFFICES ASSUME TypeInv, [Next]_vars PROVE TypeInv'
  OBVIOUS
<1>0. RowsOK /\ Remembered /\ ScanInv /\ folder \subseteq Titles
  BY DEF TypeInv
\* All but the scanner's own steps and StopScan leave the scans alone.
<1>1. UNCHANGED scanVars => ScanInv'
  BY <1>0 DEF scanVars, ScanInv, ScanTypes
<1>2. UNCHANGED libraryVars => RowsOK'
  BY <1>0 DEF libraryVars, RowsOK
<1>3. UNCHANGED <<edit, report, published, check>> => Remembered'
  BY <1>0 DEF Remembered
<1>4. ASSUME NEW t \in Titles, AddGame(t) PROVE TypeInv'
  <2>1. PICK p \in Titles \union {None} : Insert(Row(t, p, 0))
    BY <1>4 DEF AddGame
  <2>2. RowsOK'
    <3>1. GameRow(Row(t, p, 0))
      BY NewRow, LibraryAssumption DEF Versions
    <3> QED BY <1>0, <2>1, <3>1, InsertKeepsTable
  <2> QED BY <1>0, <1>1, <1>3, <1>4, <2>2 DEF AddGame, TypeInv
<1>5. ASSUME NEW t \in Titles, Publish(t) PROVE TypeInv'
  <2>1. Remembered'
    BY <1>0, <1>5, LibraryAssumption DEF Publish, Remembered, Versions
  <2> QED BY <1>0, <1>1, <1>2, <1>5, <2>1 DEF Publish, TypeInv
<1>6. ASSUME NEW t \in Titles, NEW v \in Versions, Import(t, v) PROVE TypeInv'
  <2>1. GameRow(Row(t, t, v))
    BY NewRow
  <2>2. ASSUME Insert(Row(t, t, v)) PROVE RowsOK'
    BY <1>0, <2>1, <2>2, InsertKeepsTable
  <2>3. ASSUME NEW g,
               rows' = SetColumn(IF v = 0 THEN rows ELSE UpdateGameVersion(rows, g, v), g, "path", t),
               UNCHANGED lastId
        PROVE  RowsOK'
    <3> DEFINE rs == IF v = 0 THEN rows ELSE UpdateGameVersion(rows, g, v)
    <3>1. Table(rs) /\ DOMAIN rs = DOMAIN rows
      BY <1>0, ColumnSet DEF RowsOK, UpdateGameVersion
    <3> HIDE DEF rs
    <3>2. Table(SetColumn(rs, g, "path", t)) /\ DOMAIN SetColumn(rs, g, "path", t) = DOMAIN rs
      BY <3>1, ColumnSet
    <3> QED BY <1>0, <2>3, <3>1, <3>2 DEF RowsOK, rs
  <2>4. RowsOK'
    BY <1>2, <1>6, <2>2, <2>3 DEF Import
  <2>5. UNCHANGED <<edit, report, published, check, scanVars>> /\ folder' \subseteq Titles
    BY <1>0, <1>6 DEF Import
  <2> QED BY <1>1, <1>3, <2>4, <2>5 DEF TypeInv
<1>7. ASSUME NEW t \in Titles, NEW v \in Versions, ReadReport(t, v) PROVE TypeInv'
  <2>1. Remembered'
    BY <1>0, <1>7 DEF ReadReport, Remembered
  <2> QED BY <1>0, <1>1, <1>2, <1>7, <2>1 DEF ReadReport, TypeInv
<1>8. ASSUME NEW e \in Edits, NEW row, GameRow(row), WriteGame(e, row) PROVE TypeInv'
  <2>1. RowsOK'
    BY <1>0, <1>8, Updated DEF WriteGame, RowsOK
  <2>2. Remembered'
    BY <1>0, <1>8 DEF WriteGame, Remembered
  <2> QED BY <1>0, <1>1, <1>8, <2>1, <2>2 DEF WriteGame, TypeInv
<1>9. ASSUME NEW e \in Edits, EditGame(e) PROVE TypeInv'
  <2>1. PICK p \in folder \union {edit[e].row.path} :
          WriteGame(e, [edit[e].row EXCEPT !.meta = "edited", !.path = p])
    BY <1>9 DEF EditGame
  <2>2. GameRow(edit[e].row)
    BY <1>0, <1>9 DEF EditGame, Remembered
  <2>3. GameRow([edit[e].row EXCEPT !.meta = "edited", !.path = p])
    BY <1>0, <2>1, <2>2 DEF GameRow, Columns
  <2> QED BY <1>8, <2>1, <2>3
<1>10. ASSUME NEW e \in Edits, RefreshGameMetadata(e) PROVE TypeInv'
  <2>1. GameRow(edit[e].row)
    BY <1>0, <1>10 DEF RefreshGameMetadata, Remembered
  <2>2. GameRow([edit[e].row EXCEPT !.meta = "igdb"])
    BY <2>1 DEF GameRow, Columns
  <2> QED BY <1>8, <1>10, <2>2 DEF RefreshGameMetadata
<1>11. ASSUME NEW g, RemoveGame(g) PROVE TypeInv'
  <2>1. RowsOK'
    BY <1>0, <1>11, DeletedFromTable DEF RemoveGame, RowsOK
  <2> QED BY <1>0, <1>1, <1>3, <1>11, <2>1 DEF RemoveGame, TypeInv
<1>12. ASSUME NEW e \in Edits, NEW g, ReadGame(e, g) PROVE TypeInv'
  <2>1. GameRow(rows[g])
    BY <1>0, <1>12 DEF ReadGame, RowsOK, Table
  <2>2. Remembered'
    BY <1>0, <1>12, <2>1 DEF ReadGame, Remembered
  <2> QED BY <1>0, <1>1, <1>2, <1>12, <2>2 DEF ReadGame, TypeInv
<1>13. CASE DeleteAllGames
  <2>1. RowsOK'
    BY <1>0, <1>13 DEF DeleteAllGames, RowsOK, Table, NoRows
  <2> QED BY <1>0, <1>1, <1>3, <1>13, <2>1 DEF DeleteAllGames, TypeInv
<1>14. ASSUME NEW s \in Scans, Scanner(s) PROVE TypeInv'
  <2>1. ScanInv' /\ RowsOK'
    BY <1>14, ScanStep
  <2>2. UNCHANGED <<edit, report, published, check, folder>>
    BY <1>14 DEF Scanner, StartScan, SetCancel, ReadFolder, EndScan, ScanEntry
  <2> QED BY <1>0, <1>3, <2>1, <2>2 DEF TypeInv
<1>15. CASE StopScan
  <2>1. ScanInv'
    BY <1>0, <1>15 DEF StopScan, ScanInv, ScanTypes
  <2> QED BY <1>0, <1>2, <1>3, <1>15, <2>1 DEF StopScan, TypeInv
<1>16. CASE CleanLibrary
  BY <1>0, <1>1, <1>2, <1>3, <1>16 DEF CleanLibrary, TypeInv
<1>17. ASSUME NEW c \in clean, CleanGame(c) PROVE TypeInv'
  <2>1. RowsOK'
    BY <1>0, <1>17, DeletedFromTable DEF CleanGame, RowsOK
  <2> QED BY <1>0, <1>1, <1>3, <1>17, <2>1 DEF CleanGame, TypeInv
<1>18. CASE SaveReport
  <2>1. Table(UpdateGameVersion(rows, report.id, report.version))
        /\ DOMAIN UpdateGameVersion(rows, report.id, report.version) = DOMAIN rows
    BY <1>0, <1>18, ColumnSet DEF SaveReport, Remembered, RowsOK, UpdateGameVersion
  <2>2. RowsOK' /\ Remembered'
    BY <1>0, <1>18, <2>1 DEF SaveReport, RowsOK, Remembered
  <2> QED BY <1>0, <1>1, <1>18, <2>2 DEF SaveReport, TypeInv
<1>19. CASE CheckAll
  <2>1. Remembered'
    BY <1>0, <1>19 DEF CheckAll, Remembered, RowsOK, Table, WithVersion
  <2> QED BY <1>0, <1>1, <1>2, <1>19, <2>1 DEF CheckAll, TypeInv
<1>20. ASSUME NEW c \in check, CheckGame(c) PROVE TypeInv'
  <2>1. \A v \in Versions, b \in BOOLEAN :
          /\ Table(UpdateGameUpdateInfo(rows, c.id, v, b))
          /\ DOMAIN UpdateGameUpdateInfo(rows, c.id, v, b) = DOMAIN rows
    <3> SUFFICES ASSUME NEW v \in Versions, NEW b \in BOOLEAN
                 PROVE  /\ Table(UpdateGameUpdateInfo(rows, c.id, v, b))
                        /\ DOMAIN UpdateGameUpdateInfo(rows, c.id, v, b) = DOMAIN rows
      OBVIOUS
    <3>1. /\ Table(SetColumn(rows, c.id, "latest", v))
          /\ DOMAIN SetColumn(rows, c.id, "latest", v) = DOMAIN rows
      BY <1>0, ColumnSet DEF RowsOK
    <3> QED BY <3>1, ColumnSet DEF UpdateGameUpdateInfo
  <2>2. BestOf(c.row.title) \subseteq Versions /\ 0 \in Versions
    BY <1>0, FoundVersions DEF Remembered, GameRow
  <2>3. RowsOK'
    BY <1>0, <1>20, <2>1, <2>2 DEF CheckGame, RowsOK
  <2>4. Remembered'
    BY <1>0, <1>20 DEF CheckGame, Remembered
  <2> QED BY <1>0, <1>1, <1>20, <2>3, <2>4 DEF CheckGame, TypeInv
<1>21. CASE UNCHANGED vars
  BY <1>0, <1>1, <1>2, <1>3, <1>21 DEF vars, TypeInv
<1> QED BY <1>4, <1>5, <1>6, <1>7, <1>9, <1>10, <1>11, <1>12, <1>13, <1>14, <1>15, <1>16,
           <1>17, <1>18, <1>19, <1>20, <1>21 DEF Next

-----------------------------------------------------------------------------
(* Directories.                                                            *)

Quiet == env \intersect {"edit", "import", "add_path", "db_fail"} = {}

OneRow ==
  \A g, h \in DOMAIN rows : rows[g].path = rows[h].path /\ rows[g].path # None => g = h

\* A refresh writes back the path the row has; ids are not given twice.
EditsKnowPaths ==
  \A e \in Edits : edit[e] # None =>
    /\ edit[e].id \in 1..lastId
    /\ edit[e].id \in DOMAIN rows => edit[e].row.path = rows[edit[e].id].path

\* The flag is set exactly while a scan is under way, and it is one scan.
OneScan ==
  /\ scanning => \E s \in Scans : scan[s].at # "idle"
  /\ \A s \in Scans : scan[s].at # "idle" =>
       scanning /\ \A r \in Scans : scan[r].at # "idle" => r = s

\* A scan knows every path in the table, or has made the row itself.
WalkKnows ==
  \A s \in Scans : scan[s].at = "walk" =>
    \A g \in DOMAIN rows :
      rows[g].path \in scan[s].known \union (Titles \ scan[s].left) \union {None}

PathInv == OneScan /\ (Quiet => OneRow /\ EditsKnowPaths /\ WalkKnows)

PathsKept ==
  DOMAIN rows' \subseteq DOMAIN rows /\ \A g \in DOMAIN rows' : rows'[g].path = rows[g].path

LEMMA KeptPaths ==
  ASSUME PathInv, PathsKept, UNCHANGED <<env, lastId, edit, scanning, scan>>
  PROVE  PathInv'
<1>1. OneScan'
  BY DEF PathInv, OneScan
<1>2. ASSUME Quiet PROVE OneRow' /\ EditsKnowPaths' /\ WalkKnows'
  <2>0. OneRow /\ EditsKnowPaths /\ WalkKnows
    BY <1>2 DEF PathInv
  <2>1. OneRow' BY <2>0 DEF OneRow, PathsKept
  <2>2. EditsKnowPaths' BY <2>0 DEF EditsKnowPaths, PathsKept
  <2>3. WalkKnows' BY <2>0 DEF WalkKnows, PathsKept
  <2> QED BY <2>1, <2>2, <2>3
<1> QED BY <1>1, <1>2 DEF PathInv, Quiet

\* A row that is inserted has no directory, or one that no other row has.
LEMMA InsertedPath ==
  ASSUME TypeInv, PathInv, NEW row, Insert(row),
         UNCHANGED <<env, edit>>,
         \A g \in DOMAIN rows : rows[g].path = row.path => row.path = None
  PROVE  (Quiet => OneRow' /\ EditsKnowPaths')
<1>1. /\ lastId \in Nat /\ lastId' = lastId + 1 /\ DOMAIN rows \subseteq 1..lastId
      /\ DOMAIN rows' = DOMAIN rows \union {lastId'} /\ rows'[lastId'] = row
      /\ \A g \in DOMAIN rows : rows'[g] = rows[g]
  BY LibraryAssumption DEF TypeInv, RowsOK, Insert, CreateGame
<1>2. ASSUME Quiet PROVE OneRow'
  BY <1>1, <1>2 DEF PathInv, OneRow
<1>3. ASSUME Quiet PROVE EditsKnowPaths'
  <2> SUFFICES ASSUME NEW e \in Edits, edit[e] # None
               PROVE  /\ edit[e].id \in 1..lastId'
                      /\ edit[e].id \in DOMAIN rows' =>
                           edit[e].row.path = rows'[edit[e].id].path
    BY DEF EditsKnowPaths
  <2>1. /\ edit[e].id \in 1..lastId
        /\ edit[e].id \in DOMAIN rows => edit[e].row.path = rows[edit[e].id].path
    BY <1>3 DEF PathInv, EditsKnowPaths
  <2> QED BY <1>1, <2>1
<1> QED BY <1>2, <1>3

LEMMA PathInit == Init => PathInv
  BY DEF Init, PathInv, OneScan, OneRow, EditsKnowPaths, WalkKnows, NoScan, NoRows

LEMMA PathScanStep ==
  ASSUME TypeInv, PathInv, NEW s \in Scans, Scanner(s), UNCHANGED <<env, edit>>
  PROVE  PathInv'
<1>0. ScanTypes /\ RowsOK /\ OneScan
  BY DEF TypeInv, ScanInv, PathInv
<1>1. CASE StartScan(s)
  <2>1. ~scanning /\ scanning' /\ UNCHANGED libraryVars
        /\ scan' = [scan EXCEPT ![s] = [NoScan EXCEPT !.at = "begun"]]
    BY <1>1 DEF StartScan
  <2>2. \A r \in Scans : scan[r].at = "idle"
    BY <1>0, <2>1 DEF OneScan
  <2>3. \A r \in Scans : scan'[r].at = IF r = s THEN "begun" ELSE "idle"
    BY <1>0, <2>1, <2>2 DEF ScanTypes, NoScan
  <2>4. OneScan' /\ WalkKnows'
    BY <2>1, <2>3 DEF OneScan, WalkKnows
  <2> QED BY <2>1, <2>4 DEF PathInv, Quiet, OneRow, EditsKnowPaths, libraryVars
<1>2. CASE SetCancel(s)
  <2>1. UNCHANGED <<libraryVars, scanning>> /\ scan' = [scan EXCEPT ![s].at = "root"]
        /\ scan[s].at = "begun"
    BY <1>2 DEF SetCancel
  <2>2. \A r \in Scans : scan'[r].at = IF r = s THEN "root" ELSE scan[r].at
    BY <1>0, <2>1 DEF ScanTypes
  <2>3. OneScan' /\ WalkKnows'
    BY <1>0, <2>1, <2>2 DEF OneScan, WalkKnows
  <2> QED BY <2>1, <2>3 DEF PathInv, Quiet, OneRow, EditsKnowPaths, libraryVars
<1>3. CASE ReadFolder(s)
  <2>1. /\ UNCHANGED <<libraryVars, scanning>> /\ scan[s].at = "root"
        /\ \A r \in Scans : r # s => scan'[r] = scan[r]
        /\ scan'[s].at = "walk"
        /\ Quiet => scan'[s].known = { rows[g].path : g \in DOMAIN rows }
    BY <1>0, <1>3 DEF ReadFolder, ScanTypes, Quiet
  <2>2. OneScan'
    BY <1>0, <2>1 DEF OneScan
  <2>3. Quiet => WalkKnows'
    <3>1. Quiet => \A g \in DOMAIN rows' : rows'[g].path \in scan'[s].known
      BY <2>1 DEF libraryVars
    <3>2. \A r \in Scans : scan'[r].at = "walk" => r = s
      BY <1>0, <2>1 DEF OneScan
    <3> QED BY <3>1, <3>2 DEF WalkKnows
  <2> QED BY <2>1, <2>2, <2>3 DEF PathInv, Quiet, OneRow, EditsKnowPaths, libraryVars
<1>4. CASE EndScan(s)
  <2>1. /\ UNCHANGED libraryVars /\ scan' = [scan EXCEPT ![s] = NoScan]
        /\ scan[s].at # "idle" /\ ~scanning'
    BY <1>4 DEF EndScan
  <2>2. \A r \in Scans : scan'[r].at = "idle"
    BY <1>0, <2>1 DEF OneScan, ScanTypes, NoScan
  <2>3. OneScan' /\ WalkKnows'
    BY <2>1, <2>2 DEF OneScan, WalkKnows
  <2> QED BY <2>1, <2>3 DEF PathInv, Quiet, OneRow, EditsKnowPaths, libraryVars
<1>5. ASSUME NEW t \in Titles, ScanEntry(s, t)
      PROVE  PathInv'
  <2>1. /\ scanning' = scanning /\ scan[s].at = "walk" /\ t \in scan[s].left
        /\ scan' = [scan EXCEPT ![s].left = @ \ {t}]
    BY <1>5 DEF ScanEntry
  <2>2. /\ \A r \in Scans : scan'[r].at = scan[r].at /\ scan'[r].known = scan[r].known
        /\ \A r \in Scans : scan'[r].left \subseteq scan[r].left
        /\ t \notin scan'[s].left
    BY <1>0, <2>1 DEF ScanTypes
  <2>3. OneScan'
    BY <1>0, <2>1, <2>2 DEF OneScan
  <2>4. \A r \in Scans : scan[r].at = "walk" => r = s
    BY <1>0, <2>1 DEF OneScan
  <2>5. CASE UNCHANGED libraryVars
    <3>1. Quiet => WalkKnows'
      BY <2>2, <2>5 DEF PathInv, WalkKnows, libraryVars
    <3> QED BY <2>3, <2>5, <3>1 DEF PathInv, Quiet, OneRow, EditsKnowPaths, libraryVars
  <2>6. CASE t \notin scan[s].known /\ Insert(Row(t, t, 0))
    <3>1. Row(t, t, 0).path = t /\ t # None
      BY LibraryAssumption, NewRow DEF Versions
    <3>2. Quiet => \A g \in DOMAIN rows : rows[g].path # t
      BY <2>1, <2>6, <3>1 DEF PathInv, WalkKnows
    <3>3. Quiet => OneRow' /\ EditsKnowPaths'
      BY <2>6, <3>1, <3>2, InsertedPath
    <3>4. Quiet => WalkKnows'
      <4>1. /\ DOMAIN rows' = DOMAIN rows \union {lastId'} /\ rows'[lastId'].path = t
            /\ \A g \in DOMAIN rows : rows'[g] = rows[g] \/ rows'[g].path = t
        BY <2>6, <3>1 DEF Insert, CreateGame
      <4>2. t \in Titles \ scan'[s].left
        BY <2>2
      <4>3. ASSUME Quiet, NEW g \in DOMAIN rows'
            PROVE  rows'[g].path \in scan'[s].known \union (Titles \ scan'[s].left) \union {None}
        BY <2>1, <2>2, <4>1, <4>2, <4>3 DEF PathInv, WalkKnows
      <4> QED BY <2>2, <2>4, <4>3 DEF WalkKnows
    <3> QED BY <2>3, <3>3, <3>4 DEF PathInv, Quiet
  <2> QED BY <1>5, <2>5, <2>6 DEF ScanEntry
<1> QED BY <1>1, <1>2, <1>3, <1>4, <1>5 DEF Scanner

LEMMA VersionColumnsKeepPaths ==
  ASSUME NEW rs, Table(rs), NEW id, NEW column \in VersionColumns, NEW value,
         column # "updateAvailable" => value \in Versions
  PROVE  /\ DOMAIN SetColumn(rs, id, column, value) = DOMAIN rs
         /\ \A g \in DOMAIN rs : SetColumn(rs, id, column, value)[g].path = rs[g].path
<1>1. column \in {"path", "version", "latest", "updateAvailable"} /\ column # "path"
  BY DEF VersionColumns
<1>2. column \in {"version", "latest"} => value \in Versions
  OBVIOUS
<1> QED BY <1>1, <1>2, ColumnSet

LEMMA DeletedPaths ==
  ASSUME NEW id, rows' = DeleteGame(rows, id)
  PROVE  PathsKept
<1>1. DOMAIN DeleteGame(rows, id) = DOMAIN rows \ {id}
      /\ \A g \in DOMAIN rows \ {id} : DeleteGame(rows, id)[g] = rows[g]
  BY Deleted
<1> QED BY <1>1 DEF PathsKept

LEMMA PathStep == TypeInv /\ PathInv /\ [Next]_vars => PathInv'
<1> SUFFICES ASSUME TypeInv, PathInv, [Next]_vars PROVE PathInv'
  OBVIOUS
<1>0. RowsOK /\ Remembered /\ ScanTypes
  BY DEF TypeInv, ScanInv
<1>1. ASSUME UNCHANGED <<env, libraryVars, edit, scanning, scan>> PROVE PathInv'
  BY <1>1, KeptPaths DEF PathsKept, libraryVars
<1>2. ASSUME NEW t \in Titles, AddGame(t) PROVE PathInv'
  <2>0. OneScan' /\ UNCHANGED <<env, edit, scanning, scan>>
    BY <1>2 DEF AddGame, scanVars, PathInv, OneScan
  <2> SUFFICES ASSUME Quiet PROVE OneRow' /\ EditsKnowPaths' /\ WalkKnows'
    BY <2>0 DEF PathInv, Quiet
  <2>1. Insert(Row(t, None, 0)) /\ Row(t, None, 0).path = None
    BY <1>2, LibraryAssumption, NewRow DEF AddGame, Versions, Quiet
  <2>2. OneRow' /\ EditsKnowPaths'
    BY <2>0, <2>1, InsertedPath
  <2>3. WalkKnows'
    <3>1. DOMAIN rows' = DOMAIN rows \union {lastId'} /\ rows'[lastId'].path = None
          /\ \A g \in DOMAIN rows : rows'[g] = rows[g] \/ rows'[g].path = None
      BY <2>1 DEF Insert, CreateGame
    <3> QED BY <2>0, <3>1 DEF PathInv, WalkKnows
  <2> QED BY <2>2, <2>3
<1>3. ASSUME NEW t \in Titles, NEW v \in Versions, Import(t, v) PROVE PathInv'
  BY <1>3 DEF Import, PathInv, Quiet, scanVars, OneScan
<1>4. ASSUME NEW e \in Edits, EditGame(e) PROVE PathInv'
  BY <1>4 DEF EditGame, WriteGame, PathInv, Quiet, scanVars, OneScan
<1>5. ASSUME NEW e \in Edits, RefreshGameMetadata(e) PROVE PathInv'
  <2> DEFINE id == edit[e].id
             row == [edit[e].row EXCEPT !.meta = "igdb"]
  <2>1. /\ edit[e] # None /\ rows' = UpdateGame(rows, id, row)
        /\ edit' = [edit EXCEPT ![e] = None] /\ UNCHANGED <<env, lastId, scanning, scan>>
    BY <1>5 DEF RefreshGameMetadata, WriteGame, scanVars
  <2>2. GameRow(row) /\ row.path = edit[e].row.path
    BY <1>0, <2>1 DEF Remembered, GameRow, Columns
  <2> HIDE DEF row
  <2>3. /\ DOMAIN rows' = DOMAIN rows
        /\ \A g \in DOMAIN rows : g # id => rows'[g] = rows[g]
        /\ id \in DOMAIN rows => rows'[id].path = row.path
    BY <1>0, <2>1, <2>2, Updated DEF RowsOK
  <2>4. Quiet => PathsKept
    BY <2>1, <2>2, <2>3 DEF PathInv, EditsKnowPaths, PathsKept
  <2>5. Quiet => OneRow' /\ WalkKnows'
    BY <2>1, <2>4 DEF PathInv, OneRow, WalkKnows, PathsKept
  <2>6. Quiet => EditsKnowPaths'
    <3>1. \A f \in Edits : edit'[f] # None => edit'[f] = edit[f] /\ edit[f] # None
      BY <1>0, <2>1 DEF Remembered
    <3> QED BY <2>1, <2>4, <3>1 DEF PathInv, EditsKnowPaths, PathsKept
  <2> QED BY <2>1, <2>5, <2>6 DEF PathInv, Quiet, OneScan
<1>6. ASSUME NEW g, RemoveGame(g) PROVE PathInv'
  BY <1>6, DeletedPaths, KeptPaths DEF RemoveGame, scanVars
<1>7. ASSUME NEW e \in Edits, NEW g, ReadGame(e, g) PROVE PathInv'
  <2>1. /\ g \in DOMAIN rows /\ UNCHANGED <<env, libraryVars, scanning, scan>>
        /\ edit' = [edit EXCEPT ![e] = [id |-> g, row |-> rows[g]]]
    BY <1>7 DEF ReadGame, scanVars
  <2>2. Quiet => EditsKnowPaths'
    <3> SUFFICES ASSUME Quiet, NEW f \in Edits, edit'[f] # None
                 PROVE  /\ edit'[f].id \in 1..lastId
                        /\ edit'[f].id \in DOMAIN rows =>
                             edit'[f].row.path = rows[edit'[f].id].path
      BY <2>1 DEF EditsKnowPaths, libraryVars
    <3>1. CASE f = e
      BY <1>0, <2>1, <3>1 DEF Remembered, RowsOK
    <3>2. CASE f # e
      <4>1. edit'[f] = edit[f]
        BY <1>0, <2>1, <3>2 DEF Remembered
      <4> QED BY <4>1 DEF PathInv, EditsKnowPaths
    <3> QED BY <3>1, <3>2
  <2> QED BY <2>1, <2>2 DEF PathInv, Quiet, OneScan, OneRow, WalkKnows, libraryVars
<1>8. CASE DeleteAllGames
  BY <1>8, KeptPaths DEF DeleteAllGames, PathsKept, scanVars, NoRows
<1>9. ASSUME NEW s \in Scans, Scanner(s) PROVE PathInv'
  <2>1. UNCHANGED <<env, edit>>
    BY <1>9 DEF Scanner, StartScan, SetCancel, ReadFolder, EndScan, ScanEntry
  <2> QED BY <1>9, <2>1, PathScanStep
<1>10. CASE StopScan
  <2>1. /\ UNCHANGED <<env, libraryVars, edit, scanning>>
        /\ \A s \in Scans : /\ scan'[s].at = scan[s].at /\ scan'[s].left = scan[s].left
                            /\ scan'[s].known = scan[s].known
    BY <1>0, <1>10 DEF StopScan, ScanTypes
  <2>2. OneScan'
    BY <2>1 DEF PathInv, OneScan
  <2>3. Quiet => WalkKnows'
    BY <2>1 DEF PathInv, WalkKnows, libraryVars
  <2> QED BY <2>1, <2>2, <2>3 DEF PathInv, Quiet, OneRow, EditsKnowPaths, libraryVars
<1>11. ASSUME NEW c \in clean, CleanGame(c) PROVE PathInv'
  <2>1. PathsKept
    BY <1>11, DeletedPaths DEF CleanGame, PathsKept
  <2> QED BY <1>11, <2>1, KeptPaths DEF CleanGame, scanVars
<1>12. CASE SaveReport
  <2> DEFINE new == SetColumn(rows, report.id, "version", report.version)
  <2>1. DOMAIN new = DOMAIN rows /\ \A g \in DOMAIN rows : new[g].path = rows[g].path
    <3>1. Table(rows) /\ report.version \in Versions /\ "version" \in VersionColumns
      BY <1>0, <1>12 DEF SaveReport, Remembered, RowsOK, VersionColumns
    <3> QED BY <3>1, VersionColumnsKeepPaths
  <2>2. rows' = new
    BY <1>12 DEF SaveReport, UpdateGameVersion
  <2>3. PathsKept
    BY <2>1, <2>2 DEF PathsKept
  <2> QED BY <1>12, <2>3, KeptPaths DEF SaveReport, scanVars
<1>13. ASSUME NEW c \in check, CheckGame(c) PROVE PathInv'
  <2> SUFFICES PathsKept
    BY <1>13, KeptPaths DEF CheckGame, scanVars
  <2> DEFINE set(v) == SetColumn(rows, c.id, "latest", v)
  <2>1. BestOf(c.row.title) \subseteq Versions /\ 0 \in Versions
    BY <1>0, <1>13, FoundVersions DEF Remembered, GameRow
  <2>2. ASSUME NEW v \in Versions, NEW b \in BOOLEAN,
               rows' = UpdateGameUpdateInfo(rows, c.id, v, b)
        PROVE  PathsKept
    <3>1. /\ Table(set(v)) /\ DOMAIN set(v) = DOMAIN rows
          /\ \A g \in DOMAIN rows : set(v)[g].path = rows[g].path
      BY <1>0, ColumnSet DEF RowsOK
    <3>2. rows' = SetColumn(set(v), c.id, "updateAvailable", b)
      BY <2>2 DEF UpdateGameUpdateInfo
    <3> HIDE DEF set
    <3>3. DOMAIN rows' = DOMAIN set(v) /\ \A g \in DOMAIN set(v) : rows'[g].path = set(v)[g].path
      <4>1. "updateAvailable" \in VersionColumns
        BY DEF VersionColumns
      <4> QED BY <3>1, <3>2, <4>1, VersionColumnsKeepPaths
    <3> QED BY <3>1, <3>3 DEF PathsKept
  <2>3. rows' = rows => PathsKept
    BY DEF PathsKept
  <2> QED BY <1>13, <2>1, <2>2, <2>3 DEF CheckGame
<1>14. CASE CleanLibrary \/ CheckAll \/ UNCHANGED vars \/ (\E t \in Titles : Publish(t))
             \/ (\E t \in Titles, v \in Versions : ReadReport(t, v))
  BY <1>1, <1>14 DEF CleanLibrary, CheckAll, vars, Publish, ReadReport, scanVars
<1> QED BY <1>2, <1>3, <1>4, <1>5, <1>6, <1>7, <1>8, <1>9, <1>10, <1>11, <1>12, <1>13, <1>14
        DEF Next

LEMMA TypeInvIsTyped == TypeInv /\ PathInv => TypeOK
<1> SUFFICES ASSUME TypeInv, PathInv PROVE TypeOK
  OBVIOUS
<1>1. \A s \in Scans : scan[s].at \in Places /\ scan[s].left \subseteq Titles
  BY DEF TypeInv, ScanInv, ScanTypes
<1>2. scanning = (\E s \in Scans : scan[s].at # "idle")
  BY DEF TypeInv, ScanInv, PathInv, OneScan
<1> QED BY <1>1, <1>2 DEF TypeInv, TypeOK, ScanInv, RowsOK, Table, GameRow, Places

\* Every state is one the types of the code allow, and the flag scanning is set exactly
\* while a scan is under way, however it ends, for any number of titles, edits and scans.
THEOREM TypeCorrect == Spec => []TypeOK
<1>1. Init => TypeInv /\ PathInv
  BY TypeInit, PathInit
<1>2. TypeInv /\ PathInv /\ [Next]_vars => (TypeInv /\ PathInv)'
  BY TypeStep, PathStep
<1> QED BY <1>1, <1>2, TypeInvIsTyped, PTL DEF Spec

\* No directory gets a second row from scans that are started, stopped and started again
\* while games are refreshed, reported, deleted and cleaned, whatever their number.
THEOREM DirectoriesOnce == Spec => []OneRowPerDirectory
<1>1. TypeInv /\ PathInv => OneRowPerDirectory
  BY DEF PathInv, Quiet, OneRow, OneRowPerDirectory
<1>2. Init => TypeInv /\ PathInv
  BY TypeInit, PathInit
<1>3. TypeInv /\ PathInv /\ [Next]_vars => (TypeInv /\ PathInv)'
  BY TypeStep, PathStep
<1> QED BY <1>1, <1>2, <1>3, PTL DEF Spec

-----------------------------------------------------------------------------
(* Versions.                                                               *)

\* A report that is being written is for a row without a version, unless it is gone:
\* an import does not fall into the report, and no other writer sets a version.
ReportIsLate ==
  report # None =>
    /\ report.id \in 1..lastId
    /\ "race" \notin env /\ report.id \in DOMAIN rows => parsed[report.id] = 0

\* Ids are given once: a row that is made has no version from an earlier import.
NewIdsAreUnparsed == \A g \in Ids : g > lastId => parsed[g] = 0

VersionInv ==
  parsed \in [Ids -> Versions] /\ ReportIsLate /\ NewIdsAreUnparsed /\ ReleaseVersionWins

VersionsKept ==
  DOMAIN rows' \subseteq DOMAIN rows /\ \A g \in DOMAIN rows' : rows'[g].version = rows[g].version

LEMMA VersionSet ==
  ASSUME NEW rs, Table(rs), NEW id, NEW v
  PROVE  /\ DOMAIN UpdateGameVersion(rs, id, v) = DOMAIN rs
         /\ \A g \in DOMAIN rs :
              UpdateGameVersion(rs, id, v)[g].version = IF g = id THEN v ELSE rs[g].version
<1> DEFINE new == UpdateGameVersion(rs, id, v)
<1>1. DOMAIN new = DOMAIN rs /\ \A g \in DOMAIN rs : g # id => new[g] = rs[g]
  BY DEF UpdateGameVersion, SetColumn
<1>2. id \in DOMAIN rs => new[id] = [rs[id] EXCEPT !["version"] = v] /\ DOMAIN rs[id] = Columns
  BY DEF UpdateGameVersion, SetColumn, Table, GameRow
<1>3. id \in DOMAIN rs => new[id].version = v
  BY <1>2 DEF Columns
<1> HIDE DEF new
<1>4. DOMAIN new = DOMAIN rs
      /\ \A g \in DOMAIN rs : new[g].version = IF g = id THEN v ELSE rs[g].version
  BY <1>1, <1>3
<1> QED BY <1>4 DEF new

LEMMA OtherColumnSet ==
  ASSUME NEW rs, Table(rs), NEW id, NEW column, column # "version", NEW value
  PROVE  /\ DOMAIN SetColumn(rs, id, column, value) = DOMAIN rs
         /\ \A g \in DOMAIN rs : SetColumn(rs, id, column, value)[g].version = rs[g].version
<1> DEFINE new == SetColumn(rs, id, column, value)
<1>1. DOMAIN new = DOMAIN rs /\ \A g \in DOMAIN rs : g # id => new[g] = rs[g]
  BY DEF SetColumn
<1>2. id \in DOMAIN rs => new[id] = [rs[id] EXCEPT ![column] = value] /\ DOMAIN rs[id] = Columns
  BY DEF SetColumn, Table, GameRow
<1>3. id \in DOMAIN rs => new[id].version = rs[id].version
  BY <1>2 DEF Columns
<1> HIDE DEF new
<1>4. DOMAIN new = DOMAIN rs /\ \A g \in DOMAIN rs : new[g].version = rs[g].version
  BY <1>1, <1>3
<1> QED BY <1>4 DEF new

LEMMA RowWritten ==
  ASSUME NEW rs, Table(rs), NEW id, NEW row
  PROVE  /\ DOMAIN UpdateGame(rs, id, row) = DOMAIN rs
         /\ \A g \in DOMAIN rs : UpdateGame(rs, id, row)[g].version = rs[g].version
<1> DEFINE new == UpdateGame(rs, id, row)
<1>1. DOMAIN new = DOMAIN rs /\ \A g \in DOMAIN rs : g # id => new[g] = rs[g]
  BY DEF UpdateGame
<1>2. ASSUME id \in DOMAIN rs PROVE new[id].version = rs[id].version
  <2>1. DOMAIN rs[id] = Columns
    BY <1>2 DEF Table, GameRow
  <2> QED BY <1>2, <2>1 DEF UpdateGame, Columns, VersionColumns
<1> HIDE DEF new
<1>3. DOMAIN new = DOMAIN rs /\ \A g \in DOMAIN rs : new[g].version = rs[g].version
  BY <1>1, <1>2
<1> QED BY <1>3 DEF new

LEMMA VersionInit == Init => VersionInv
BY LibraryAssumption DEF Init, VersionInv, ReportIsLate, NewIdsAreUnparsed, ReleaseVersionWins,
   Versions, NoRows

LEMMA KeptVersions ==
  ASSUME VersionInv, VersionsKept, UNCHANGED <<env, lastId, parsed>>, report' \in {report, None}
  PROVE  VersionInv'
<1>1. ReportIsLate'
  BY DEF VersionInv, ReportIsLate, VersionsKept
<1>2. ReleaseVersionWins'
  BY DEF VersionInv, ReleaseVersionWins, VersionsKept
<1> QED BY <1>1, <1>2 DEF VersionInv, NewIdsAreUnparsed

LEMMA DeletedVersions ==
  ASSUME NEW id, rows' = DeleteGame(rows, id)
  PROVE  VersionsKept
<1>1. DOMAIN DeleteGame(rows, id) = DOMAIN rows \ {id}
      /\ \A g \in DOMAIN rows \ {id} : DeleteGame(rows, id)[g] = rows[g]
  BY Deleted
<1> QED BY <1>1 DEF VersionsKept

\* A new row has the version an import gave it, or has been given none.
LEMMA InsertedVersion ==
  ASSUME TypeInv, VersionInv, NEW row, Insert(row), UNCHANGED <<env, report>>,
         \/ parsed' = parsed
         \/ row.version \in Versions /\ parsed' = [parsed EXCEPT ![lastId'] = row.version]
  PROVE  VersionInv'
<1>1. /\ lastId \in Nat /\ lastId' = lastId + 1 /\ lastId' \in Ids /\ DOMAIN rows \subseteq 1..lastId
      /\ DOMAIN rows' = DOMAIN rows \union {lastId'} /\ rows'[lastId'] = row
      /\ \A g \in DOMAIN rows : rows'[g] = rows[g]
  BY LibraryAssumption DEF TypeInv, RowsOK, Insert, CreateGame, Ids
<1>2. /\ parsed' \in [Ids -> Versions] /\ parsed'[lastId'] \in {0, row.version}
      /\ \A g \in Ids : g # lastId' => parsed'[g] = parsed[g]
  BY <1>1 DEF VersionInv, NewIdsAreUnparsed
<1>3. \A g \in 1..lastId : g \in Ids /\ g # lastId' /\ g \in 1..lastId'
  BY <1>1, LibraryAssumption DEF Ids
<1>4. NewIdsAreUnparsed'
  BY <1>1, <1>2 DEF VersionInv, NewIdsAreUnparsed, Ids
<1>5. ReportIsLate'
  BY <1>1, <1>2, <1>3 DEF VersionInv, ReportIsLate
<1>6. ReleaseVersionWins'
  BY <1>1, <1>2, <1>3 DEF VersionInv, ReleaseVersionWins
<1> QED BY <1>2, <1>4, <1>5, <1>6 DEF VersionInv

\* addGameToLibrary.
LEMMA ImportVersion ==
  ASSUME TypeInv, VersionInv, NEW t \in Titles, NEW v \in Versions, Import(t, v)
  PROVE  VersionInv'
<1>1. UNCHANGED <<env, report>> /\ ("race" \in env \/ report = None)
  BY DEF Import
<1>2. CASE UNCHANGED <<libraryVars, parsed>>
  BY <1>1, <1>2, KeptVersions DEF VersionsKept, libraryVars
<1>3. CASE Insert(Row(t, t, v)) /\ parsed' = [parsed EXCEPT ![lastId'] = v]
  <2>1. Row(t, t, v).version = v
    BY DEF Row
  <2> QED BY <1>1, <1>3, <2>1, InsertedVersion
<1>4. ASSUME NEW g \in ByTitle(rows, t), UNCHANGED lastId,
             rows' = SetColumn(IF v = 0 THEN rows ELSE UpdateGameVersion(rows, g, v), g, "path", t),
             parsed' = IF v = 0 THEN parsed ELSE [parsed EXCEPT ![g] = v]
      PROVE  VersionInv'
  <2> DEFINE set == IF v = 0 THEN rows ELSE UpdateGameVersion(rows, g, v)
  <2>1. Table(rows) /\ g \in DOMAIN rows /\ g \in Ids /\ g \in 1..lastId /\ lastId \in Nat
        /\ DOMAIN rows \subseteq Ids
    BY LibraryAssumption DEF TypeInv, RowsOK, ByTitle, Ids
  <2>2. /\ Table(set) /\ DOMAIN set = DOMAIN rows
        /\ \A h \in DOMAIN rows : set[h].version = IF h = g /\ v # 0 THEN v ELSE rows[h].version
    <3>1. CASE v = 0
      BY <2>1, <3>1
    <3>2. CASE v # 0
      <4>1. set = SetColumn(rows, g, "version", v)
        BY <3>2 DEF UpdateGameVersion
      <4>2. Table(SetColumn(rows, g, "version", v))
        BY <2>1, ColumnSet
      <4> QED BY <2>1, <3>2, <4>1, <4>2, VersionSet DEF UpdateGameVersion
    <3> QED BY <3>1, <3>2
  <2>3. rows' = SetColumn(set, g, "path", t)
    BY <1>4
  <2> HIDE DEF set
  <2>4. /\ DOMAIN rows' = DOMAIN rows
        /\ \A h \in DOMAIN rows : rows'[h].version = IF h = g /\ v # 0 THEN v ELSE rows[h].version
    BY <2>2, <2>3, OtherColumnSet
  <2>5. /\ parsed' \in [Ids -> Versions]
        /\ \A h \in Ids : parsed'[h] = IF h = g /\ v # 0 THEN v ELSE parsed[h]
    BY <1>4, <2>1 DEF VersionInv
  <2>6. NewIdsAreUnparsed'
    <3>1. \A h \in Ids : h > lastId => h # g
      BY <2>1
    <3> QED BY <1>4, <2>5, <3>1 DEF VersionInv, NewIdsAreUnparsed
  <2>7. ReportIsLate'
    BY <1>1, <1>4 DEF VersionInv, ReportIsLate
  <2>8. ReleaseVersionWins'
    BY <1>1, <2>1, <2>4, <2>5 DEF VersionInv, ReleaseVersionWins
  <2> QED BY <2>5, <2>6, <2>7, <2>8 DEF VersionInv
<1> QED BY <1>2, <1>3, <1>4 DEF Import

LEMMA VersionStep == TypeInv /\ VersionInv /\ [Next]_vars => VersionInv'
<1> SUFFICES ASSUME TypeInv, VersionInv, [Next]_vars PROVE VersionInv'
  OBVIOUS
<1>0. RowsOK /\ Remembered /\ Table(rows)
  BY DEF TypeInv, RowsOK
<1>1. ASSUME UNCHANGED <<env, libraryVars, report, parsed>> PROVE VersionInv'
  BY <1>1, KeptVersions DEF VersionsKept, libraryVars
<1>2. ASSUME NEW t \in Titles, AddGame(t) PROVE VersionInv'
  <2>1. PICK p : Insert(Row(t, p, 0))
    BY <1>2 DEF AddGame
  <2> QED BY <1>2, <2>1, InsertedVersion DEF AddGame
<1>3. ASSUME NEW t \in Titles, NEW v \in Versions, Import(t, v) PROVE VersionInv'
  BY <1>3, ImportVersion
<1>4. ASSUME NEW e \in Edits, EditGame(e) \/ RefreshGameMetadata(e) PROVE VersionInv'
  <2>1. PICK row : WriteGame(e, row)
    BY <1>4 DEF EditGame, RefreshGameMetadata
  <2>2. rows' = UpdateGame(rows, edit[e].id, row) /\ UNCHANGED <<env, lastId, report, parsed>>
    BY <2>1 DEF WriteGame
  <2>3. VersionsKept
    BY <1>0, <2>2, RowWritten DEF VersionsKept
  <2> QED BY <2>2, <2>3, KeptVersions
<1>5. ASSUME NEW g, RemoveGame(g) PROVE VersionInv'
  BY <1>5, DeletedVersions, KeptVersions DEF RemoveGame
<1>6. CASE DeleteAllGames
  BY <1>6, KeptVersions DEF DeleteAllGames, VersionsKept, NoRows
<1>7. ASSUME NEW s \in Scans, Scanner(s) PROVE VersionInv'
  <2>1. UNCHANGED <<env, report, parsed>>
        /\ (UNCHANGED libraryVars \/ \E t \in Titles : Insert(Row(t, t, 0)))
    BY <1>7 DEF Scanner, StartScan, SetCancel, ReadFolder, EndScan, ScanEntry
  <2> QED BY <1>1, <2>1, InsertedVersion
<1>8. ASSUME NEW c \in clean, CleanGame(c) PROVE VersionInv'
  <2>1. VersionsKept
    BY <1>8, DeletedVersions DEF CleanGame, VersionsKept
  <2> QED BY <1>8, <2>1, KeptVersions DEF CleanGame
<1>9. ASSUME NEW t \in Titles, NEW v \in Versions, ReadReport(t, v) PROVE VersionInv'
  <2>1. PICK g \in ByTitle(rows, t) : rows[g].version = 0 /\ report' = [id |-> g, version |-> v]
    BY <1>9 DEF ReadReport
  <2>2. UNCHANGED <<env, libraryVars, parsed>>
    BY <1>9 DEF ReadReport
  <2>3. g \in DOMAIN rows /\ g \in 1..lastId
    BY <1>0 DEF RowsOK, ByTitle
  <2>4. "race" \notin env => parsed[g] = 0
    BY <2>1, <2>3 DEF VersionInv, ReleaseVersionWins
  <2>5. ReportIsLate'
    BY <2>1, <2>2, <2>3, <2>4 DEF ReportIsLate, libraryVars
  <2> QED BY <2>2, <2>5 DEF VersionInv, NewIdsAreUnparsed, ReleaseVersionWins, libraryVars
<1>10. CASE SaveReport
  <2>1. /\ report # None /\ rows' = UpdateGameVersion(rows, report.id, report.version)
        /\ report' = None /\ UNCHANGED <<env, lastId, parsed>>
    BY <1>10 DEF SaveReport
  <2>2. /\ DOMAIN rows' = DOMAIN rows
        /\ \A g \in DOMAIN rows : g # report.id => rows'[g].version = rows[g].version
    BY <1>0, <2>1, VersionSet
  <2>3. ReleaseVersionWins'
    BY <2>1, <2>2 DEF VersionInv, ReportIsLate, ReleaseVersionWins
  <2> QED BY <2>1, <2>3 DEF VersionInv, ReportIsLate, NewIdsAreUnparsed
<1>11. ASSUME NEW c \in check, CheckGame(c) PROVE VersionInv'
  <2> SUFFICES VersionsKept
    BY <1>11, KeptVersions DEF CheckGame
  <2>1. ASSUME NEW v \in Versions, NEW b, rows' = UpdateGameUpdateInfo(rows, c.id, v, b)
        PROVE  VersionsKept
    <3> DEFINE set == SetColumn(rows, c.id, "latest", v)
    <3>a. Table(set)
      BY ONLY <1>0, v \in Versions, ColumnSet
    <3>b. /\ DOMAIN set = DOMAIN rows
          /\ \A g \in DOMAIN rows : set[g].version = rows[g].version
      BY ONLY <1>0, OtherColumnSet
    <3>1. /\ Table(set) /\ DOMAIN set = DOMAIN rows
          /\ \A g \in DOMAIN rows : set[g].version = rows[g].version
      BY <3>a, <3>b
    <3>2. rows' = SetColumn(set, c.id, "updateAvailable", b)
      BY <2>1 DEF UpdateGameUpdateInfo
    <3> HIDE DEF set
    <3>3. DOMAIN rows' = DOMAIN set /\ \A g \in DOMAIN set : rows'[g].version = set[g].version
      BY <3>1, <3>2, OtherColumnSet
    <3> QED BY <3>1, <3>3 DEF VersionsKept
  <2>2. BestOf(c.row.title) \subseteq Versions /\ 0 \in Versions
    BY <1>0, <1>11, FoundVersions DEF Remembered, GameRow
  <2>3. rows' = rows => VersionsKept
    BY DEF VersionsKept
  <2> QED BY <1>11, <2>1, <2>2, <2>3 DEF CheckGame
<1>12. CASE CleanLibrary \/ CheckAll \/ StopScan \/ UNCHANGED vars \/ (\E t \in Titles : Publish(t))
             \/ (\E e \in Edits, g \in Ids : ReadGame(e, g))
  BY <1>1, <1>12 DEF CleanLibrary, CheckAll, StopScan, vars, Publish, ReadGame
<1> QED BY <1>2, <1>3, <1>4, <1>5, <1>6, <1>7, <1>8, <1>9, <1>10, <1>11, <1>12 DEF Next

\* The version that the release name gave a row is the row's version as long as it is
\* there: neither an agent's report (ReportInstalledGames) nor an edit or a refresh that
\* writes back an older row nor the checker changes it, while no import falls into a report.
THEOREM ReleaseVersionStays == Spec => []ReleaseVersionWins
<1>1. VersionInv => ReleaseVersionWins
  BY DEF VersionInv
<1>2. Init => TypeInv /\ VersionInv
  BY TypeInit, VersionInit
<1>3. TypeInv /\ VersionInv /\ [Next]_vars => (TypeInv /\ VersionInv)'
  BY TypeStep, VersionStep
<1> QED BY <1>1, <1>2, <1>3, PTL DEF Spec
=============================================================================
