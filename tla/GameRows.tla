------------------------------ MODULE GameRows ------------------------------
(***************************************************************************)
(* The table Games as GameRepository's statements see it                   *)
(* (internal/repository/game_repository.go): a function from the ids of    *)
(* the rows there are to rows.  Each operator is one statement, atomic in  *)
(* SQLite; an UPDATE or DELETE of a row that is gone does nothing.  Ids    *)
(* are AUTOINCREMENT: the caller keeps the last one given.                 *)
(***************************************************************************)
EXTENDS Naturals, Functions

\* The columns that UpdateGame does not write.
VersionColumns == {"version", "latest", "updateAvailable"}

NoRows == [i \in {} |-> {}]

ByIgdbID(rows, id) == { i \in DOMAIN rows : rows[i].igdb = id }
ByTitle(rows, t)   == { i \in DOMAIN rows : rows[i].title = t }
ByPath(rows, p)    == { i \in DOMAIN rows : rows[i].path = p }
WithVersion(rows, none) == { i \in DOMAIN rows : rows[i].version # none }

CreateGame(rows, id, row) == [i \in DOMAIN rows \union {id} |-> IF i = id THEN row ELSE rows[i]]

\* Every column but the versions, from a row that was read earlier.
UpdateGame(rows, id, row) ==
  [i \in DOMAIN rows |->
     IF i = id
     THEN [c \in DOMAIN rows[i] |-> IF c \in VersionColumns THEN rows[i][c] ELSE row[c]]
     ELSE rows[i]]

SetColumn(rows, id, column, value) ==
  [i \in DOMAIN rows |-> IF i = id THEN [rows[i] EXCEPT ![column] = value] ELSE rows[i]]

UpdateGameVersion(rows, id, v) == SetColumn(rows, id, "version", v)

UpdateGameUpdateInfo(rows, id, v, available) ==
  SetColumn(SetColumn(rows, id, "latest", v), id, "updateAvailable", available)

DeleteGame(rows, id) == Restrict(rows, DOMAIN rows \ {id})
=============================================================================
