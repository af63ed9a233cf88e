--------------------------- MODULE MCGameLibrary ---------------------------
(***************************************************************************)
(* GameLibrary for TLC.                                                    *)
(***************************************************************************)
EXTENDS GameLibrary

\* Scans that are stopped while rows are deleted and the library is cleaned; edits,
\* refreshes, reports and imports of one row; the update checker and an import; scans that
\* cannot read the table, and games added with a path; searches that fail or hide.
MCEnvs ==
  {{"scan", "stop", "delete", "clean"},
   {"edit", "refresh", "report", "import"},
   {"check", "import"},
   {"scan", "add_path", "db_fail"},
   {"check", "report", "search_fail", "many"}}
=============================================================================
