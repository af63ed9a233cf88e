-------------------------- MODULE MCDownloadImport --------------------------
(***************************************************************************)
(* DownloadImport for TLC.                                                 *)
(***************************************************************************)
EXTENDS DownloadImport

\* Overlapping imports with, in turn, an unreachable client and crashes; downloads and
\* games that the user removes; crashes with a library or a metadata service that is
\* down; copies that fail; manual imports; downloads of one name, ids that are no hashes
\* and files that are not saved.
MCEnvs ==
  {{"overlap", "outage", "crash"},
   {"overlap", "remove"}, {"overlap", "delete_game"},
   {"overlap", "crash", "igdb_down", "library_down"},
   {"overlap", "copy_fail"},
   {"manual"},
   {"same_file", "no_hash"}, {"same_dir", "save_fail", "crash"}}

\* A client may also name a path at which the server finds nothing.
MCContents == {{"game", "extra", "junk"}, {"game"}, {"extra"}, {}}
=============================================================================
