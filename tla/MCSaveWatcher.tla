--------------------------- MODULE MCSaveWatcher ---------------------------
(***************************************************************************)
(* SaveWatcher for TLC.                                                    *)
(***************************************************************************)
EXTENDS SaveWatcher

\* Restores that overlap while uploads succeed; manual and slow uploads that may fail;
\* lookups and downloads that fail, with games that come and go.  (With "slow_restore"
\* NoSpuriousUpload does not hold.)
MCEnvs ==
  {{"restore", "two_restores"},
   {"manual", "slow_upload", "upload_fail"},
   {"fetch_fail", "uninstall"}}
=============================================================================
