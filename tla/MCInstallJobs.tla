--------------------------- MODULE MCInstallJobs ---------------------------
(***************************************************************************)
(* InstallJobs for TLC.  Requests and agents are interchangeable, so the   *)
(* safety runs use both as a symmetry set; the liveness run does not.      *)
(***************************************************************************)
EXTENDS InstallJobs, TLC

Symmetry == Permutations(Requests) \union Permutations(Agents)
=============================================================================
