----------------------------- MODULE MCSaveSync -----------------------------
(***************************************************************************)
(* SaveSync for TLC.  Devices are interchangeable.                         *)
(***************************************************************************)
EXTENDS SaveSync, TLC

Symmetry == Permutations(Agents)
=============================================================================
