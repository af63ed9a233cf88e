--------------------------- MODULE MCAgentStream ---------------------------
(***************************************************************************)
(* AgentStream for TLC.                                                    *)
(***************************************************************************)
EXTENDS AgentStream

\* Streams break, the server times them out or restarts, and handlers subscribe before
\* their client breaks.  (With "late_open" LiveIsReachable does not hold.)
MCEnv == {"disconnect", "server_timeout", "server_restart"}
=============================================================================
