--------------------------- MODULE MCDeviceGames ---------------------------
(***************************************************************************)
(* DeviceGames with two games for TLC.                                     *)
(***************************************************************************)
EXTENDS DeviceGames

\* Each set is one behaviour of the world around the agent.
MCEnvs ==
  { {"install", "delete", "regen", "art"},    \* what a user does most
    {"install", "exe", "args", "refresh"},
    {"rename", "exe", "regen", "args"},       \* games of an earlier version
    {"install", "delete", "cloud"},
    {"install", "delete", "offline"},
    {"exe", "cloud", "restart"},              \* the agent stops between two steps
    {"rename", "cloud", "overlap"},           \* goroutines overwrite each other
    {"exe", "overlap"},
    {"install", "delete", "unsafe", "art"},   \* entries by the title and by the directory
    {"install", "exe", "args", "regen", "windows"},
    {"install", "delete", "exe", "args", "regen", "no_runner"},
    {"install", "delete", "fold"} }
=============================================================================
