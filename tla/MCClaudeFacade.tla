--------------------------- MODULE MCClaudeFacade ---------------------------
(* ClaudeFacade for TLC: a restart, or else a midnight and a command that     *)
(* changes a role or a cap.                                                   *)
EXTENDS ClaudeFacade

RestartAlone == restarts > 0 => day + adminActs = 0
=============================================================================
