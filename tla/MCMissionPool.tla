--------------------------- MODULE MCMissionPool ---------------------------
(* Two requests: one that fails half way and one that comes after or beside   *)
(* it; two attempts to tell the travelers.                                    *)
EXTENDS MissionPool
=============================================================================
