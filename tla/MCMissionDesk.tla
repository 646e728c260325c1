--------------------------- MODULE MCMissionDesk ---------------------------
(* Two calls under way together beside the case, the card and the reviews; a   *)
(* call that ends or dies may start again.                                     *)
EXTENDS MissionDesk, TLC

Symmetric == Permutations(Request)
=============================================================================
