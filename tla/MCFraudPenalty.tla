--------------------------- MODULE MCFraudPenalty ---------------------------
(* Two passes; three attempts leave room for a retry after each kind of failure. *)
EXTENDS FraudPenalty
=============================================================================
