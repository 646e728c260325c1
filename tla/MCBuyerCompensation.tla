------------------------ MODULE MCBuyerCompensation ------------------------
(* Two processes that share one row: rows are independent of each other, but   *)
(* for the list a process works through.                                       *)
EXTENDS BuyerCompensation
=============================================================================
