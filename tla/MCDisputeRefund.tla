-------------------------- MODULE MCDisputeRefund --------------------------
(* Two processes whose passes overlap, two events should both enqueue one.   *)
EXTENDS DisputeRefund
=============================================================================
