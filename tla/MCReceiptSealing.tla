------------------------- MODULE MCReceiptSealing -------------------------
(* One upload, which two processes work on and which competes with a receipt *)
(* sealed by hand; two totals, one of which may be the one declared.         *)
EXTENDS ReceiptSealing
=============================================================================
