--------------------------- MODULE MCReconciliation ---------------------------
(* One failed attempt, one refund in two parts, one delivery at a time beside   *)
(* the pass.                                                                    *)
EXTENDS Reconciliation

MCPurchaseAmounts == {3}
MCRefundAmounts == {3}
MCRouteEdges == {<<"FUNDED", "IN_PROGRESS">>, <<"IN_PROGRESS", "ESCROW_LOCKED_CUSTOMS">>,
                 <<"IN_PROGRESS", "VALIDATED">>}
=============================================================================
