-------------------------- MODULE MCEscrowWebhook --------------------------
(* The webhook on a small mission; a slice of the mission's life at a time. *)
EXTENDS EscrowWebhook

\* From the match to the buyer's reception, with the customs detour.
MCRouteEdges ==
    {<<"FUNDED", "MATCHED">>, <<"MATCHED", "IN_PROGRESS">>,
     <<"IN_PROGRESS", "ESCROW_LOCKED_CUSTOMS">>,
     <<"ESCROW_LOCKED_CUSTOMS", "PENDING_CUSTOMS_REVIEW">>,
     <<"PENDING_CUSTOMS_REVIEW", "VALIDATED">>, <<"IN_PROGRESS", "VALIDATED">>}

MCPurchaseAmounts == {3}
MCRefundAmounts == {2, 6}

\* The event Stripe delivers again until it is acknowledged: the capture's.
MCEvent == [kind: {"succeeded"}, id: {1}, amount: {CaptureAmount(b) : b \in BOOLEAN}]

\* No delivery is under way for ever.
LiveSpec ==
    /\ Spec /\ Redelivery(MCEvent)
    /\ WF_vars(\E t \in inflight : Handle(t) \/ Rollback(t))
=============================================================================
