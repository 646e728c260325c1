---------------------------- MODULE EscrowLedger ----------------------------
(***************************************************************************)
(* The promise made for the buyer's escrow account, whatever the order in   *)
(* which Stripe events, workers and retries reach the database: an account  *)
(* is held; its capture is booked once; a captured account is either        *)
(* released, in one step that splits the whole capture between traveler,    *)
(* platform and the buyer's wallet, or refunded little by little; an        *)
(* account that was never captured may be cancelled; nothing else happens.  *)
(***************************************************************************)
EXTENDS Naturals

VARIABLES
    status,      \* EscrowTransaction.status
    captured,    \* EscrowTransaction.capturedAmountCents
    paidOut,     \* sum of the PAYOUT lines of the ledger
    commission,  \* sum of the COMMISSION lines
    credited,    \* sum of the BUYER_WALLET_CREDIT lines
    refunded     \* sum of the REFUND lines

account == <<status, captured, paidOut, commission, credited, refunded>>

Init ==
    /\ status = "HELD"
    /\ <<captured, paidOut, commission, credited, refunded>> = <<0, 0, 0, 0, 0>>

Uncaptured == status = "HELD" /\ captured = 0

\* The capture is booked and the account waits for a destination.
Book ==
    /\ Uncaptured
    /\ captured' \in Nat \ {0}
    /\ UNCHANGED <<status, paidOut, commission, credited, refunded>>

\* The capture is booked and shared out completely in the same step.
BookAndRelease ==
    /\ Uncaptured
    /\ captured' \in Nat \ {0}
    /\ status' = "RELEASED"
    /\ paidOut' \in Nat /\ commission' \in Nat /\ credited' \in Nat
    /\ paidOut' + commission' + credited' = captured'
    /\ UNCHANGED refunded

\* Only captured money that was not released goes back, never more than it.
Refund ==
    /\ status \in {"HELD", "PARTIALLY_REFUNDED"}
    /\ refunded' \in Nat /\ refunded < refunded' /\ refunded' <= captured
    /\ status' = IF refunded' = captured THEN "REFUNDED" ELSE "PARTIALLY_REFUNDED"
    /\ UNCHANGED <<captured, paidOut, commission, credited>>

Cancel ==
    /\ Uncaptured
    /\ status' = "CANCELLED"
    /\ UNCHANGED <<captured, paidOut, commission, credited, refunded>>

Next == Book \/ BookAndRelease \/ Refund \/ Cancel

Spec == Init /\ [][Next]_account
=============================================================================
