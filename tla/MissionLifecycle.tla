-------------------------- MODULE MissionLifecycle --------------------------
(***************************************************************************)
(* One mission from its funding to its end: the routes of buyer, traveler   *)
(* and admin, the workers that end a mission by timeout, and the webhook.    *)
(* A route or worker that moves money reads the mission and the escrow,      *)
(* calls Stripe outside any transaction, and then writes the mission if its  *)
(* status is still the one it asked for: anything may happen in between.     *)
(***************************************************************************)
EXTENDS Naturals

CONSTANT Request   \* calls that move money and may be under way together

VARIABLES
    mission,   \* Mission.status
    shipped,   \* /ship has set the deadline of the automatic refund
    sealed,    \* the hash of the inner QR seal is stored
    dutiable,  \* the declared value is above the customs threshold
    escrow,    \* the EscrowTransaction: [status, captured]
    hold,      \* Stripe: status of the PaymentIntent, and the key that moved it
    booked,    \* the webhook has acknowledged the event of the capture
    account,   \* the traveler is verified and has a Connect account
    request    \* what each call is doing

parcel == <<shipped, sealed, dutiable>>
vars == <<mission, parcel, escrow, hold, booked, account, request>>

CustomsLocked == {"ESCROW_LOCKED_CUSTOMS", "PENDING_CUSTOMS_REVIEW"}

MissionStatus == CustomsLocked \cup
    {"FUNDED", "MATCHED", "IN_PROGRESS", "AWAITING_VALIDATION", "VALIDATED",
     "DEPOSITED", "DISPUTED", "IN_DISPUTE", "DISPUTED_FRAUD",
     "AWAITING_TRAVELER_ACCOUNT", "RELEASED", "REFUNDED", "CANCELLED"}

\* The calls that move money: the statuses in which each is accepted, the one it
\* asks for again when it writes, and the one it writes.
Call(accepts, from, to) == [accepts |-> accepts, writes |-> <<from, to>>]

ValidateCall   == Call({"AWAITING_VALIDATION"}, "AWAITING_VALIDATION", "VALIDATED")
ReceiptCall    == Call({"AWAITING_VALIDATION"}, "AWAITING_VALIDATION", "VALIDATED")
ReceiveCall    == Call({"IN_PROGRESS"}, "IN_PROGRESS", "VALIDATED")
CollectionCall == Call({"DEPOSITED"}, "DEPOSITED", "VALIDATED")
TimeoutCall    == Call({"DEPOSITED"}, "DEPOSITED", "VALIDATED")
PayoutCall     == Call({"DISPUTED"}, "DISPUTED", "VALIDATED")
RefundCall     == Call({"DISPUTED"}, "DISPUTED", "CANCELLED")
DisputeCall    == Call({"IN_DISPUTE"}, "IN_DISPUTE", "REFUNDED")
CustomsTimeoutCall ==
    Call({"ESCROW_LOCKED_CUSTOMS"}, "ESCROW_LOCKED_CUSTOMS", "REFUNDED")

\* customs-approve captures before it looks at the status of the mission.
CustomsCall == Call(MissionStatus, "PENDING_CUSTOMS_REVIEW", "VALIDATED")

\* These two leave the mission alone.
EscrowCall  == [accepts |-> MissionStatus \ CustomsLocked]
PenaltyCall == [accepts |-> {"DISPUTED_FRAUD"}]

Accepts == [
    validate        |-> ValidateCall.accepts,
    receipt         |-> ReceiptCall.accepts,
    receive         |-> ReceiveCall.accepts,
    collection      |-> CollectionCall.accepts,
    timeout         |-> TimeoutCall.accepts,
    payout          |-> PayoutCall.accepts,
    customs         |-> CustomsCall.accepts,
    escrow          |-> EscrowCall.accepts,
    refund          |-> RefundCall.accepts,
    customs_timeout |-> CustomsTimeoutCall.accepts,
    dispute         |-> DisputeCall.accepts,
    penalty         |-> PenaltyCall.accepts]

Moves == [
    validate        |-> ValidateCall.writes,
    receipt         |-> ReceiptCall.writes,
    receive         |-> ReceiveCall.writes,
    collection      |-> CollectionCall.writes,
    timeout         |-> TimeoutCall.writes,
    payout          |-> PayoutCall.writes,
    customs         |-> CustomsCall.writes,
    refund          |-> RefundCall.writes,
    customs_timeout |-> CustomsTimeoutCall.writes,
    dispute         |-> DisputeCall.writes]

Route == DOMAIN Accepts

Cancels == {"refund", "customs_timeout", "dispute", "penalty"}

\* Calls that write the escrow themselves instead of leaving it to the webhook.
ClosesEscrow == {"dispute", "penalty"}

\* The key sent to Stripe: /escrow/capture shares the one of /validate.
Key(route) == IF route = "escrow" THEN "validate" ELSE route

Idle == [step |-> "idle"]

Init ==
    /\ mission = "FUNDED"
    /\ shipped = FALSE /\ sealed = FALSE /\ dutiable \in BOOLEAN
    /\ escrow = [status |-> "HELD", captured |-> FALSE]
    /\ hold = [status |-> "authorized", key |-> "none"]
    /\ booked = FALSE
    /\ account \in BOOLEAN
    /\ request = [r \in Request |-> Idle]

-----------------------------------------------------------------------------
(* Routes and workers that write the mission in one conditional update.     *)

Becomes(from, to) ==
    /\ mission \in from
    /\ mission' = to
    /\ UNCHANGED <<dutiable, escrow, hold, booked, account, request>>

Match == Becomes({"FUNDED"}, "MATCHED") /\ UNCHANGED <<shipped, sealed>>

StartTravel == Becomes({"MATCHED"}, "IN_PROGRESS") /\ UNCHANGED <<shipped, sealed>>

Ship == Becomes({"MATCHED"}, "IN_PROGRESS") /\ shipped' = TRUE /\ sealed' = TRUE

\* /submit-receipt and /drop-off.
Submit == Becomes({"IN_PROGRESS"}, "AWAITING_VALIDATION") /\ UNCHANGED <<shipped, sealed>>

\* /receive, when duties are due: the capture waits for the customs.
LockCustoms ==
    /\ sealed /\ dutiable
    /\ Becomes({"IN_PROGRESS"}, "ESCROW_LOCKED_CUSTOMS")
    /\ UNCHANGED <<shipped, sealed>>

CustomsReceipt ==
    Becomes({"ESCROW_LOCKED_CUSTOMS"}, "PENDING_CUSTOMS_REVIEW") /\ UNCHANGED <<shipped, sealed>>

CustomsReject ==
    Becomes({"PENDING_CUSTOMS_REVIEW"}, "ESCROW_LOCKED_CUSTOMS") /\ UNCHANGED <<shipped, sealed>>

DropoffReceipt ==
    Becomes({"MATCHED", "VALIDATED"}, "DEPOSITED") /\ sealed' = TRUE /\ UNCHANGED shipped

Dispute == Becomes({"DEPOSITED"}, "DISPUTED") /\ UNCHANGED <<shipped, sealed>>

ArbitrateFraud == Becomes({"DISPUTED"}, "DISPUTED_FRAUD") /\ UNCHANGED <<shipped, sealed>>

\* The deadline set by /ship has passed.
AutoRefundWatchdog ==
    shipped /\ Becomes({"IN_PROGRESS"}, "IN_DISPUTE") /\ UNCHANGED <<shipped, sealed>>

AccountChanges ==
    /\ account' = ~account
    /\ UNCHANGED <<mission, parcel, escrow, hold, booked, request>>

-----------------------------------------------------------------------------
(* Routes and workers that call Stripe.                                     *)

\* What a call asks for besides the status of the mission.
Ready(route) ==
    /\ route \in {"receive", "collection"} => sealed
    /\ route = "receive" => ~dutiable

\* Only the customs timeout does not read the escrow.
CallsStripe(route) == route = "customs_timeout" \/ escrow.status = "HELD"

\* The two workers have only the database left to write when the hold is closed;
\* the one of disputes gives up on an escrow that was released.
SkipsStripe(route) ==
    \/ route = "penalty" /\ escrow.status # "HELD"
    \/ route = "dispute" /\ escrow.status = "CANCELLED"

Check(r) ==
    /\ request[r] = Idle
    /\ \E route \in Route, step \in {"stripe", "write"} :
         /\ mission \in Accepts[route] /\ Ready(route)
         /\ IF step = "stripe" THEN CallsStripe(route) ELSE SkipsStripe(route)
         /\ request' = [request EXCEPT ![r] = [step |-> step, route |-> route]]
    /\ UNCHANGED <<mission, parcel, escrow, hold, booked, account>>

Ends(r) == request' = [request EXCEPT ![r] = Idle]

Wanted(route) == IF route \in Cancels THEN "canceled" ELSE "captured"

\* Mutant: an error of Stripe does not stop the call.
CallStripeCarryOn(r) ==
    /\ request[r].step = "stripe"
    /\ request' = [request EXCEPT ![r].step = "write"]
    /\ LET done == [status |-> Wanted(request[r].route), key |-> Key(request[r].route)]
       IN  hold' \in {hold} \cup {h \in {done} : hold.status = "authorized"}
    /\ UNCHANGED <<mission, parcel, escrow, booked, account>>

\* Stripe moves an authorized hold once, answers a key it knows as it did the
\* first time, and refuses the rest; an answer may be lost.
CallStripe(r) ==
    /\ request[r].step = "stripe"
    /\ LET done == [status |-> Wanted(request[r].route), key |-> Key(request[r].route)]
       IN  \/ /\ hold.status = "authorized" \/ hold = done
              /\ hold' = done
              /\ request' = [request EXCEPT ![r].step = "write"]
           \/ /\ hold' \in {hold} \cup {h \in {done} : hold.status = "authorized"}
              /\ Ends(r)
    /\ UNCHANGED <<mission, parcel, escrow, booked, account>>

\* customs-approve alone looks at the escrow again before it writes.
MayWrite(route) == route = "customs" => escrow.status = "HELD"

\* Mutants: the status is not asked for again; the escrow is closed whatever
\* has become of it.
WriteUnconditional(r) ==
    /\ request[r].step = "write"
    /\ LET route == request[r].route
       IN  /\ mission' = IF route \in DOMAIN Moves THEN Moves[route][2] ELSE mission
           /\ escrow' = IF route \in ClosesEscrow /\ escrow.status = "HELD"
                        THEN [escrow EXCEPT !.status = "CANCELLED"] ELSE escrow
    /\ Ends(r)
    /\ UNCHANGED <<parcel, hold, booked, account>>
WriteOverEscrow(r) ==
    /\ request[r].step = "write"
    /\ LET route == request[r].route
       IN  /\ mission' = IF /\ route \in DOMAIN Moves /\ mission = Moves[route][1]
                            /\ MayWrite(route)
                         THEN Moves[route][2] ELSE mission
           /\ escrow' = IF route \in ClosesEscrow
                        THEN [escrow EXCEPT !.status = "CANCELLED"] ELSE escrow
    /\ Ends(r)
    /\ UNCHANGED <<parcel, hold, booked, account>>

Write(r) ==
    /\ request[r].step = "write"
    /\ LET route == request[r].route
       IN  /\ mission' = IF /\ route \in DOMAIN Moves /\ mission = Moves[route][1]
                            /\ MayWrite(route)
                         THEN Moves[route][2] ELSE mission
           /\ escrow' = IF route \in ClosesEscrow /\ escrow.status = "HELD"
                        THEN [escrow EXCEPT !.status = "CANCELLED"] ELSE escrow
    /\ Ends(r)
    /\ UNCHANGED <<parcel, hold, booked, account>>

\* The server or the worker dies, or its transaction fails.
Crash(r) ==
    /\ request[r] # Idle
    /\ Ends(r)
    /\ UNCHANGED <<mission, parcel, escrow, hold, booked, account>>

-----------------------------------------------------------------------------
(* The webhook, on the event of the capture: EscrowWebhook in one step.     *)

\* The capture is in the books, and the money has nowhere to go.
BookWithoutAccount ==
    /\ ~account
    /\ escrow' = [escrow EXCEPT !.captured = TRUE]
    /\ mission' = "AWAITING_TRAVELER_ACCOUNT"

BookAndRelease ==
    /\ account /\ mission \notin CustomsLocked
    /\ escrow' = [status |-> "RELEASED", captured |-> TRUE]
    /\ mission' = IF mission \in {"AWAITING_VALIDATION", "VALIDATED"} THEN "RELEASED" ELSE mission

\* A mission under customs lock makes the delivery abort: Stripe comes again.
HandleCapture ==
    /\ hold.status = "captured" /\ ~booked
    /\ escrow = [status |-> "HELD", captured |-> FALSE]
    /\ BookWithoutAccount \/ BookAndRelease
    /\ booked' = TRUE
    /\ UNCHANGED <<parcel, hold, account, request>>

Step(r) == CallStripe(r) \/ Write(r)

Next ==
    \/ Match \/ StartTravel \/ Ship \/ Submit \/ DropoffReceipt
    \/ LockCustoms \/ CustomsReceipt \/ CustomsReject
    \/ Dispute \/ ArbitrateFraud \/ AutoRefundWatchdog \/ AccountChanges
    \/ \E r \in Request : Check(r) \/ Step(r) \/ Crash(r)
    \/ HandleCapture

Spec == Init /\ [][Next]_vars

\* A call under way ends, and Stripe delivers until it is acknowledged.
FairSpec ==
    /\ Spec
    /\ WF_vars(HandleCapture)
    /\ \A r \in Request : WF_vars(Step(r))

-----------------------------------------------------------------------------
(* Properties.                                                             *)

TypeOK ==
    /\ mission \in MissionStatus
    /\ {shipped, sealed, dutiable, booked, account} \subseteq BOOLEAN
    /\ escrow \in [status: {"HELD", "RELEASED", "CANCELLED"}, captured: BOOLEAN]
    /\ hold \in [status: {"authorized", "captured", "canceled"}, key: Route \cup {"none"}]
    /\ request \in [Request -> {Idle} \cup [step: {"stripe", "write"}, route: Route]]

\* Whatever races with it, the escrow row says of the buyer's money only what
\* Stripe has done: closed when the hold is gone, captured or released when the
\* money is there.
EscrowFollowsStripe ==
    /\ escrow.status = "CANCELLED" => hold.status = "canceled"
    /\ escrow.captured => hold.status = "captured"
    /\ escrow.status = "RELEASED" => escrow.captured

\* The status of the mission never runs ahead of the money: validated only when
\* the capture was made, released only when it is booked, closed in the buyer's
\* favour only when the hold can no longer be captured.
MissionFollowsMoney ==
    /\ mission = "VALIDATED" => hold.status = "captured"
    /\ mission = "RELEASED" => escrow.status = "RELEASED"
    /\ mission \in {"REFUNDED", "CANCELLED"} => hold.status = "canceled"

\* A mission that was released, refunded or cancelled is never written again,
\* not even by the webhook, which writes AWAITING_TRAVELER_ACCOUNT unconditionally.
EndIsFinal ==
    [][UNCHANGED mission \/ mission \notin {"RELEASED", "REFUNDED", "CANCELLED"}]_vars

\* The escrow row of the life cycle, the workers that close it included, keeps
\* the promise of EscrowLedger; the capture counts as one unit.
Unit(b) == IF b THEN 1 ELSE 0

Ledger == INSTANCE EscrowLedger WITH
    status <- escrow.status, captured <- Unit(escrow.captured),
    paidOut <- Unit(escrow.status = "RELEASED"), commission <- 0, credited <- 0, refunded <- 0

LedgerPromise == Ledger!Spec

-----------------------------------------------------------------------------
(* What the code, its comments or the schema say, and the code does not do. *)

\* What the schema says of IN_DISPUTE: it freezes the payout.
InDisputeFreezesPayout == mission = "IN_DISPUTE" => escrow.status # "RELEASED"

\* What the schema says of DISPUTED_FRAUD: no release, no payout to the traveler.
FraudIsNeverPaid == mission = "DISPUTED_FRAUD" => escrow.status # "RELEASED"

\* What the schema says of DISPUTED: out of reach of the workers' timeouts.
DisputeStopsTimeout ==
    [][mission = "DISPUTED" /\ hold.status = "authorized" => hold'.key # "timeout"]_vars

\* What the reconciliation says of a mission under customs lock: its hold has
\* never been captured.
CustomsLockIsUncaptured == mission = "ESCROW_LOCKED_CUSTOMS" => hold.status # "captured"

\* What the schema says of VALIDATED: transient, the webhook ends it.
ValidatedIsTransient == mission = "VALIDATED" ~> mission # "VALIDATED"

\* What the documentation says of an arbitration by refund: the escrow follows.
RefundClosesEscrow == mission = "CANCELLED" ~> escrow.status # "HELD"
=============================================================================
