--------------------------- MODULE EscrowWebhook ---------------------------
(***************************************************************************)
(* POST /api/stripe/webhook and the escrow account it moves, for one        *)
(* mission.  Stripe delivers each event at least once, in any order, and    *)
(* several instances of the server may be handling events at the same time. *)
(*                                                                          *)
(* A delivery is one READ COMMITTED transaction.  Its first statements mark *)
(* the event as processed and read the escrow without a lock (Begin); the   *)
(* rest runs on current rows once the row of the escrow is locked, and is   *)
(* one step that commits the business effect together with the mark.  An    *)
(* abort or a crash in between commits nothing, and Stripe redelivers.      *)
(***************************************************************************)
EXTENDS Integers, FiniteSets

CONSTANTS
    Budget,         \* mission.budgetCents
    Commission,     \* mission.commissionCents
    PurchaseAmounts,\* what the traveler may declare at /ship
    RefundAmounts,  \* what may be refunded on the charge in one go
    MaxFailures,    \* bound: failed payment attempts Stripe reports
    MaxCaptureIds,  \* bound: distinct ids under which a capture is reported
    MaxConcurrent,  \* bound: deliveries handled at the same time
    MaxTimeouts,    \* bound: customs timeouts that reach their last statement
    RouteEdges      \* the status changes <<from, to>> of routes and workers

\* Two further values of the enum have no writer left in the program.
MissionStatus ==
    {"CREATED", "FUNDED", "MATCHED", "IN_PROGRESS", "ESCROW_LOCKED_CUSTOMS",
     "PENDING_CUSTOMS_REVIEW", "AWAITING_VALIDATION", "VALIDATED", "DEPOSITED",
     "DISPUTED", "IN_DISPUTE", "DISPUTED_FRAUD", "AWAITING_TRAVELER_ACCOUNT",
     "RELEASED", "REFUNDED", "CANCELLED", "EXPIRED", "NOTIFICATION_FAILED"}

EscrowStatus == {"HELD", "RELEASED", "REFUNDED", "PARTIALLY_REFUNDED", "CANCELLED"}

LedgerType == {"CAPTURE", "PAYOUT", "COMMISSION", "REFUND", "BUYER_WALLET_CREDIT"}

NoPurchase == -1   \* mission.purchaseAmountCents IS NULL

CustomsLocked == {"ESCROW_LOCKED_CUSTOMS", "PENDING_CUSTOMS_REVIEW"}

ASSUME WebhookAssumption ==
    /\ Budget \in Nat \ {0} /\ Commission \in Nat
    /\ PurchaseAmounts \subseteq 0..Budget
    /\ RefundAmounts \subseteq Nat \ {0}
    /\ MaxFailures \in Nat /\ MaxCaptureIds \in Nat /\ MaxConcurrent \in Nat
    /\ MaxTimeouts \in Nat
    /\ RouteEdges \subseteq MissionStatus \X MissionStatus

VARIABLES
    pi,        \* Stripe's PaymentIntent: [status, received, refunded]
    emitted,   \* every event Stripe has created, to be delivered at least once
    escrow,    \* the EscrowTransaction row: [status, captured]
    cents,     \* the ledger: sum of the lines of each type
    rows,      \* the ledger: number of the lines of each type
    outbox,    \* the TransferOutbox rows of the escrow
    wallet,    \* what the mission credited to the buyer's wallet
    mission,   \* the Mission row: [status, substitution, purchase]
    account,   \* the traveler is KYC-verified and has a Connect account
    processed, \* ProcessedStripeEvent
    inflight   \* the open webhook transactions, each with what it has read

stripe == <<pi, emitted>>
books  == <<cents, rows, outbox, wallet>>
vars   == <<stripe, escrow, books, mission, account, processed, inflight>>

Event == [kind: {"succeeded", "payment_failed", "refunded"}, id: Nat, amount: Nat]

Tx == [event: Event, status: EscrowStatus, captured: Nat,
       account: BOOLEAN, purchase: Nat \cup {NoPurchase}]

TypeOK ==
    /\ pi \in [status: {"requires_payment_method", "requires_capture", "succeeded", "canceled"},
               received: Nat, refunded: Nat]
    /\ emitted \subseteq Event
    /\ escrow \in [status: EscrowStatus, captured: Nat]
    /\ cents \in [LedgerType -> Nat]
    /\ rows \in [LedgerType -> Nat]
    /\ outbox \subseteq [amount: Nat]
    /\ wallet \in Nat
    /\ mission \in [status: MissionStatus, substitution: BOOLEAN,
                    purchase: Nat \cup {NoPurchase}]
    /\ account \in BOOLEAN
    /\ processed \subseteq Event
    /\ inflight \subseteq Tx

Init ==
    /\ pi = [status |-> "requires_payment_method", received |-> 0, refunded |-> 0]
    /\ emitted = {}
    /\ escrow = [status |-> "HELD", captured |-> 0]
    /\ cents = [type \in LedgerType |-> 0]
    /\ rows = [type \in LedgerType |-> 0]
    /\ outbox = {}
    /\ wallet = 0
    /\ mission \in [status: {"FUNDED"}, substitution: BOOLEAN, purchase: {NoPurchase}]
    /\ account \in BOOLEAN
    /\ processed = {}
    /\ inflight = {}

-----------------------------------------------------------------------------
(* Stripe, as the server sees it.                                          *)

\* What every capture path asks for; Stripe reports it as amount_received.
CaptureAmount(substitution) ==
    (IF substitution THEN (Budget * 12) \div 10 ELSE Budget) + Commission

\* An attempt is declined; the buyer may try again on the same PaymentIntent.
PaymentAttemptFails ==
    /\ pi.status = "requires_payment_method"
    /\ \E n \in 1..MaxFailures :
         LET e == [kind |-> "payment_failed", id |-> n, amount |-> 0]
         IN  e \notin emitted /\ emitted' = emitted \cup {e}
    /\ UNCHANGED <<pi, escrow, books, mission, account, processed, inflight>>

PaymentAuthorized ==
    /\ pi.status = "requires_payment_method"
    /\ pi' = [pi EXCEPT !.status = "requires_capture"]
    /\ UNCHANGED <<emitted, escrow, books, mission, account, processed, inflight>>

\* A route or a worker captures the hold, after reading the escrow HELD at a
\* time that may be long past.  One capture may be reported under several ids.
Capture ==
    /\ pi.status = "requires_capture"
    /\ LET amount == CaptureAmount(mission.substitution)
       IN  /\ pi' = [pi EXCEPT !.status = "succeeded", !.received = amount]
           /\ \E n \in 1..MaxCaptureIds :
                emitted' = emitted \cup
                  {[kind |-> "succeeded", id |-> k, amount |-> amount] : k \in 1..n}
    /\ UNCHANGED <<escrow, books, mission, account, processed, inflight>>

\* Admin refusal, customs timeout, dispute and penalty workers cancel the hold.
CancelHold ==
    /\ pi.status \in {"requires_payment_method", "requires_capture"}
    /\ pi' = [pi EXCEPT !.status = "canceled"]
    /\ UNCHANGED <<emitted, escrow, books, mission, account, processed, inflight>>

\* A refund issued on the charge; the event carries the cumulative amount.
RefundCharge ==
    /\ pi.status = "succeeded"
    /\ \E r \in RefundAmounts :
         /\ pi.refunded + r <= pi.received
         /\ pi' = [pi EXCEPT !.refunded = @ + r]
         /\ emitted' = emitted \cup
              {[kind |-> "refunded", id |-> 1, amount |-> pi.refunded + r]}
    /\ UNCHANGED <<escrow, books, mission, account, processed, inflight>>

-----------------------------------------------------------------------------
(* The rest of the program, as the webhook sees it.                        *)

\* Append to the ledger one line of each type in DOMAIN lines.
Journal(lines) ==
    /\ cents' = [type \in LedgerType |->
                   IF type \in DOMAIN lines THEN cents[type] + lines[type] ELSE cents[type]]
    /\ rows' = [type \in LedgerType |->
                   IF type \in DOMAIN lines THEN rows[type] + 1 ELSE rows[type]]

\* A route or a worker moves the mission; /ship also declares the purchase.
RouteStep ==
    /\ \E edge \in RouteEdges :
         /\ mission.status = edge[1]
         /\ \/ mission' = [mission EXCEPT !.status = edge[2]]
            \/ /\ edge = <<"MATCHED", "IN_PROGRESS">>
               /\ \E p \in PurchaseAmounts :
                    mission' = [mission EXCEPT !.status = edge[2], !.purchase = p]
    /\ UNCHANGED <<stripe, escrow, books, account, processed, inflight>>

\* Onboarding of the traveler at Stripe is written by nothing in the program.
AccountChanges ==
    /\ account' = ~account
    /\ UNCHANGED <<stripe, escrow, books, mission, processed, inflight>>

\* The dispute and penalty workers close the escrow of a hold they cancelled.
WorkerCancelsEscrow ==
    /\ pi.status = "canceled"
    /\ escrow.status = "HELD"
    /\ escrow' = [escrow EXCEPT !.status = "CANCELLED"]
    /\ UNCHANGED <<stripe, books, mission, account, processed, inflight>>

\* Funding reconciliation gives an unpaid reservation up.  It looked at the
\* PaymentIntent earlier; only the two rows are checked when it commits.
FundingRollback ==
    /\ escrow = [status |-> "HELD", captured |-> 0]
    /\ mission.status = "FUNDED"
    /\ escrow' = [escrow EXCEPT !.status = "CANCELLED"]
    /\ mission' = [mission EXCEPT !.status = "CREATED"]
    /\ UNCHANGED <<stripe, books, account, processed, inflight>>

\* The customs timeout cancelled the hold of a mission it had found locked; it
\* closes the mission if it is locked still, books a refund of nothing in any
\* case, and leaves the escrow alone.
CustomsTimeout ==
    /\ pi.status = "canceled"
    /\ rows["REFUND"] < MaxTimeouts
    /\ mission' = IF mission.status = "ESCROW_LOCKED_CUSTOMS"
                  THEN [mission EXCEPT !.status = "REFUNDED"]
                  ELSE mission
    /\ Journal([REFUND |-> 0])
    /\ UNCHANGED <<stripe, escrow, outbox, wallet, account, processed, inflight>>

-----------------------------------------------------------------------------
(* One delivery of one event.                                              *)

\* The unique index on stripeEventId makes a second delivery of an event wait
\* for the first; an event already processed is acknowledged without effect.
Begin(e) ==
    /\ e \in emitted \ processed
    /\ \A t \in inflight : t.event # e
    /\ Cardinality(inflight) < MaxConcurrent
    /\ inflight' = inflight \cup
         {[event |-> e, status |-> escrow.status, captured |-> escrow.captured,
           account |-> account, purchase |-> mission.purchase]}
    /\ UNCHANGED <<stripe, escrow, books, mission, account, processed>>

\* The effect is committed together with the mark on the event ...
Commits(t) ==
    /\ processed' = processed \cup {t.event}
    /\ inflight' = inflight \ {t}

\* ... there is nothing to do, and the event is acknowledged ...
Acquit(t) ==
    /\ Commits(t)
    /\ UNCHANGED <<stripe, escrow, books, mission, account>>

\* ... or the handler throws (or the instance crashes): all is rolled back.
Rollback(t) ==
    /\ inflight' = inflight \ {t}
    /\ UNCHANGED <<stripe, escrow, books, mission, account, processed>>

(* payment_intent.succeeded *)

\* Mutants of the guard: the row is not read again under the lock; the account
\* of the traveler is required before the capture is booked.
JournalableUnlocked(t) == t.status = "HELD" /\ t.captured = 0 /\ t.event.amount > 0
JournalableIfPayable(t) ==
    escrow = [status |-> "HELD", captured |-> 0] /\ t.event.amount > 0 /\ t.account

\* The row, read again under its lock, was never captured.
Journalable(t) == escrow = [status |-> "HELD", captured |-> 0] /\ t.event.amount > 0

AcquitCapture(t) ==
    /\ \/ escrow.status = "RELEASED"
       \/ /\ t.event.amount > 0 /\ ~Journalable(t)
          /\ escrow.captured = t.event.amount
    /\ Acquit(t)

ConflictingCapture(t) ==
    /\ escrow.status # "RELEASED"
    /\ ~Journalable(t) /\ (t.event.amount = 0 \/ escrow.captured # t.event.amount)
    /\ Rollback(t)

\* The capture is booked, but there is no account to pay the traveler on.
BookCapture(t) ==
    /\ Journalable(t) /\ ~t.account
    /\ escrow' = [escrow EXCEPT !.captured = t.event.amount]
    /\ Journal([CAPTURE |-> t.event.amount])
    /\ mission' = [mission EXCEPT !.status = "AWAITING_TRAVELER_ACCOUNT"]
    /\ Commits(t)
    /\ UNCHANGED <<stripe, outbox, wallet, account>>

\* Mutant of the split: the commission is paid out as well.
SpendableAll(t) == t.event.amount

\* What is left of the capture once the platform has its commission, and the
\* part of it the traveler spent; the buyer's wallet gets the rest.
Spendable(t) == t.event.amount - Commission

Payout(t) ==
    IF mission.substitution /\ t.purchase # NoPurchase /\ t.purchase < Spendable(t)
    THEN t.purchase
    ELSE Spendable(t)

\* transferOutbox.idempotencyKey is unique and the same for every transfer of
\* the mission: a second row cannot be inserted.
ReleaseRefused(t) ==
    \/ Spendable(t) < 0
    \/ outbox # {}
    \/ mission.status \in CustomsLocked

Release(t) ==
    /\ Journalable(t) /\ t.account /\ ~ReleaseRefused(t)
    /\ escrow' = [status |-> "RELEASED", captured |-> t.event.amount]
    /\ LET credit == Spendable(t) - Payout(t)
           lines == [CAPTURE |-> t.event.amount, PAYOUT |-> Payout(t), COMMISSION |-> Commission]
       IN  /\ IF credit > 0
              THEN Journal([CAPTURE |-> lines.CAPTURE, PAYOUT |-> lines.PAYOUT,
                            COMMISSION |-> lines.COMMISSION, BUYER_WALLET_CREDIT |-> credit])
              ELSE Journal(lines)
           /\ wallet' = wallet + credit
    /\ outbox' = {[amount |-> Payout(t)]}
    /\ mission' = IF mission.status \in {"AWAITING_VALIDATION", "VALIDATED"}
                  THEN [mission EXCEPT !.status = "RELEASED"]
                  ELSE mission
    /\ Commits(t)
    /\ UNCHANGED <<stripe, account>>

RefusedRelease(t) ==
    /\ Journalable(t) /\ t.account /\ ReleaseRefused(t)
    /\ Rollback(t)

HandleCapture(t) ==
    /\ t.event.kind = "succeeded"
    /\ \/ AcquitCapture(t) \/ ConflictingCapture(t)
       \/ BookCapture(t) \/ Release(t) \/ RefusedRelease(t)

(* payment_intent.payment_failed *)

\* Mutant: a booked capture does not stop the cancellation.
CancellableHeld == escrow.status = "HELD"

Cancellable == escrow = [status |-> "HELD", captured |-> 0]

HandleFailure(t) ==
    /\ t.event.kind = "payment_failed"
    /\ \/ /\ Cancellable
          /\ escrow' = [escrow EXCEPT !.status = "CANCELLED"]
          /\ mission' = IF mission.status \in {"RELEASED", "REFUNDED", "CANCELLED"}
                        THEN mission
                        ELSE [mission EXCEPT !.status = "CANCELLED"]
          /\ Commits(t)
          /\ UNCHANGED <<stripe, books, account>>
       \/ /\ ~Cancellable
          /\ IF t.status = "CANCELLED" THEN Acquit(t) ELSE Rollback(t)

(* charge.refunded *)

\* Mutants: a released escrow is refunded; the cumulative amount is booked as if
\* it were one refund; one refund is compared with the whole capture.
RefundableReleased == escrow.status \in {"HELD", "PARTIALLY_REFUNDED", "RELEASED"}
RefundDeltaCumulative(t) == t.event.amount
FullRefundInOneGo(t) == t.event.amount - cents["REFUND"] >= t.captured

Refundable == escrow.status \in {"HELD", "PARTIALLY_REFUNDED"}

\* Guards of the handler, in its order; the amount of the event is cumulative.
BeforeCapture(t) == t.captured = 0
NothingNew(t)    == ~BeforeCapture(t) /\ t.event.amount = cents["REFUND"]
LedgerAhead(t)   == ~BeforeCapture(t) /\ t.event.amount < cents["REFUND"]
Booked(t)        == ~BeforeCapture(t) /\ t.event.amount > cents["REFUND"]

RefundDelta(t) == t.event.amount - cents["REFUND"]

FullRefund(t) == t.event.amount >= t.captured

BookRefund(t) ==
    /\ Booked(t) /\ t.event.amount <= t.captured /\ Refundable
    /\ escrow' = [escrow EXCEPT !.status =
                    IF FullRefund(t) THEN "REFUNDED" ELSE "PARTIALLY_REFUNDED"]
    /\ Journal([REFUND |-> RefundDelta(t)])
    /\ Commits(t)
    /\ UNCHANGED <<stripe, outbox, wallet, mission, account>>

RefusedRefund(t) ==
    /\ \/ BeforeCapture(t)
       \/ LedgerAhead(t)
       \/ Booked(t) /\ ~(t.event.amount <= t.captured /\ Refundable)
    /\ Rollback(t)

HandleRefund(t) ==
    /\ t.event.kind = "refunded"
    /\ \/ NothingNew(t) /\ Acquit(t)
       \/ BookRefund(t)
       \/ RefusedRefund(t)

Handle(t) == HandleCapture(t) \/ HandleFailure(t) \/ HandleRefund(t)

\* The instance dies, or the database drops the transaction.
Crash(t) == Rollback(t)

-----------------------------------------------------------------------------

Stripe == PaymentAttemptFails \/ PaymentAuthorized \/ Capture \/ CancelHold \/ RefundCharge

Program == RouteStep \/ AccountChanges \/ WorkerCancelsEscrow \/ FundingRollback \/ CustomsTimeout

Next ==
    \/ Stripe
    \/ Program
    \/ \E e \in emitted : Begin(e)
    \/ \E t \in inflight : Handle(t) \/ Crash(t)

Spec == Init /\ [][Next]_vars

\* Stripe keeps delivering an event until it is acknowledged, and not every
\* delivery of it is cut short.
Finish(e) == \E t \in inflight : t.event = e /\ Handle(t)

Redelivery(E) == \A e \in E : SF_vars(Begin(e)) /\ SF_vars(Finish(e))

-----------------------------------------------------------------------------
(* Properties.                                                             *)

Outflow == cents["PAYOUT"] + cents["COMMISSION"] + cents["REFUND"] + cents["BUYER_WALLET_CREDIT"]

\* Invariants A, B and C of the daily reconciliation: the CAPTURE lines sum to
\* what the escrow row says was captured; no more leaves the account than was
\* captured; exactly the capture has left a released or refunded account.
LedgerBalanced ==
    /\ cents["CAPTURE"] = escrow.captured
    /\ Outflow <= cents["CAPTURE"]
    /\ escrow.status \in {"RELEASED", "REFUNDED"} => Outflow = cents["CAPTURE"]

\* The traveler is owed money exactly once and exactly when the escrow is
\* released: one PAYOUT line, one transfer of the same amount in the outbox,
\* and never a refund next to them, whatever events raced or were repeated.
ReleasePaysOnce ==
    IF escrow.status = "RELEASED"
    THEN /\ rows["PAYOUT"] = 1 /\ rows["COMMISSION"] = 1
         /\ outbox = {[amount |-> cents["PAYOUT"]]}
         /\ wallet = cents["BUYER_WALLET_CREDIT"]
         /\ cents["REFUND"] = 0
    ELSE /\ rows["PAYOUT"] = 0 /\ outbox = {} /\ wallet = 0

\* A capture in the books is one Stripe really made, for that amount, and a
\* cancelled escrow was never booked as captured.
CaptureIsReal ==
    /\ escrow.captured > 0 => pi.status = "succeeded" /\ escrow.captured = pi.received
    /\ escrow.status = "CANCELLED" => escrow.captured = 0 /\ rows["CAPTURE"] = 0

\* The refunds in the books are the highest cumulative amount among the refund
\* events acknowledged: concurrent or reordered refunds are never added twice.
RefundIsHighWater ==
    LET acknowledged == {e.amount : e \in {p \in processed : p.kind = "refunded"}}
    IN  /\ cents["REFUND"] \in acknowledged \cup {0}
        /\ \A a \in acknowledged : a <= cents["REFUND"]

\* RELEASED, REFUNDED and CANCELLED are final for the row of the escrow.
TerminalEscrowImmutable ==
    [][escrow.status \in {"RELEASED", "REFUNDED", "CANCELLED"} => escrow' = escrow]_vars

\* What the account promises, whoever moves it.
Account == INSTANCE EscrowLedger WITH
    status <- escrow.status, captured <- escrow.captured,
    paidOut <- cents["PAYOUT"], commission <- cents["COMMISSION"],
    credited <- cents["BUYER_WALLET_CREDIT"], refunded <- cents["REFUND"]

AccountPromise == Account!Spec

\* Money captured at Stripe ends up in the books, unless the escrow had been
\* cancelled before or the mission is under customs lock.
CaptureEventuallyBooked ==
    pi.status = "succeeded" ~>
        \/ escrow.captured = pi.received
        \/ escrow.status = "CANCELLED"
        \/ mission.status \in CustomsLocked

-----------------------------------------------------------------------------
(* What the code, its comments or the schema say, and the code does not do. *)

\* The handler of failed payments holds a failure received after the capture for
\* impossible: it never cancels the escrow of money that was taken.
FailureCancelsNoMoney ==
    [][\A t \in inflight :
         HandleFailure(t) /\ escrow' # escrow
            => pi.status # "succeeded"]_vars

\* The refund handler takes a ledger ahead of an event for a corrupt ledger.
LedgerAheadMeansCorrupt ==
    \A t \in inflight :
        t.event.kind = "refunded" /\ LedgerAhead(t) => cents["REFUND"] > pi.refunded
=============================================================================
