------------------------ MODULE EscrowWebhookProofs ------------------------
(***************************************************************************)
(* What the webhook guarantees for every budget, every commission, every    *)
(* set of route steps, any number of concurrent deliveries, of failures, of *)
(* refunds and of ids under which a capture is reported; and what the       *)
(* reconciliation of Reconciliation, which reads its books, reports of them. *)
(***************************************************************************)
EXTENDS Reconciliation, TLAPS

USE DEF MissionStatus, EscrowStatus, LedgerType, NoPurchase

-----------------------------------------------------------------------------
(* The inductive invariant, one part per kind of state.                    *)

\* Stripe takes money once, and every event it emits about money is about that.
StripeOK ==
    /\ pi.status # "succeeded" => pi.received = 0
    /\ \A e \in emitted : e.kind = "succeeded" => pi.status = "succeeded" /\ e.amount = pi.received

\* The row of the escrow and the CAPTURE lines tell the same capture.
CaptureOK ==
    /\ cents["CAPTURE"] = escrow.captured
    /\ rows["CAPTURE"] = IF escrow.captured > 0 THEN 1 ELSE 0
    /\ escrow.captured > 0 => pi.status = "succeeded" /\ escrow.captured = pi.received

\* The lines of a release are all there or none is.
ReleaseOK ==
    IF escrow.status = "RELEASED"
    THEN /\ escrow.captured > 0
         /\ cents["PAYOUT"] + cents["COMMISSION"] + cents["BUYER_WALLET_CREDIT"] = escrow.captured
         /\ rows["PAYOUT"] = 1 /\ rows["COMMISSION"] = 1
         /\ outbox = {[amount |-> cents["PAYOUT"]]}
         /\ wallet = cents["BUYER_WALLET_CREDIT"]
    ELSE /\ cents["PAYOUT"] = 0 /\ cents["COMMISSION"] = 0 /\ cents["BUYER_WALLET_CREDIT"] = 0
         /\ rows["PAYOUT"] = 0 /\ rows["COMMISSION"] = 0
         /\ outbox = {} /\ wallet = 0

\* What the status of the escrow says of the refunds booked.
RefundOK ==
    /\ escrow.status \in {"HELD", "RELEASED", "CANCELLED"} => cents["REFUND"] = 0
    /\ escrow.status = "CANCELLED" => escrow.captured = 0
    /\ escrow.status = "PARTIALLY_REFUNDED" =>
         0 < cents["REFUND"] /\ cents["REFUND"] < escrow.captured
    /\ escrow.status = "REFUNDED" =>
         cents["REFUND"] = escrow.captured /\ escrow.captured > 0

\* A transaction handles a real event, and the capture it read has not changed.
InflightOK ==
    \A t \in inflight :
        /\ t.event \in emitted
        /\ t.captured > 0 => t.captured = escrow.captured

IInv == TypeOK /\ StripeOK /\ CaptureOK /\ ReleaseOK /\ RefundOK /\ InflightOK
-----------------------------------------------------------------------------
(* Lemmas about the operators.                                             *)

\* Every capture path asks for a whole, non-negative number of cents.
LEMMA CaptureAmountNat == \A b \in BOOLEAN : CaptureAmount(b) \in Nat
BY WebhookAssumption DEF CaptureAmount

\* Booking natural amounts keeps the ledger a ledger.
LEMMA JournalTyped ==
    ASSUME cents \in [LedgerType -> Nat], rows \in [LedgerType -> Nat],
           NEW lines, \A type \in DOMAIN lines : lines[type] \in Nat,
           Journal(lines)
    PROVE  cents' \in [LedgerType -> Nat] /\ rows' \in [LedgerType -> Nat]
BY DEF Journal

\* A release splits what is left after the commission, and creates no money.
LEMMA PayoutBounded ==
    ASSUME TypeOK, NEW t \in inflight, Spendable(t) >= 0
    PROVE  /\ Spendable(t) \in Nat /\ Payout(t) \in Nat
           /\ Spendable(t) - Payout(t) \in Nat
<1>1. t \in Tx /\ mission.substitution \in BOOLEAN
  BY DEF TypeOK
<1>2. Spendable(t) \in Nat
  BY <1>1, WebhookAssumption DEF Spendable, Tx, Event
<1>3. CASE mission.substitution /\ t.purchase # NoPurchase /\ t.purchase < Spendable(t)
  BY <1>1, <1>2, <1>3 DEF Payout, Tx
<1>4. CASE ~(mission.substitution /\ t.purchase # NoPurchase /\ t.purchase < Spendable(t))
  BY <1>2, <1>4 DEF Payout
<1>5. QED
  BY <1>2, <1>3, <1>4

-----------------------------------------------------------------------------
(* Type correctness.                                                       *)

LEMMA InitTypeOK == Init => TypeOK
BY DEF Init, TypeOK

LEMMA StripeTypeOK == TypeOK /\ Stripe => TypeOK'
<1> SUFFICES ASSUME TypeOK, Stripe PROVE TypeOK'
  OBVIOUS
<1> USE DEF TypeOK, Event, books
<1>1. CASE PaymentAttemptFails
  BY <1>1 DEF PaymentAttemptFails
<1>2. CASE PaymentAuthorized
  BY <1>2 DEF PaymentAuthorized
<1>3. CASE Capture
  <2> DEFINE amount == CaptureAmount(mission.substitution)
  <2>1. amount \in Nat
    BY CaptureAmountNat
  <2> HIDE DEF amount
  <2>2. pi' = [pi EXCEPT !.status = "succeeded", !.received = amount]
    BY <1>3 DEF Capture, amount
  <2>3. PICK n \in 1..MaxCaptureIds :
          emitted' = emitted \cup
            {[kind |-> "succeeded", id |-> k, amount |-> amount] : k \in 1..n}
    BY <1>3 DEF Capture, amount
  <2>4. emitted' \subseteq Event
    BY <2>1, <2>3
  <2>5. QED
    BY <1>3, <2>1, <2>2, <2>4, ZenonT(40) DEF Capture
<1>4. CASE CancelHold
  BY <1>4 DEF CancelHold
<1>5. CASE RefundCharge
  BY <1>5, WebhookAssumption DEF RefundCharge
<1>6. QED
  BY <1>1, <1>2, <1>3, <1>4, <1>5 DEF Stripe

LEMMA ProgramTypeOK == TypeOK /\ Program => TypeOK'
<1> SUFFICES ASSUME TypeOK, Program PROVE TypeOK'
  OBVIOUS
<1> USE DEF TypeOK, books, stripe
<1>1. CASE RouteStep
  <2>1. PICK edge \in RouteEdges :
          \/ mission' = [mission EXCEPT !.status = edge[2]]
          \/ \E p \in PurchaseAmounts :
               mission' = [mission EXCEPT !.status = edge[2], !.purchase = p]
    BY <1>1 DEF RouteStep
  <2>2. edge[2] \in MissionStatus
    BY WebhookAssumption
  <2>3. \A p \in PurchaseAmounts : p \in Nat
    BY WebhookAssumption
  <2>4. mission' \in [status: MissionStatus, substitution: BOOLEAN,
                     purchase: Nat \cup {NoPurchase}]
    <3> HIDE DEF MissionStatus
    <3>1. QED
      BY <2>1, <2>2, <2>3
  <2>5. QED
    BY <1>1, <2>4 DEF RouteStep
<1>2. CASE AccountChanges
  BY <1>2 DEF AccountChanges
<1>3. CASE WorkerCancelsEscrow
  BY <1>3 DEF WorkerCancelsEscrow
<1>4. CASE FundingRollback
  BY <1>4 DEF FundingRollback
<1>5. CASE CustomsTimeout
  <2>1. cents' \in [LedgerType -> Nat] /\ rows' \in [LedgerType -> Nat]
    <3> DEFINE lines == [REFUND |-> 0]
    <3>1. \A type \in DOMAIN lines : lines[type] \in Nat
      OBVIOUS
    <3>2. Journal(lines)
      BY <1>5 DEF CustomsTimeout
    <3> HIDE DEF lines
    <3>3. QED
      BY <3>1, <3>2, JournalTyped
  <2>2. QED
    BY <1>5, <2>1 DEF CustomsTimeout
<1>6. QED
  BY <1>1, <1>2, <1>3, <1>4, <1>5 DEF Program

LEMMA CaptureHandlerTypeOK ==
    ASSUME TypeOK, NEW t \in inflight, HandleCapture(t)
    PROVE  TypeOK'
<1>0. t \in Tx /\ t.event \in Event /\ t.event.amount \in Nat
  BY DEF TypeOK, Tx, Event
<1>1. CASE AcquitCapture(t)
  BY <1>0, <1>1 DEF AcquitCapture, Acquit, Commits, TypeOK, stripe, books
<1>2. CASE ConflictingCapture(t) \/ RefusedRelease(t)
  BY <1>2 DEF ConflictingCapture, RefusedRelease, Rollback, TypeOK, stripe, books
<1>3. CASE BookCapture(t)
  <2> DEFINE lines == [CAPTURE |-> t.event.amount]
  <2>1. \A type \in DOMAIN lines : lines[type] \in Nat
    BY <1>0
  <2>2. Journal(lines)
    BY <1>3 DEF BookCapture
  <2> HIDE DEF lines
  <2>3. cents' \in [LedgerType -> Nat] /\ rows' \in [LedgerType -> Nat]
    BY <2>1, <2>2, JournalTyped DEF TypeOK
  <2>4. QED
    BY <1>0, <1>3, <2>3 DEF BookCapture, Commits, TypeOK, stripe
<1>4. CASE Release(t)
  <2> DEFINE credit == Spendable(t) - Payout(t)
             short == [CAPTURE |-> t.event.amount, PAYOUT |-> Payout(t), COMMISSION |-> Commission]
             long == [CAPTURE |-> t.event.amount, PAYOUT |-> Payout(t),
                      COMMISSION |-> Commission, BUYER_WALLET_CREDIT |-> credit]
  <2>0. Spendable(t) \in Int
    BY <1>0, WebhookAssumption DEF Spendable
  <2>1. Payout(t) \in Nat /\ credit \in Nat
    BY <1>4, <2>0, PayoutBounded DEF Release, ReleaseRefused
  <2>2. \A type \in DOMAIN short : short[type] \in Nat
    BY <1>0, <2>1, WebhookAssumption
  <2>3. \A type \in DOMAIN long : long[type] \in Nat
    BY <1>0, <2>1, WebhookAssumption
  <2>4. Journal(long) \/ Journal(short)
    BY <1>4 DEF Release
  <2>5. cents' \in [LedgerType -> Nat] /\ rows' \in [LedgerType -> Nat]
    <3> HIDE DEF short, long
    <3>1. QED
      BY <2>2, <2>3, <2>4, JournalTyped DEF TypeOK
  <2>6. wallet' \in Nat /\ outbox' \subseteq [amount : Nat]
    BY <1>4, <2>1 DEF Release, TypeOK
  <2>7. QED
    BY <1>0, <1>4, <2>5, <2>6 DEF Release, Commits, TypeOK, stripe
<1>5. QED
  BY <1>1, <1>2, <1>3, <1>4 DEF HandleCapture

LEMMA FailureHandlerTypeOK ==
    ASSUME TypeOK, NEW t \in inflight, HandleFailure(t)
    PROVE  TypeOK'
BY DEF HandleFailure, Cancellable, Acquit, Rollback, Commits, TypeOK, Tx, stripe, books

LEMMA RefundHandlerTypeOK ==
    ASSUME TypeOK, NEW t \in inflight, HandleRefund(t)
    PROVE  TypeOK'
<1>0. t \in Tx /\ t.event \in Event /\ t.event.amount \in Nat
  BY DEF TypeOK, Tx, Event
<1>1. CASE NothingNew(t) /\ Acquit(t)
  BY <1>0, <1>1 DEF Acquit, Commits, TypeOK, stripe, books
<1>2. CASE RefusedRefund(t)
  BY <1>2 DEF RefusedRefund, Rollback, TypeOK, stripe, books
<1>3. CASE BookRefund(t)
  <2> DEFINE lines == [REFUND |-> RefundDelta(t)]
  <2>1. \A type \in DOMAIN lines : lines[type] \in Nat
    BY <1>0, <1>3 DEF BookRefund, Booked, RefundDelta, TypeOK
  <2>2. Journal(lines)
    BY <1>3 DEF BookRefund
  <2> HIDE DEF lines
  <2>3. cents' \in [LedgerType -> Nat] /\ rows' \in [LedgerType -> Nat]
    BY <2>1, <2>2, JournalTyped DEF TypeOK
  <2>4. QED
    BY <1>0, <1>3, <2>3 DEF BookRefund, Commits, TypeOK, stripe
<1>4. QED
  BY <1>1, <1>2, <1>3 DEF HandleRefund

LEMMA StepTypeOK == TypeOK /\ [Next]_vars => TypeOK'
<1> SUFFICES ASSUME TypeOK, [Next]_vars PROVE TypeOK'
  OBVIOUS
<1>1. CASE Stripe
  BY <1>1, StripeTypeOK
<1>2. CASE Program
  BY <1>2, ProgramTypeOK
<1>3. ASSUME NEW e \in emitted, Begin(e) PROVE TypeOK'
  BY <1>3 DEF Begin, TypeOK, Tx, stripe, books
<1>4. ASSUME NEW t \in inflight, Handle(t) PROVE TypeOK'
  BY <1>4, CaptureHandlerTypeOK, FailureHandlerTypeOK, RefundHandlerTypeOK DEF Handle
<1>5. ASSUME NEW t \in inflight, Crash(t) PROVE TypeOK'
  BY <1>5 DEF Crash, Rollback, TypeOK, stripe, books
<1>6. CASE UNCHANGED vars
  BY <1>6 DEF vars, TypeOK, stripe, books
<1>7. QED
  BY <1>1, <1>2, <1>3, <1>4, <1>5, <1>6 DEF Next

\* The rows of the webhook always have the shape the schema gives them.
THEOREM TypeCorrect == Spec => []TypeOK
BY InitTypeOK, StepTypeOK, PTL DEF Spec
-----------------------------------------------------------------------------
(* The inductive invariant is inductive.  Parts is what is left to show of  *)
(* it after type correctness.                                               *)

Parts == StripeOK /\ CaptureOK /\ ReleaseOK /\ RefundOK /\ InflightOK

LEMMA InitIInv == Init => IInv
<1> SUFFICES ASSUME Init PROVE IInv
  OBVIOUS
<1>1. TypeOK
  BY InitTypeOK
<1>2. Parts
  BY DEF Init, Parts, StripeOK, CaptureOK, ReleaseOK, RefundOK, InflightOK
<1>3. QED
  BY <1>1, <1>2 DEF IInv, Parts

\* Stripe changes no row; it captures once, and before it reports the capture.
LEMMA StripeParts == IInv /\ Stripe => Parts'
<1> SUFFICES ASSUME IInv, Stripe PROVE Parts'
  OBVIOUS
<1>1. UNCHANGED <<escrow, books, inflight>> /\ emitted \subseteq emitted'
  BY DEF Stripe, PaymentAttemptFails, PaymentAuthorized, Capture, CancelHold, RefundCharge
<1>2. InflightOK' /\ ReleaseOK' /\ RefundOK'
  BY <1>1 DEF IInv, InflightOK, ReleaseOK, RefundOK, books
<1>3. StripeOK' /\ CaptureOK'
  <2>1. CASE PaymentAttemptFails
    BY <2>1 DEF PaymentAttemptFails, IInv, StripeOK, CaptureOK, books
  <2>2. CASE PaymentAuthorized \/ CancelHold
    BY <2>2 DEF PaymentAuthorized, CancelHold, IInv, TypeOK, StripeOK, CaptureOK, books
  <2>3. CASE Capture
    <3> DEFINE amount == CaptureAmount(mission.substitution)
    <3>1. pi' = [pi EXCEPT !.status = "succeeded", !.received = amount]
      BY <2>3 DEF Capture
    <3>2. \A e \in emitted' : e \in emitted \/ e.amount = amount
      BY <2>3 DEF Capture
    <3>3. pi.status = "requires_capture"
      BY <2>3 DEF Capture
    <3>4. \A e \in emitted : e.kind # "succeeded"
      BY <3>3 DEF IInv, StripeOK
    <3> HIDE DEF amount
    <3>5. pi'.status = "succeeded" /\ pi'.received = amount
      BY <3>1 DEF IInv, TypeOK
    <3>6. escrow.captured = 0
      BY <3>3 DEF IInv, TypeOK, CaptureOK
    <3>7. QED
      BY <1>1, <3>2, <3>4, <3>5, <3>6 DEF IInv, StripeOK, CaptureOK, books
  <2>4. CASE RefundCharge
    BY <2>4 DEF RefundCharge, IInv, TypeOK, StripeOK, CaptureOK, books
  <2>5. QED
    BY <2>1, <2>2, <2>3, <2>4 DEF Stripe
<1>4. QED
  BY <1>2, <1>3 DEF Parts

\* Routes and workers cancel only an escrow whose hold was never captured.
LEMMA ProgramParts == IInv /\ Program => Parts'
<1> SUFFICES ASSUME IInv, Program PROVE Parts'
  OBVIOUS
<1> USE DEF IInv, Parts, StripeOK, CaptureOK, ReleaseOK, RefundOK, InflightOK
<1>1. CASE RouteStep \/ AccountChanges
  BY <1>1 DEF RouteStep, AccountChanges, stripe, books
<1>2. CASE WorkerCancelsEscrow \/ FundingRollback
  <2>1. escrow.status = "HELD" /\ escrow.captured = 0
    BY <1>2 DEF WorkerCancelsEscrow, FundingRollback, TypeOK
  <2>2. escrow' = [escrow EXCEPT !.status = "CANCELLED"]
    BY <1>2 DEF WorkerCancelsEscrow, FundingRollback
  <2>3. escrow'.status = "CANCELLED" /\ escrow'.captured = 0
    BY <2>1, <2>2 DEF TypeOK
  <2>4. UNCHANGED <<stripe, books, inflight>>
    BY <1>2 DEF WorkerCancelsEscrow, FundingRollback
  <2>5. QED
    BY <2>1, <2>3, <2>4 DEF stripe, books
<1>3. CASE CustomsTimeout
  <2>1. cents' = cents
    BY <1>3 DEF CustomsTimeout, Journal, TypeOK
  <2>2. \A type \in LedgerType \ {"REFUND"} : rows'[type] = rows[type]
    BY <1>3 DEF CustomsTimeout, Journal
  <2>3. UNCHANGED <<stripe, escrow, outbox, wallet, inflight>>
    BY <1>3 DEF CustomsTimeout
  <2>4. QED
    BY <2>1, <2>2, <2>3 DEF stripe
<1>4. QED
  BY <1>1, <1>2, <1>3 DEF Program

\* The snapshot of a transaction agrees with the rows it is taken from.
LEMMA BeginParts == ASSUME IInv, NEW e \in emitted, Begin(e) PROVE Parts'
BY DEF Begin, IInv, Parts, StripeOK, CaptureOK, ReleaseOK, RefundOK, InflightOK, stripe, books

\* A transaction that is rolled back, or acknowledges without effect, leaves
\* every row as it was.
LEMMA NoEffectParts ==
    ASSUME IInv, NEW t \in inflight, Acquit(t) \/ Rollback(t)
    PROVE  Parts'
BY DEF Acquit, Commits, Rollback, IInv, Parts, StripeOK, CaptureOK, ReleaseOK, RefundOK,
       InflightOK, stripe, books
\* What booking a capture does: it is booked once, on an account that had none.
LEMMA BookCaptureEffect ==
    ASSUME IInv, NEW t \in inflight, t.event.kind = "succeeded", BookCapture(t)
    PROVE  /\ pi.status = "succeeded" /\ pi.received = t.event.amount
           /\ t.event.amount \in Nat \ {0}
           /\ escrow.status = "HELD" /\ escrow.captured = 0
           /\ escrow'.status = "HELD" /\ escrow'.captured = t.event.amount
           /\ cents'["CAPTURE"] = cents["CAPTURE"] + t.event.amount
           /\ rows'["CAPTURE"] = rows["CAPTURE"] + 1
           /\ \A type \in LedgerType \ {"CAPTURE"} :
                cents'[type] = cents[type] /\ rows'[type] = rows[type]
           /\ UNCHANGED <<pi, emitted, outbox, wallet>> /\ inflight' \subseteq inflight
<1>1. /\ pi.status = "succeeded" /\ pi.received = t.event.amount
      /\ t.event.amount \in Nat \ {0}
  BY DEF IInv, TypeOK, StripeOK, InflightOK, BookCapture, Journalable, Event
<1>2. escrow.status = "HELD" /\ escrow.captured = 0
  BY DEF BookCapture, Journalable
<1>3. escrow'.status = "HELD" /\ escrow'.captured = t.event.amount
  BY <1>2 DEF BookCapture, IInv, TypeOK
<1>4. /\ cents'["CAPTURE"] = cents["CAPTURE"] + t.event.amount
      /\ rows'["CAPTURE"] = rows["CAPTURE"] + 1
      /\ \A type \in LedgerType \ {"CAPTURE"} :
           cents'[type] = cents[type] /\ rows'[type] = rows[type]
  BY DEF BookCapture, Journal
<1>5. UNCHANGED <<pi, emitted, outbox, wallet>> /\ inflight' \subseteq inflight
  BY DEF BookCapture, Commits, stripe
<1>6. QED
  BY <1>1, <1>2, <1>3, <1>4, <1>5

LEMMA BookCaptureParts ==
    ASSUME IInv, NEW t \in inflight, t.event.kind = "succeeded", BookCapture(t)
    PROVE  Parts'
<1>1. CaptureOK' /\ ReleaseOK' /\ RefundOK'
  BY BookCaptureEffect DEF IInv, TypeOK, CaptureOK, ReleaseOK, RefundOK
<1>2. StripeOK' /\ InflightOK'
  BY BookCaptureEffect DEF IInv, TypeOK, Tx, StripeOK, InflightOK
<1>3. QED
  BY <1>1, <1>2 DEF Parts

\* A release books its lines on an account that had none, and they add up.
LEMMA ReleaseEffect ==
    ASSUME IInv, NEW t \in inflight, t.event.kind = "succeeded", Release(t)
    PROVE  /\ pi.status = "succeeded" /\ pi.received = t.event.amount
           /\ t.event.amount \in Nat \ {0}
           /\ escrow.status = "HELD" /\ escrow.captured = 0
           /\ escrow' = [status |-> "RELEASED", captured |-> t.event.amount]
           /\ cents'["CAPTURE"] = t.event.amount /\ rows'["CAPTURE"] = 1
           /\ cents'["PAYOUT"] \in Nat /\ rows'["PAYOUT"] = 1
           /\ cents'["COMMISSION"] \in Nat /\ rows'["COMMISSION"] = 1
           /\ cents'["BUYER_WALLET_CREDIT"] \in Nat
           /\ cents["REFUND"] = 0 /\ cents'["REFUND"] = 0
           /\ cents'["PAYOUT"] + cents'["COMMISSION"] + cents'["BUYER_WALLET_CREDIT"]
                = t.event.amount
           /\ outbox' = {[amount |-> cents'["PAYOUT"]]}
           /\ wallet' = cents'["BUYER_WALLET_CREDIT"]
           /\ UNCHANGED <<pi, emitted>> /\ inflight' \subseteq inflight
<1> DEFINE amount == t.event.amount
           payout == Payout(t)
           credit == Spendable(t) - Payout(t)
<1>1. /\ t.event \in emitted /\ amount \in Nat \ {0}
      /\ pi.status = "succeeded" /\ amount = pi.received
  BY DEF IInv, TypeOK, StripeOK, InflightOK, Release, Journalable, Event
<1>2. escrow.status = "HELD" /\ escrow.captured = 0
  BY DEF Release, Journalable
<1>3. payout \in Nat /\ credit \in Nat /\ payout + Commission + credit = amount
  <2>1. Spendable(t) \in Int
    BY <1>1, WebhookAssumption DEF Spendable
  <2>2. Spendable(t) >= 0
    BY <2>1 DEF Release, ReleaseRefused
  <2>3. payout \in Nat /\ credit \in Nat
    BY <2>2, PayoutBounded DEF IInv
  <2>4. QED
    BY <1>1, <2>1, <2>3, WebhookAssumption DEF Spendable
<1>4. /\ cents'["CAPTURE"] = amount /\ rows'["CAPTURE"] = 1
      /\ cents'["PAYOUT"] = payout /\ rows'["PAYOUT"] = 1
      /\ cents'["COMMISSION"] = Commission /\ rows'["COMMISSION"] = 1
      /\ cents'["BUYER_WALLET_CREDIT"] = credit
      /\ cents'["REFUND"] = 0
  <2>1. /\ cents["CAPTURE"] = 0 /\ cents["PAYOUT"] = 0 /\ cents["COMMISSION"] = 0
        /\ cents["BUYER_WALLET_CREDIT"] = 0 /\ cents["REFUND"] = 0
        /\ rows["CAPTURE"] = 0 /\ rows["PAYOUT"] = 0 /\ rows["COMMISSION"] = 0
    BY <1>2 DEF IInv, CaptureOK, ReleaseOK, RefundOK
  <2>2. CASE credit > 0
    <3>1. Journal([CAPTURE |-> amount, PAYOUT |-> payout,
                   COMMISSION |-> Commission, BUYER_WALLET_CREDIT |-> credit])
      BY <2>2 DEF Release
    <3> HIDE DEF amount, payout, credit
    <3>2. QED
      BY <1>1, <1>3, <2>1, <3>1, WebhookAssumption DEF Journal
  <2>3. CASE credit = 0
    <3>1. Journal([CAPTURE |-> amount, PAYOUT |-> payout, COMMISSION |-> Commission])
      BY <2>3 DEF Release
    <3> HIDE DEF amount, payout, credit
    <3>2. QED
      BY <1>1, <1>3, <2>1, <2>3, <3>1, WebhookAssumption DEF Journal
  <2>4. QED
    BY <1>3, <2>2, <2>3
<1>5. /\ escrow' = [status |-> "RELEASED", captured |-> amount]
      /\ outbox' = {[amount |-> payout]} /\ wallet' = credit
      /\ UNCHANGED <<pi, emitted>> /\ inflight' \subseteq inflight
  BY <1>2, <1>3 DEF Release, Commits, stripe, IInv, ReleaseOK
<1>6. cents["REFUND"] = 0
  BY <1>2 DEF IInv, RefundOK
<1> HIDE DEF payout, credit
<1>7. QED
  BY <1>1, <1>2, <1>3, <1>4, <1>5, <1>6, WebhookAssumption

LEMMA ReleaseParts ==
    ASSUME IInv, NEW t \in inflight, t.event.kind = "succeeded", Release(t)
    PROVE  Parts'
<1>1. CaptureOK' /\ ReleaseOK' /\ RefundOK'
  BY ReleaseEffect DEF CaptureOK, ReleaseOK, RefundOK
<1>2. StripeOK' /\ InflightOK'
  BY ReleaseEffect DEF IInv, TypeOK, Tx, StripeOK, InflightOK
<1>3. QED
  BY <1>1, <1>2 DEF Parts

\* A failure cancels an account that was never captured, and no other.
LEMMA FailureParts ==
    ASSUME IInv, NEW t \in inflight, HandleFailure(t)
    PROVE  Parts'
<1>1. CASE Acquit(t) \/ Rollback(t)
  BY <1>1, NoEffectParts
<1>2. CASE ~(Acquit(t) \/ Rollback(t))
  <2>1. escrow = [status |-> "HELD", captured |-> 0] /\ UNCHANGED <<stripe, books>>
    BY <1>2 DEF HandleFailure, Cancellable
  <2>2. escrow'.status = "CANCELLED" /\ escrow'.captured = 0
    BY <1>2, <2>1 DEF HandleFailure
  <2>3. inflight' \subseteq inflight
    BY <1>2 DEF HandleFailure, Commits
  <2>4. QED
    BY <2>1, <2>2, <2>3 DEF IInv, Parts, StripeOK, CaptureOK, ReleaseOK, RefundOK,
                            InflightOK, stripe, books
<1>3. QED
  BY <1>1, <1>2

\* A refund brings the booked total up to the event's, within the capture.
LEMMA BookRefundEffect ==
    ASSUME IInv, NEW t \in inflight, BookRefund(t)
    PROVE  /\ t.event.amount \in Nat /\ escrow.captured > 0
           /\ cents["REFUND"] < t.event.amount /\ t.event.amount <= escrow.captured
           /\ escrow.status \in {"HELD", "PARTIALLY_REFUNDED"}
           /\ escrow'.captured = escrow.captured
           /\ escrow'.status = IF t.event.amount = escrow.captured
                               THEN "REFUNDED" ELSE "PARTIALLY_REFUNDED"
           /\ cents'["REFUND"] = t.event.amount
           /\ \A type \in LedgerType \ {"REFUND"} :
                cents'[type] = cents[type] /\ rows'[type] = rows[type]
           /\ UNCHANGED <<pi, emitted, outbox, wallet>> /\ inflight' \subseteq inflight
<1>1. t \in Tx /\ t.event.amount \in Nat
  BY DEF IInv, TypeOK, Tx, Event
<1>2. /\ t.captured > 0 /\ t.captured = escrow.captured
      /\ cents["REFUND"] < t.event.amount /\ t.event.amount <= escrow.captured
  BY <1>1 DEF IInv, InflightOK, BookRefund, Booked, BeforeCapture, Tx
<1>3. escrow.status \in {"HELD", "PARTIALLY_REFUNDED"}
  BY DEF BookRefund, Refundable
<1>4. /\ escrow'.captured = escrow.captured
      /\ escrow'.status = IF t.event.amount = escrow.captured
                          THEN "REFUNDED" ELSE "PARTIALLY_REFUNDED"
  BY <1>1, <1>2 DEF BookRefund, FullRefund, IInv, TypeOK
<1>5. /\ cents'["REFUND"] = t.event.amount
      /\ \A type \in LedgerType \ {"REFUND"} :
           cents'[type] = cents[type] /\ rows'[type] = rows[type]
  <2>1. Journal([REFUND |-> t.event.amount - cents["REFUND"]])
    BY DEF BookRefund, RefundDelta
  <2>2. cents["REFUND"] \in Nat
    BY DEF IInv, TypeOK
  <2>3. QED
    BY <1>1, <2>1, <2>2 DEF Journal
<1>6. UNCHANGED <<pi, emitted, outbox, wallet>> /\ inflight' \subseteq inflight
  BY DEF BookRefund, Commits, stripe
<1>7. QED
  BY <1>1, <1>2, <1>3, <1>4, <1>5, <1>6

LEMMA BookRefundParts ==
    ASSUME IInv, NEW t \in inflight, BookRefund(t)
    PROVE  Parts'
<1>1. CaptureOK' /\ ReleaseOK' /\ RefundOK'
  BY BookRefundEffect DEF IInv, TypeOK, CaptureOK, ReleaseOK, RefundOK
<1>2. StripeOK' /\ InflightOK'
  BY BookRefundEffect DEF IInv, StripeOK, InflightOK
<1>3. QED
  BY <1>1, <1>2 DEF Parts

LEMMA HandleParts == ASSUME IInv, NEW t \in inflight, Handle(t) PROVE Parts'
<1>1. CASE Acquit(t) \/ Rollback(t)
  BY <1>1, NoEffectParts
<1>2. CASE HandleCapture(t) /\ (BookCapture(t) \/ Release(t))
  BY <1>2, BookCaptureParts, ReleaseParts DEF HandleCapture
<1>3. CASE HandleFailure(t)
  BY <1>3, FailureParts
<1>4. CASE BookRefund(t)
  BY <1>4, BookRefundParts
<1>5. QED
  BY <1>1, <1>2, <1>3, <1>4 DEF Handle, HandleCapture, HandleRefund, AcquitCapture,
     ConflictingCapture, RefusedRelease, RefusedRefund

LEMMA StepIInv == IInv /\ [Next]_vars => IInv'
<1> SUFFICES ASSUME IInv, [Next]_vars PROVE IInv'
  OBVIOUS
<1>1. TypeOK'
  BY StepTypeOK DEF IInv
<1>2. Parts'
  <2>1. CASE Stripe
    BY <2>1, StripeParts
  <2>2. CASE Program
    BY <2>2, ProgramParts
  <2>3. ASSUME NEW e \in emitted, Begin(e) PROVE Parts'
    BY <2>3, BeginParts
  <2>4. ASSUME NEW t \in inflight, Handle(t) PROVE Parts'
    BY <2>4, HandleParts
  <2>5. ASSUME NEW t \in inflight, Crash(t) PROVE Parts'
    BY <2>5, NoEffectParts DEF Crash
  <2>6. CASE UNCHANGED vars
    BY <2>6 DEF vars, stripe, books, IInv, Parts, StripeOK, CaptureOK, ReleaseOK,
                RefundOK, InflightOK
  <2>7. QED
    BY <2>1, <2>2, <2>3, <2>4, <2>5, <2>6 DEF Next
<1>3. QED
  BY <1>1, <1>2 DEF IInv, Parts

LEMMA InductiveInvariant == Spec => []IInv
BY InitIInv, StepIInv, PTL DEF Spec

-----------------------------------------------------------------------------
(* The properties.                                                         *)

\* The books balance in every reachable state: invariants A, B and C of the
\* daily reconciliation hold whatever order the events are handled in.
THEOREM LedgerAlwaysBalanced == Spec => []LedgerBalanced
<1>1. IInv => LedgerBalanced
  BY DEF IInv, TypeOK, CaptureOK, ReleaseOK, RefundOK, LedgerBalanced, Outflow
<1>2. QED
  BY <1>1, InductiveInvariant, PTL

\* A release owes the traveler one transfer, and a refunded account none.
THEOREM ReleaseAlwaysPaysOnce == Spec => []ReleasePaysOnce
<1>1. IInv => ReleasePaysOnce
  BY DEF IInv, ReleaseOK, RefundOK, ReleasePaysOnce
<1>2. QED
  BY <1>1, InductiveInvariant, PTL

\* The escrow says captured only of money Stripe took, for that amount.
THEOREM CaptureAlwaysReal == Spec => []CaptureIsReal
<1>1. IInv => CaptureIsReal
  BY DEF IInv, CaptureOK, RefundOK, CaptureIsReal
<1>2. QED
  BY <1>1, InductiveInvariant, PTL

Final == {"RELEASED", "REFUNDED", "CANCELLED"}

\* No step of a route, of a worker or of the webhook touches a final escrow.
LEMMA FinalStep ==
    ASSUME [Next]_vars, escrow.status \in Final
    PROVE  escrow' = escrow
<1> USE DEF Final
<1>1. CASE Stripe
  BY <1>1 DEF Stripe, PaymentAttemptFails, PaymentAuthorized, Capture, CancelHold, RefundCharge
<1>2. CASE Program
  <2>1. ~WorkerCancelsEscrow /\ ~FundingRollback
    BY DEF WorkerCancelsEscrow, FundingRollback
  <2>2. QED
    BY <1>2, <2>1 DEF Program, RouteStep, AccountChanges, CustomsTimeout
<1>3. ASSUME NEW e \in emitted, Begin(e) PROVE escrow' = escrow
  BY <1>3 DEF Begin
<1>4. ASSUME NEW t \in inflight, Handle(t) PROVE escrow' = escrow
  <2>1. CASE HandleCapture(t)
    BY <2>1 DEF HandleCapture, AcquitCapture, ConflictingCapture, BookCapture, Release,
                RefusedRelease, Journalable, Acquit, Rollback
  <2>2. CASE HandleFailure(t)
    BY <2>2 DEF HandleFailure, Cancellable, Acquit, Rollback
  <2>3. CASE HandleRefund(t)
    BY <2>3 DEF HandleRefund, BookRefund, RefusedRefund, Refundable, Acquit, Rollback
  <2>4. QED
    BY <1>4, <2>1, <2>2, <2>3 DEF Handle
<1>5. ASSUME NEW t \in inflight, Crash(t) PROVE escrow' = escrow
  BY <1>5 DEF Crash, Rollback
<1>6. CASE UNCHANGED vars
  BY <1>6 DEF vars
<1>7. QED
  BY <1>1, <1>2, <1>3, <1>4, <1>5, <1>6 DEF Next

\* No step of a route, of a worker or of the webhook changes an escrow that is
\* released, refunded or cancelled.
THEOREM TerminalEscrowNeverChanges == Spec => TerminalEscrowImmutable
<1>1. [Next]_vars => (escrow.status \in {"RELEASED", "REFUNDED", "CANCELLED"} => escrow' = escrow)
  BY FinalStep DEF Final
<1>2. QED
  BY <1>1, PTL DEF Spec, TerminalEscrowImmutable

\* An acknowledged event that is no refund leaves the refunds as they were.
LEMMA OtherEventKeepsHighWater ==
    ASSUME RefundIsHighWater, NEW t \in inflight, t.event.kind # "refunded",
           Commits(t) \/ UNCHANGED processed, cents'["REFUND"] = cents["REFUND"]
    PROVE  RefundIsHighWater'
<1> DEFINE acked(P) == {e.amount : e \in {p \in P : p.kind = "refunded"}}
<1>1. acked(processed') = acked(processed)
  BY DEF Commits
<1>2. QED
  BY <1>1 DEF RefundIsHighWater

\* Neither Stripe nor a route nor a worker books a refund of more than nothing.
LEMMA OutsideKeepsRefunds ==
    ASSUME TypeOK, Stripe \/ Program
    PROVE  UNCHANGED processed /\ cents'["REFUND"] = cents["REFUND"]
<1>1. CASE Stripe
  BY <1>1 DEF Stripe, PaymentAttemptFails, PaymentAuthorized, Capture, CancelHold,
              RefundCharge, books
<1>2. CASE CustomsTimeout
  BY <1>2 DEF CustomsTimeout, Journal, TypeOK
<1>3. CASE RouteStep \/ AccountChanges
  BY <1>3 DEF RouteStep, AccountChanges, books
<1>4. CASE WorkerCancelsEscrow
  BY <1>4 DEF WorkerCancelsEscrow, books
<1>5. CASE FundingRollback
  BY <1>5 DEF FundingRollback, books
<1>6. QED
  BY <1>1, <1>2, <1>3, <1>4, <1>5 DEF Program

\* A delivery raises the refunds to the amount it acknowledges, or leaves them.
LEMMA HandleHighWater ==
    ASSUME IInv, RefundIsHighWater, NEW t \in inflight, Handle(t)
    PROVE  RefundIsHighWater'
<1> DEFINE acked(P) == {e.amount : e \in {p \in P : p.kind = "refunded"}}
<1>0. t.event.amount \in Nat /\ cents["REFUND"] \in Nat
  BY DEF IInv, TypeOK, Tx, Event
<1>1. CASE Rollback(t)
  BY <1>1 DEF Rollback, RefundIsHighWater, books
<1>2. CASE HandleCapture(t) /\ ~Rollback(t)
  <2>1. t.event.kind = "succeeded"
    BY <1>2 DEF HandleCapture
  <2>2. Commits(t) /\ cents'["REFUND"] = cents["REFUND"]
    <3>1. CASE AcquitCapture(t)
      BY <3>1 DEF AcquitCapture, Acquit, books
    <3>2. CASE BookCapture(t)
      BY <2>1, <3>2, BookCaptureEffect DEF BookCapture
    <3>3. CASE Release(t)
      BY <2>1, <3>3, ReleaseEffect DEF Release
    <3>4. QED
      BY <1>2, <3>1, <3>2, <3>3 DEF HandleCapture, ConflictingCapture, RefusedRelease
  <2>3. QED
    BY <2>1, <2>2, OtherEventKeepsHighWater
<1>3. CASE HandleFailure(t) /\ ~Rollback(t)
  BY <1>3, OtherEventKeepsHighWater DEF HandleFailure, Acquit, books
<1>4. CASE HandleRefund(t) /\ ~Rollback(t)
  <2>1. /\ t.event.kind = "refunded" /\ Commits(t)
        /\ cents'["REFUND"] = t.event.amount /\ t.event.amount >= cents["REFUND"]
    <3>1. CASE NothingNew(t) /\ Acquit(t)
      BY <1>0, <1>4, <3>1 DEF HandleRefund, NothingNew, Acquit, books
    <3>2. CASE BookRefund(t)
      BY <1>0, <1>4, <3>2, BookRefundEffect DEF HandleRefund, BookRefund
    <3>3. QED
      BY <1>4, <3>1, <3>2 DEF HandleRefund, RefusedRefund
  <2>2. acked(processed') = acked(processed) \cup {t.event.amount}
    BY <2>1 DEF Commits
  <2>3. \A a \in acked(processed) : a \in Nat
    BY DEF IInv, TypeOK, Event
  <2>4. \A a \in acked(processed) : a <= cents["REFUND"]
    BY DEF RefundIsHighWater
  <2> HIDE DEF acked
  <2>5. cents'["REFUND"] \in acked(processed') /\ \A a \in acked(processed') : a <= cents'["REFUND"]
    BY <1>0, <2>1, <2>2, <2>3, <2>4
  <2>6. QED
    BY <2>5 DEF RefundIsHighWater, acked
<1>5. QED
  BY <1>1, <1>2, <1>3, <1>4 DEF Handle

\* The refunds booked are the highest cumulative amount acknowledged, whatever
\* the order of the refund events and however their deliveries overlap.
THEOREM RefundsAreHighWater == Spec => []RefundIsHighWater
<1>1. Init => RefundIsHighWater
  BY DEF Init, RefundIsHighWater
<1>2. IInv /\ RefundIsHighWater /\ [Next]_vars => RefundIsHighWater'
  <2> SUFFICES ASSUME IInv, RefundIsHighWater, [Next]_vars PROVE RefundIsHighWater'
    OBVIOUS
  <2>1. CASE Stripe \/ Program
    BY <2>1, OutsideKeepsRefunds DEF IInv, RefundIsHighWater
  <2>2. ASSUME NEW e \in emitted, Begin(e) PROVE RefundIsHighWater'
    BY <2>2 DEF Begin, RefundIsHighWater, books
  <2>3. ASSUME NEW t \in inflight, Handle(t) PROVE RefundIsHighWater'
    BY <2>3, HandleHighWater
  <2>4. ASSUME NEW t \in inflight, Crash(t) PROVE RefundIsHighWater'
    BY <2>4 DEF Crash, Rollback, RefundIsHighWater, books
  <2>5. CASE UNCHANGED vars
    BY <2>5 DEF vars, RefundIsHighWater, books
  <2>. QED
    BY <2>1, <2>2, <2>3, <2>4, <2>5 DEF Next
<1>3. QED
  BY <1>1, <1>2, InductiveInvariant, PTL DEF Spec

-----------------------------------------------------------------------------
(* The webhook and the workers around it implement the account.            *)

\* A delivery books, releases, refunds or cancels the account, or leaves it.
LEMMA HandleRefines ==
    ASSUME IInv, NEW t \in inflight, Handle(t)
    PROVE  [Account!Next]_Account!account
<1> USE DEF Account!Next, Account!account
<1>1. CASE Acquit(t) \/ Rollback(t)
  BY <1>1 DEF Acquit, Rollback, books
<1>2. CASE HandleCapture(t) /\ BookCapture(t)
  <2>1. Account!Book
    BY <1>2, BookCaptureEffect DEF HandleCapture, Account!Book, Account!Uncaptured
  <2>2. QED
    BY <2>1
<1>3. CASE HandleCapture(t) /\ Release(t)
  <2>1. Account!BookAndRelease
    BY <1>3, ReleaseEffect DEF HandleCapture, Account!BookAndRelease, Account!Uncaptured
  <2>2. QED
    BY <2>1
<1>4. CASE HandleFailure(t) /\ ~(Acquit(t) \/ Rollback(t))
  <2>1. /\ escrow.status = "HELD" /\ escrow.captured = 0 /\ UNCHANGED books
        /\ escrow' = [escrow EXCEPT !.status = "CANCELLED"]
    BY <1>4 DEF HandleFailure, Cancellable
  <2>2. escrow'.status = "CANCELLED" /\ escrow'.captured = escrow.captured
    BY <2>1
  <2>3. Account!Cancel
    BY <2>1, <2>2 DEF Account!Cancel, Account!Uncaptured, books
  <2>4. QED
    BY <2>3
<1>5. CASE BookRefund(t)
  <2>1. Account!Refund
    BY <1>5, BookRefundEffect DEF Account!Refund
  <2>2. QED
    BY <2>1
<1>6. QED
  BY <1>1, <1>2, <1>3, <1>4, <1>5 DEF Handle, HandleCapture, HandleRefund, AcquitCapture,
     ConflictingCapture, RefusedRelease, RefusedRefund

\* Stripe, the routes and the workers may only cancel an uncaptured account.
LEMMA OutsideRefines ==
    ASSUME IInv, Stripe \/ Program
    PROVE  [Account!Next]_Account!account
<1> USE DEF Account!Next, Account!account
<1>1. CASE Stripe
  BY <1>1 DEF Stripe, PaymentAttemptFails, PaymentAuthorized, Capture, CancelHold,
              RefundCharge, books
<1>2. CASE RouteStep \/ AccountChanges
  BY <1>2 DEF RouteStep, AccountChanges, books
<1>3. CASE CustomsTimeout
  <2>1. cents' = cents /\ escrow' = escrow
    BY <1>3 DEF CustomsTimeout, Journal, IInv, TypeOK
  <2>2. QED
    BY <2>1
<1>4. CASE WorkerCancelsEscrow \/ FundingRollback
  <2>1. /\ escrow.status = "HELD" /\ escrow.captured = 0 /\ UNCHANGED books
        /\ escrow' = [escrow EXCEPT !.status = "CANCELLED"]
    BY <1>4 DEF WorkerCancelsEscrow, FundingRollback, IInv, TypeOK, CaptureOK
  <2>2. escrow'.status = "CANCELLED" /\ escrow'.captured = escrow.captured
    BY <2>1 DEF IInv, TypeOK
  <2>3. Account!Cancel
    BY <2>1, <2>2 DEF Account!Cancel, Account!Uncaptured, books
  <2>4. QED
    BY <2>3
<1>5. QED
  BY <1>1, <1>2, <1>3, <1>4 DEF Program

\* The detailed system implements EscrowLedger: every step of a delivery, a
\* route or a worker is a step of the account or leaves it as it is.
THEOREM WebhookImplementsLedger == Spec => AccountPromise
<1>1. Init => Account!Init
  BY DEF Init, Account!Init
<1>2. IInv /\ [Next]_vars => [Account!Next]_Account!account
  <2> SUFFICES ASSUME IInv, [Next]_vars PROVE [Account!Next]_Account!account
    OBVIOUS
  <2>1. CASE Stripe \/ Program
    BY <2>1, OutsideRefines
  <2>2. ASSUME NEW e \in emitted, Begin(e) PROVE [Account!Next]_Account!account
    BY <2>2 DEF Begin, books, Account!account
  <2>3. ASSUME NEW t \in inflight, Handle(t) PROVE [Account!Next]_Account!account
    BY <2>3, HandleRefines
  <2>4. ASSUME NEW t \in inflight, Crash(t) PROVE [Account!Next]_Account!account
    BY <2>4 DEF Crash, Rollback, books, Account!account
  <2>5. CASE UNCHANGED vars
    BY <2>5 DEF vars, books, Account!account
  <2>. QED
    BY <2>1, <2>2, <2>3, <2>4, <2>5 DEF Next
<1>3. QED
  BY <1>1, <1>2, InductiveInvariant, PTL DEF Spec, AccountPromise, Account!Spec

-----------------------------------------------------------------------------
(* The reconciliation beside the webhook.  What it has read is old when it  *)
(* compares it; what matters is what the books may have become since.       *)

\* The pass moves no book: everything proved of the webhook holds beside it.
THEOREM ReconKeepsTheBooks == ReconSpec => Spec
<1>1. ReconInit => Init
  BY DEF ReconInit
<1>2. [ReconNext]_reconVars => [Next]_vars
  BY DEF ReconNext, PassStep, ReadEscrows, ReadLedger, ReadPayouts, ReadOutbox, AskStripe,
         EndPass, DropPass, SettleTransfer, WindowPasses, reconVars
<1>3. QED
  BY <1>1, <1>2, PTL DEF ReconSpec, Spec

\* What a step of the webhook cannot take back: a booked capture, a final
\* status, an ordered transfer, the money Stripe received.
LEMMA BooksOnlyGrow ==
    ASSUME IInv, [Next]_vars
    PROVE  /\ IInv'
           /\ escrow.captured > 0 => escrow'.captured = escrow.captured
           /\ escrow.status \in Final => escrow' = escrow
           /\ outbox # {} => outbox' # {}
<1>1. IInv'
  BY StepIInv
<1>2. escrow.status \in Final => escrow' = escrow
  BY FinalStep
<1>3. escrow.captured > 0 => escrow'.captured = escrow.captured
  <2> SUFFICES ASSUME escrow.captured > 0 PROVE escrow'.captured = escrow.captured
    OBVIOUS
  <2>1. CASE Stripe
    BY <2>1 DEF Stripe, PaymentAttemptFails, PaymentAuthorized, Capture, CancelHold, RefundCharge
  <2>2. CASE Program
    BY <2>2 DEF Program, RouteStep, AccountChanges, CustomsTimeout, WorkerCancelsEscrow,
                FundingRollback, IInv, TypeOK
  <2>3. ASSUME NEW e \in emitted, Begin(e) PROVE escrow'.captured = escrow.captured
    BY <2>3 DEF Begin
  <2>4. ASSUME NEW t \in inflight, Handle(t) PROVE escrow'.captured = escrow.captured
    <3>1. CASE Acquit(t) \/ Rollback(t)
      BY <3>1 DEF Acquit, Rollback
    <3>2. ~BookCapture(t) /\ ~Release(t)
      BY DEF BookCapture, Release, Journalable
    <3>3. CASE HandleFailure(t)
      BY <3>1, <3>3 DEF HandleFailure, Cancellable
    <3>4. CASE BookRefund(t)
      BY <3>4, BookRefundEffect
    <3>5. QED
      BY <2>4, <3>1, <3>2, <3>3, <3>4 DEF Handle, HandleCapture, HandleRefund, AcquitCapture,
         ConflictingCapture, RefusedRelease, RefusedRefund
  <2>5. ASSUME NEW t \in inflight, Crash(t) PROVE escrow'.captured = escrow.captured
    BY <2>5 DEF Crash, Rollback
  <2>6. CASE UNCHANGED vars
    BY <2>6 DEF vars
  <2>7. QED
    BY <2>1, <2>2, <2>3, <2>4, <2>5, <2>6 DEF Next
<1>4. outbox # {} => outbox' # {}
  BY <1>1, <1>2 DEF IInv, ReleaseOK, Final
<1>5. QED
  BY <1>1, <1>2, <1>3, <1>4

\* What the pass has read of the escrow, the ledger and the payouts, against
\* the books of now: a final row is still that row, a booked capture is booked
\* still, a payout line has its release.
WhatWasRead ==
    /\ pass.step = "ledger" /\ pass.escrow.status \in Final => escrow = pass.escrow
    /\ pass.step \in {"payouts", "outbox", "stripe"} =>
         /\ pass.booked \in Nat
         /\ pass.booked > 0 => escrow.captured = pass.booked
         /\ pass.status = "RELEASED" => escrow.status = "RELEASED"
    /\ pass.step = "outbox" /\ pass.claimed => outbox # {}

\* What the pass has reported, and may still report.
WhatWasRaised ==
    /\ raised \cap {"OVERDRAWN", "UNBALANCED"} = {}
    /\ "PAYOUT_NOT_SETTLED" \in raised => outbox # {}
    /\ "LEDGER_CAPTURE_NOT_CONFIRMED" \in raised =>
         \/ pass.step = "idle"
         \/ pass.step = "done" /\ pass.answer = "lost"
    /\ UnbookedIsReported

ReconInv == ReconTypeOK /\ IInv /\ WhatWasRead /\ WhatWasRaised

\* A webhook step, of the rows the pass reads, changes nothing it relies on.
LEMMA NextKeepsRecon ==
    ASSUME ReconInv, Next, UNCHANGED cron
    PROVE  ReconInv'
<1>1. /\ IInv'
      /\ escrow.captured > 0 => escrow'.captured = escrow.captured
      /\ escrow.status \in Final => escrow' = escrow
      /\ outbox # {} => outbox' # {}
  BY BooksOnlyGrow DEF ReconInv
<1>2. UNCHANGED <<settled, recent, pass, raised>>
  BY DEF cron
<1>3. ReconTypeOK'
  BY <1>1, <1>2 DEF ReconInv, ReconTypeOK, IInv
<1>4. escrow.captured \in Nat /\ escrow'.captured \in Nat
  BY <1>1 DEF ReconInv, IInv, TypeOK
<1>5. WhatWasRead'
  <2>1. pass'.step = "ledger" /\ pass'.escrow.status \in Final => escrow' = pass'.escrow
    BY <1>1, <1>2 DEF ReconInv, WhatWasRead
  <2>2. pass'.step \in {"payouts", "outbox", "stripe"} =>
          /\ pass'.booked \in Nat
          /\ pass'.booked > 0 => escrow'.captured = pass'.booked
          /\ pass'.status = "RELEASED" => escrow'.status = "RELEASED"
    BY <1>1, <1>2, <1>4 DEF ReconInv, WhatWasRead, Final
  <2>3. pass'.step = "outbox" /\ pass'.claimed => outbox' # {}
    BY <1>1, <1>2 DEF ReconInv, WhatWasRead
  <2>4. QED
    BY <2>1, <2>2, <2>3 DEF WhatWasRead
<1>6. WhatWasRaised'
  BY <1>1, <1>2, <1>4 DEF ReconInv, WhatWasRaised, UnbookedIsReported
<1>7. QED
  BY <1>1, <1>3, <1>5, <1>6 DEF ReconInv

\* The three invariants the ledger is confronted with hold of what was read:
\* only the sum of the captures may differ, when one was booked in between.
LEMMA LedgerReadIsSound ==
    ASSUME ReconInv, pass.step = "ledger"
    PROVE  Broken(pass.escrow, cents) \subseteq {"CAPTURE_SUM"}
<1>1. OutflowOf(cents) <= cents["CAPTURE"]
  BY SMTT(30) DEF ReconInv, IInv, TypeOK, CaptureOK, ReleaseOK, RefundOK, OutflowOf
<1>2. pass.escrow.status \in {"RELEASED", "REFUNDED"} => OutflowOf(cents) = cents["CAPTURE"]
  <2> SUFFICES ASSUME pass.escrow.status \in {"RELEASED", "REFUNDED"}
               PROVE  OutflowOf(cents) = cents["CAPTURE"]
    OBVIOUS
  <2>1. escrow = pass.escrow
    BY DEF ReconInv, WhatWasRead, Final
  <2>2. QED
    BY <2>1 DEF ReconInv, IInv, TypeOK, CaptureOK, ReleaseOK, RefundOK, OutflowOf
<1>3. OutflowOf(cents) \in Int /\ cents["CAPTURE"] \in Int
  BY DEF ReconInv, IInv, TypeOK, OutflowOf
<1>4. QED
  BY <1>1, <1>2, <1>3 DEF Broken

\* A pass step reads the books of now, or draws a conclusion from older ones.
LEMMA PassKeepsRecon ==
    ASSUME ReconInv, PassStep \/ AskStripe("lost")
    PROVE  ReconInv'
<1>0. UNCHANGED vars /\ UNCHANGED <<settled, recent>>
  BY DEF PassStep, ReadEscrows, ReadLedger, ReadPayouts, ReadOutbox, AskStripe, EndPass
<1>1. IInv' /\ TypeOK' /\ UNCHANGED <<pi, escrow, cents, rows, outbox>>
  <2>1. TypeOK'
    BY <1>0 DEF vars, stripe, books, ReconInv, IInv, TypeOK
  <2>2. Parts'
    BY <1>0 DEF vars, stripe, books, ReconInv, IInv, Parts, StripeOK, CaptureOK, ReleaseOK,
                RefundOK, InflightOK
  <2>3. QED
    BY <1>0, <2>1, <2>2 DEF vars, stripe, books, IInv, Parts
<1>2. escrow.captured \in Nat /\ pi.received \in Nat
  BY DEF ReconInv, IInv, TypeOK
<1>3. ReconTypeOK'
  <2>1. pass'.step \in {"idle", "ledger", "payouts", "outbox", "stripe", "done"}
    BY DEF PassStep, ReadEscrows, ReadLedger, ReadPayouts, ReadOutbox, AskStripe, EndPass, NoPass
  <2>2. raised' \subseteq Alert
    <3>1. raised \subseteq Alert
      BY DEF ReconInv, ReconTypeOK
    <3>2. CASE ReadLedger
      BY <3>2, LedgerReadIsSound DEF ReadLedger, Alert
    <3>3. CASE ~ReadLedger
      BY <3>1, <3>3 DEF PassStep, ReadEscrows, ReadPayouts, ReadOutbox, AskStripe, EndPass, Alert
    <3>4. QED
      BY <3>2, <3>3
  <2>3. QED
    BY <1>0, <1>1, <2>1, <2>2 DEF ReconInv, ReconTypeOK
<1> USE DEF ReconInv, WhatWasRead, WhatWasRaised, UnbookedIsReported
<1>4. CASE ReadEscrows
  BY <1>0, <1>1, <1>2, <1>3, <1>4 DEF ReadEscrows
<1>5. CASE ReadLedger
  <2>1. raised' \subseteq {"CAPTURE_SUM"}
    BY <1>5, LedgerReadIsSound DEF ReadLedger
  <2>2. pass'.booked = escrow.captured /\ pass'.step = "payouts"
    BY <1>5 DEF ReadLedger, IInv, CaptureOK
  <2>3. pass'.status = "RELEASED" => escrow.status = "RELEASED"
    BY <1>5 DEF ReadLedger, Final
  <2>4. WhatWasRead'
    BY <1>1, <1>2, <2>2, <2>3
  <2>5. WhatWasRaised'
    <3>1. /\ raised' \cap {"OVERDRAWN", "UNBALANCED"} = {}
          /\ "PAYOUT_NOT_SETTLED" \notin raised'
          /\ "LEDGER_CAPTURE_NOT_CONFIRMED" \notin raised'
      BY <2>1
    <3>2. QED
      BY <2>2, <3>1
  <2>6. QED
    BY <1>1, <1>3, <2>4, <2>5
<1>6. CASE ReadPayouts
  <2>1. rows["PAYOUT"] > 0 => outbox # {}
    <3>1. rows["PAYOUT"] > 0 => escrow.status = "RELEASED"
      BY DEF IInv, ReleaseOK
    <3>2. escrow.status = "RELEASED" => [amount |-> cents["PAYOUT"]] \in outbox
      BY DEF IInv, ReleaseOK
    <3>3. QED
      BY <3>1, <3>2
  <2>2. QED
    BY <1>0, <1>1, <1>2, <1>3, <1>6, <2>1 DEF ReadPayouts
<1>7. CASE ReadOutbox
  BY <1>0, <1>1, <1>2, <1>3, <1>7 DEF ReadOutbox
<1>8. CASE AskStripe(StripeAnswers) \/ AskStripe("lost")
  <2>1. PICK answer \in {StripeAnswers, "lost"} : AskStripe(answer)
    BY <1>8
  <2>2. pass.step = "stripe" /\ pass'.step = "done" /\ pass'.answer = answer
    BY <2>1 DEF AskStripe
  <2>3. pass.booked > 0 => pi.received > 0
    BY <2>2 DEF IInv, CaptureOK
  <2>4. "LEDGER_CAPTURE_NOT_CONFIRMED" \in raised' => answer = "lost"
    BY <2>1, <2>2, <2>3 DEF AskStripe, Unconfirmed, StripeAnswers
  <2>5. pass.status = "RELEASED" => escrow.captured > 0
    BY <2>2 DEF IInv, ReleaseOK
  <2>6. answer = "captured" /\ recent /\ escrow.captured = 0 => "CAPTURE_WITHOUT_LEDGER" \in raised'
    BY <2>1, <2>2, <2>5 DEF AskStripe, Unbooked
  <2>7. raised' \subseteq raised \cup {"CAPTURE_WITHOUT_LEDGER", "LEDGER_CAPTURE_NOT_CONFIRMED"}
    BY <2>1 DEF AskStripe
  <2>8. QED
    BY <1>0, <1>1, <1>3, <2>2, <2>4, <2>6, <2>7
<1>9. CASE EndPass
  BY <1>0, <1>1, <1>2, <1>3, <1>9 DEF EndPass, NoPass
<1>10. QED
  BY <1>4, <1>5, <1>6, <1>7, <1>8, <1>9 DEF PassStep

LEMMA ReconStep == ReconInv /\ [ReconNext]_reconVars => ReconInv'
<1> SUFFICES ASSUME ReconInv, [ReconNext]_reconVars PROVE ReconInv'
  OBVIOUS
<1>1. CASE Next /\ UNCHANGED cron
  BY <1>1, NextKeepsRecon
<1>2. CASE PassStep \/ AskStripe("lost")
  BY <1>2, PassKeepsRecon
<1>3. CASE SettleTransfer \/ WindowPasses \/ DropPass \/ UNCHANGED reconVars
  <2>1. UNCHANGED vars
    BY <1>3 DEF SettleTransfer, WindowPasses, DropPass, reconVars
  <2>2. TypeOK'
    BY <2>1 DEF vars, stripe, books, ReconInv, IInv, TypeOK
  <2>3. Parts'
    BY <2>1 DEF vars, stripe, books, ReconInv, IInv, Parts, StripeOK, CaptureOK, ReleaseOK,
                RefundOK, InflightOK
  <2>4. IInv' /\ UNCHANGED <<pi, escrow, cents, rows, outbox>>
    BY <2>1, <2>2, <2>3 DEF IInv, Parts, vars, stripe, books
  <2>5. CASE SettleTransfer
    BY <2>2, <2>4, <2>5 DEF SettleTransfer, ReconInv, ReconTypeOK, WhatWasRead, WhatWasRaised,
                       UnbookedIsReported
  <2>6. CASE WindowPasses
    BY <2>2, <2>4, <2>6 DEF WindowPasses, ReconInv, ReconTypeOK, WhatWasRead, WhatWasRaised,
                       UnbookedIsReported
  <2>7. CASE DropPass
    BY <2>2, <2>4, <2>7 DEF DropPass, NoPass, ReconInv, ReconTypeOK, WhatWasRead, WhatWasRaised,
                       UnbookedIsReported
  <2>8. CASE UNCHANGED reconVars
    BY <2>2, <2>4, <2>8 DEF reconVars, cron, ReconInv, ReconTypeOK, WhatWasRead, WhatWasRaised,
                       UnbookedIsReported
  <2>9. QED
    BY <1>3, <2>5, <2>6, <2>7, <2>8
<1>4. QED
  BY <1>1, <1>2, <1>3 DEF ReconNext

LEMMA ReconInvariant == ReconSpec => []ReconInv
<1>1. ReconInit => ReconInv
  <2> SUFFICES ASSUME ReconInit PROVE ReconInv
    OBVIOUS
  <2>1. IInv
    BY InitIInv DEF ReconInit
  <2>2. QED
    BY <2>1 DEF ReconInit, NoPass, ReconInv, IInv, ReconTypeOK, WhatWasRead, WhatWasRaised,
               UnbookedIsReported
<1>2. QED
  BY <1>1, ReconStep, PTL DEF ReconSpec

\* The state of the pass always has the shape the cron gives it.
THEOREM ReconTypeCorrect == ReconSpec => []ReconTypeOK
<1>1. ReconInv => ReconTypeOK
  BY DEF ReconInv
<1>2. QED
  BY <1>1, ReconInvariant, PTL

\* Whatever deliveries commit between its reads, a pass accuses no account
\* wrongly, and no capture missing from the ledger escapes it.
THEOREM AlarmsAreAlwaysRight == ReconSpec => []AlarmsAreRight
<1>1. ReconInv => AlarmsAreRight
  BY DEF ReconInv, WhatWasRaised, AlarmsAreRight, AlarmIsReal
<1>2. QED
  BY <1>1, ReconInvariant, PTL
=============================================================================
