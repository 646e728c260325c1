---------------------------- MODULE FraudPenalty ----------------------------
(***************************************************************************)
(* What follows the arbitration of a fraud: one row asks for the penalty of  *)
(* the traveler, and the hold of the buyer is released once it is paid.      *)
(* Passes of the penalty worker claim the row, debit the traveler's card,    *)
(* cancel the buyer's hold, both at Stripe and outside any transaction, and  *)
(* close escrow and row in one.  Meanwhile a capture or a refund of the      *)
(* same hold that was under way when the fraud was decided may still land.   *)
(* A failed payment reported after all this time is left to EscrowWebhook.   *)
(***************************************************************************)
EXTENDS Naturals, FiniteSets

CONSTANTS
    Worker,       \* the passes that may be under way at the same time
    MaxAttempts,  \* the failures after which the penalty is abandoned
    Overlap       \* a worker taken for dead may be merely slow

ASSUME PenaltyAssumption == MaxAttempts \in Nat \ {0} /\ Overlap \in BOOLEAN

VARIABLES
    row,      \* PenaltyDebitOutbox of the mission: [status, attempts]
    due,      \* its updatedAt is old enough for it to be claimed again
    claim,    \* what each pass holds: attempts, and if the escrow was open then
    debits,   \* Stripe: the idempotency keys under which the card was debited
    hold,     \* Stripe: what became of the buyer's hold; released by the penalty
    escrow    \* status of the EscrowTransaction

vars == <<row, due, claim, debits, hold, escrow>>

PenaltyStatus == {"PENDING", "SUBMITTED", "SETTLED", "FAILED", "ABANDONED"}

Final == {"SETTLED", "ABANDONED"}

Idle == [step |-> "idle"]

Init ==
    /\ row = [status |-> "PENDING", attempts |-> 0]
    /\ due = FALSE
    /\ claim = [w \in Worker |-> Idle]
    /\ debits = {}
    /\ hold \in {"authorized", "captured", "canceled"}
    /\ escrow = "HELD"

\* The backoff of a failure, or the quarter of an hour after which a worker is
\* taken for dead, has run out.
TimePasses ==
    /\ row.status \in {"SUBMITTED", "FAILED"}
    /\ row.status = "SUBMITTED" /\ ~Overlap => \A w \in Worker : claim[w] = Idle
    /\ due' = TRUE
    /\ UNCHANGED <<row, claim, debits, hold, escrow>>

\* Mutant: a row whose worker died is not taken up again.
ClaimableAlive ==
    \/ row.status = "PENDING"
    \/ row.status = "FAILED" /\ row.attempts < MaxAttempts /\ due

Claimable ==
    \/ row.status = "PENDING"
    \/ row.status = "FAILED" /\ row.attempts < MaxAttempts /\ due
    \/ row.status = "SUBMITTED" /\ due

ClaimNext(w) ==
    /\ claim[w] = Idle
    /\ Claimable
    /\ row' = [row EXCEPT !.status = "SUBMITTED"]
    /\ due' = FALSE
    /\ claim' = [claim EXCEPT ![w] =
                   [step |-> "claimed", attempts |-> row.attempts, held |-> escrow = "HELD"]]
    /\ UNCHANGED <<debits, hold, escrow>>

Goto(w, step) == claim' = [claim EXCEPT ![w].step = step]

\* Mutant: the key is computed again at each attempt.
KeyOfAttempt(w) == claim[w].attempts

\* penalty_debit_<id> for every attempt.
Key(w) == 0

\* Mutant: the status of the answer is not looked at.
ChargeUnchecked(w) ==
    /\ claim[w].step = "claimed"
    /\ debits' \in {debits, debits \cup {Key(w)}}
    /\ Goto(w, "charged") \/ Goto(w, "failed")
    /\ UNCHANGED <<row, due, hold, escrow>>

\* The card is debited, or it already was under this key; or there is no card,
\* it is refused, it asks for the traveler, or the answer is lost.
Charge(w) ==
    /\ claim[w].step = "claimed"
    /\ \/ debits' = debits \cup {Key(w)} /\ Goto(w, "charged")
       \/ debits' \in {debits, debits \cup {Key(w)}} /\ Goto(w, "failed")
    /\ UNCHANGED <<row, due, hold, escrow>>

Cancelled == IF hold = "authorized" THEN "released" ELSE hold

\* Stripe cancels an authorized hold, says so again to the same key, and refuses
\* a hold that was captured or cancelled otherwise; an answer may be lost.  No
\* call is made when the escrow was found closed at the claim.
Release(w) ==
    /\ claim[w].step = "charged"
    /\ \/ /\ claim[w].held => Cancelled = "released"
          /\ hold' = IF claim[w].held THEN "released" ELSE hold
          /\ Goto(w, "released")
       \/ /\ claim[w].held
          /\ hold' \in {hold, Cancelled}
          /\ Goto(w, "failed")
    /\ UNCHANGED <<row, due, debits, escrow>>

\* One transaction closes the escrow, if it is still open, and the row.
Settle(w) ==
    /\ claim[w].step = "released"
    /\ escrow' = IF escrow = "HELD" THEN "CANCELLED" ELSE escrow
    /\ row' = [row EXCEPT !.status = "SETTLED"]
    /\ due' = FALSE
    /\ claim' = [claim EXCEPT ![w] = Idle]
    /\ UNCHANGED <<debits, hold>>

\* The one catch of the pass, for Stripe's errors and for the transaction's.
Fail(w) ==
    /\ claim[w].step \in {"failed", "released"}
    /\ row' = [status |-> IF claim[w].attempts + 1 >= MaxAttempts THEN "ABANDONED" ELSE "FAILED",
               attempts |-> row.attempts + 1]
    /\ due' = FALSE
    /\ claim' = [claim EXCEPT ![w] = Idle]
    /\ UNCHANGED <<debits, hold, escrow>>

Crash(w) ==
    /\ claim[w] # Idle
    /\ claim' = [claim EXCEPT ![w] = Idle]
    /\ UNCHANGED <<row, due, debits, hold, escrow>>

Pass(w) == Charge(w) \/ Release(w) \/ Settle(w) \/ Fail(w)

-----------------------------------------------------------------------------
(* Calls that were under way when the fraud was decided, /escrow/capture, and *)
(* the webhook.                                                              *)

HoldMoves ==
    /\ hold = "authorized"
    /\ hold' \in {"captured", "canceled"}
    /\ UNCHANGED <<row, due, claim, debits, escrow>>

\* The capture is booked and released; without an account the escrow stays HELD.
HandleCapture ==
    /\ hold = "captured" /\ escrow = "HELD"
    /\ escrow' = "RELEASED"
    /\ UNCHANGED <<row, due, claim, debits, hold>>

Next ==
    \/ TimePasses \/ HoldMoves \/ HandleCapture
    \/ \E w \in Worker : ClaimNext(w) \/ Pass(w) \/ Crash(w)

Spec == Init /\ [][Next]_vars

\* Passes are started every minute, time passes, and not every pass dies before
\* it has written its verdict.
FairSpec ==
    /\ Spec
    /\ WF_vars(~due /\ TimePasses)
    /\ SF_vars(\E w \in Worker : ClaimNext(w))
    /\ \A w \in Worker : SF_vars(Charge(w)) /\ SF_vars(Release(w)) /\ SF_vars(Settle(w) \/ Fail(w))

-----------------------------------------------------------------------------
(* Properties.                                                             *)

TypeOK ==
    /\ row \in [status: PenaltyStatus, attempts: Nat]
    /\ due \in BOOLEAN
    /\ claim \in [Worker -> {Idle} \cup
         [step: {"claimed", "charged", "released", "failed"}, attempts: Nat, held: BOOLEAN]]
    /\ debits \subseteq Nat
    /\ hold \in {"authorized", "captured", "canceled", "released"}
    /\ escrow \in {"HELD", "CANCELLED", "RELEASED"}

\* However often the row is tried again, by slow workers or after lost answers,
\* the traveler is debited once.
DebitedOnce == Cardinality(debits) <= 1

\* The penalty keeps the promise of an outbox: debited at most once, settled when
\* debited, and neither debited nor judged again after the end, unless slow workers
\* overlap.
Promise == INSTANCE OutboxPromise WITH
    Item <- {"penalty"},
    Slow <- Overlap,
    effects <- [i \in {"penalty"} |-> Cardinality(debits)],
    verdict <- [i \in {"penalty"} |-> IF row.status = "SETTLED" THEN "settled"
                                     ELSE IF row.status = "ABANDONED" THEN "given_up"
                                     ELSE "open"]

DebitPromise == Promise!Spec

\* The worker does not give the buyer's money back before it has the traveler's,
\* and closes the escrow only of a hold it has itself released.
BuyerWaitsForDebit ==
    /\ hold = "released" => debits # {}
    /\ escrow = "CANCELLED" => hold = "released"

\* A penalty is settled when everything was done: the traveler debited, the
\* escrow closed, and no hold left on the buyer's card.
SettledIsComplete ==
    row.status = "SETTLED" => debits # {} /\ escrow # "HELD" /\ hold # "authorized"

\* The penalty is collected or handed to a human, whatever crashes.
EventuallyResolved == <>[](row.status \in Final)

-----------------------------------------------------------------------------
(* What the code, its comments or the schema say, and the code does not do. *)

\* What the alert says of an abandoned penalty: the card was not debited.
AbandonedIsUndebited == row.status = "ABANDONED" => debits = {}
=============================================================================
