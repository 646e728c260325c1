--------------------------- MODULE TransferOutbox ---------------------------
(***************************************************************************)
(* The transfer worker: the only part of the program that pays travelers.  *)
(* A release of EscrowWebhook leaves a row in the outbox; worker passes, of *)
(* several instances and of one (a pass is started every minute whether or  *)
(* not the last one has ended), claim rows, call Stripe outside any         *)
(* transaction, and write the verdict.  A row that stays SUBMITTED for a    *)
(* quarter of an hour is claimed again: its worker is taken for dead.       *)
(***************************************************************************)
EXTENDS Naturals, FiniteSets

CONSTANTS
    Row,          \* the rows of the outbox
    Worker,       \* the passes that may be under way at the same time
    MaxAttempts,  \* the failures after which a row is abandoned
    Overlap       \* a worker taken for dead may be merely slow

ASSUME OutboxAssumption == MaxAttempts \in Nat \ {0} /\ Overlap \in BOOLEAN

VARIABLES
    row,        \* TransferOutbox: [status, attempts]
    due,        \* rows whose updatedAt is old enough to be claimed again
    claim,      \* what each pass holds: the row and attempts read at the claim
    transfers   \* Stripe: the idempotency keys under which a transfer exists

vars == <<row, due, claim, transfers>>

TransferStatus == {"PENDING", "SUBMITTED", "SETTLED", "FAILED", "ABANDONED"}

Final == {"SETTLED", "ABANDONED"}

\* Mutant: the key is computed again at each attempt.
KeyOfAttempt(c) == [row |-> c.row, attempt |-> c.attempts]

\* The key was stored with the row and is sent as it is.
Key(c) == [row |-> c.row, attempt |-> 0]

KeySpace == [row: Row, attempt: Nat]

Idle == [step |-> "idle"]

Claim == {Idle} \cup
    [step: {"calling", "paid", "error"}, row: Row, attempts: Nat]

TypeOK ==
    /\ row \in [Row -> [status: TransferStatus, attempts: Nat]]
    /\ due \subseteq Row
    /\ claim \in [Worker -> Claim]
    /\ transfers \subseteq KeySpace

Init ==
    /\ row = [r \in Row |-> [status |-> "PENDING", attempts |-> 0]]
    /\ due = {}
    /\ claim = [w \in Worker |-> Idle]
    /\ transfers = {}

Holds(w, r) == claim[w] # Idle /\ claim[w].row = r

\* The backoff of a failure, or the delay after which a worker is taken for
\* dead, has run out.
TimePasses(r) ==
    /\ row[r].status \in {"SUBMITTED", "FAILED"}
    /\ row[r].status = "SUBMITTED" /\ ~Overlap => \A w \in Worker : ~Holds(w, r)
    /\ due' = due \cup {r}
    /\ UNCHANGED <<row, claim, transfers>>

Claimable(r) ==
    \/ row[r].status = "PENDING"
    \/ row[r].status = "FAILED" /\ row[r].attempts < MaxAttempts /\ r \in due
    \/ row[r].status = "SUBMITTED" /\ r \in due

\* FOR UPDATE SKIP LOCKED: two passes never claim a row in the same step.
ClaimNext(w, r) ==
    /\ claim[w] = Idle
    /\ Claimable(r)
    /\ row' = [row EXCEPT ![r].status = "SUBMITTED"]
    /\ due' = due \ {r}
    /\ claim' = [claim EXCEPT ![w] =
                   [step |-> "calling", row |-> r, attempts |-> row[r].attempts]]
    /\ UNCHANGED transfers

\* stripe.transfers.create: a key that is known returns its transfer; an answer
\* may be lost after the transfer is made, or the request refused.
CreateTransfer(w) ==
    /\ claim[w].step = "calling"
    /\ \E answer \in {"paid", "error"} :
         /\ claim' = [claim EXCEPT ![w].step = answer]
         /\ \/ transfers' = transfers \cup {Key(claim[w])}
            \/ answer = "error" /\ UNCHANGED transfers
    /\ UNCHANGED <<row, due>>

Settle(w) ==
    /\ claim[w].step = "paid"
    /\ row' = [row EXCEPT ![claim[w].row].status = "SETTLED"]
    /\ due' = due \ {claim[w].row}
    /\ claim' = [claim EXCEPT ![w] = Idle]
    /\ UNCHANGED transfers

\* Abandoned or not by the attempts read at the claim; the row's own are counted.
Verdict(c) ==
    [status |-> IF c.attempts + 1 >= MaxAttempts THEN "ABANDONED" ELSE "FAILED",
     attempts |-> row[c.row].attempts + 1]

\* The one catch of the pass: the call failed, or the row of a transfer that was
\* made could not be written.
Fail(w) ==
    /\ claim[w].step \in {"paid", "error"}
    /\ row' = [row EXCEPT ![claim[w].row] = Verdict(claim[w])]
    /\ due' = due \ {claim[w].row}
    /\ claim' = [claim EXCEPT ![w] = Idle]
    /\ UNCHANGED transfers

\* Mutant: a row put back in the queue starts over.
RequeuedAfresh(r) == [row[r] EXCEPT !.status = "PENDING", !.attempts = 0]

Requeued(r) == [row[r] EXCEPT !.status = "PENDING"]

\* Operations put a failed row back in the queue, never an abandoned one.
RequeueFailedTransfer(r) ==
    /\ row[r].status = "FAILED"
    /\ row' = [row EXCEPT ![r] = Requeued(r)]
    /\ due' = due \ {r}
    /\ UNCHANGED <<claim, transfers>>

Crash(w) ==
    /\ claim[w] # Idle
    /\ claim' = [claim EXCEPT ![w] = Idle]
    /\ UNCHANGED <<row, due, transfers>>

Pass(w) == CreateTransfer(w) \/ Settle(w) \/ Fail(w)

Next ==
    \/ \E r \in Row : TimePasses(r) \/ RequeueFailedTransfer(r)
    \/ \E w \in Worker : Pass(w) \/ Crash(w) \/ \E r \in Row : ClaimNext(w, r)

Spec == Init /\ [][Next]_vars

\* Passes are started for ever, time passes, and not every pass over a row dies
\* before it is answered, nor every answered pass before it writes the verdict.
FairSpec ==
    /\ Spec
    /\ \A r \in Row :
         /\ WF_vars(r \notin due /\ TimePasses(r))
         /\ SF_vars(\E w \in Worker : ClaimNext(w, r))
         /\ SF_vars(\E w \in Worker : Holds(w, r) /\ CreateTransfer(w))
         /\ SF_vars(\E w \in Worker : Holds(w, r) /\ (Settle(w) \/ Fail(w)))

-----------------------------------------------------------------------------
(* Properties.                                                             *)

\* However often a row is tried again, by whom and after whatever lost answer,
\* the traveler is paid at most once for it.
PaidOnce ==
    \A r \in Row : Cardinality({k \in transfers : k.row = r}) <= 1

\* The transfers keep the promise of an outbox: paid at most once, settled when paid,
\* and neither paid nor judged again after the end, unless slow workers overlap.
Promise == INSTANCE OutboxPromise WITH
    Item <- Row,
    Slow <- Overlap,
    effects <- [r \in Row |-> Cardinality({k \in transfers : k.row = r})],
    verdict <- [r \in Row |-> IF row[r].status = "SETTLED" THEN "settled"
                              ELSE IF row[r].status = "ABANDONED" THEN "given_up"
                              ELSE "open"]

TransferPromise == Promise!Spec

\* The books call a row settled only when Stripe has its transfer.
SettledIsPaid ==
    \A r \in Row : row[r].status = "SETTLED" => \E k \in transfers : k.row = r

\* A row is given up after M failures, neither before nor with tries to spare:
\* M bounds the failures of its whole life, requeues by hand included.
GivenUpAfterM ==
    \A r \in Row :
        /\ row[r].attempts <= MaxAttempts
        /\ row[r].status = "ABANDONED" <=> row[r].attempts = MaxAttempts

\* SETTLED and ABANDONED are final for the worker and for a requeue.
FinalIsFinal ==
    [][\A r \in Row : row[r].status \in Final => row'[r] = row[r]]_vars

\* Every row is settled or handed to a human.
EventuallyResolved == \A r \in Row : <>[](row[r].status \in Final)

-----------------------------------------------------------------------------
(* What the code, its comments or the schema say, and the code does not do. *)

\* What the worker says of ABANDONED: terminal, out of reach of worker and requeue.
AbandonedIsTerminal ==
    [][\A r \in Row : row[r].status = "ABANDONED" => row'[r].status = "ABANDONED"]_vars
=============================================================================
