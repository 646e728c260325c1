------------------------- MODULE InstructionPenalty -------------------------
(***************************************************************************)
(* The fixed fee charged to the author of an abusive dispute.  Each pass of  *)
(* disputePenaltyWorker first sweeps the rows at their last attempt, then    *)
(* claims a batch, then charges its rows one by one, outside any transaction *)
(* and under one idempotency key per row.  A claimed row stays PENDING: the  *)
(* next pass, of this process or of another one, may claim it again, and     *)
(* every verdict is written by the id of the row alone.                      *)
(***************************************************************************)
EXTENDS Naturals, FiniteSets

CONSTANTS
    Penalty,         \* the rows of the table Penalty, one per mission
    Worker,          \* the processes that run the loop, each with its inFlight guard
    MaxFeeAttempts,  \* maxAttempts
    BatchLimit       \* batchLimit

ASSUME InstructionAssumption == MaxFeeAttempts \in Nat \ {0} /\ BatchLimit \in Nat \ {0}

VARIABLES
    penalty,    \* the rows: [status, attempts]
    suspended,  \* the author, of all of them, is SUSPENDED
    job,        \* the pass of each process: its step, and the rows it still holds
    debits,     \* Stripe: the keys under which a row was debited
    cardless,   \* the rows that a claim found without a payment method
    reported    \* the rows named by DISPUTE_PENALTY_STUCK_PENDING

feeVars == <<penalty, suspended, job, debits, cardless, reported>>

PenaltyStatus == {"PENDING", "PAID", "FAILED"}

Ended(p) == penalty[p].status # "PENDING"

Idle == [step |-> "idle"]

FeeInit ==
    /\ penalty = [p \in Penalty |-> [status |-> "PENDING", attempts |-> 0]]
    /\ suspended = FALSE
    /\ job = [w \in Worker |-> Idle]
    /\ debits = [p \in Penalty |-> {}]
    /\ cardless = {} /\ reported = {}

Do(w, j) == job' = [job EXCEPT ![w] = j]

\* Mutant: the last attempt is taken for one that may be claimed again.
StuckPast(p) == penalty[p].status = "PENDING" /\ penalty[p].attempts > MaxFeeAttempts

Stuck(p) == penalty[p].status = "PENDING" /\ penalty[p].attempts >= MaxFeeAttempts

\* sweepStuckPenalties: what can be claimed no more is FAILED, nobody is suspended.
Sweep(w) ==
    /\ job[w] = Idle
    /\ LET stuck == {p \in Penalty : Stuck(p)} IN
         /\ penalty' = [p \in Penalty |->
                          IF p \in stuck THEN [penalty[p] EXCEPT !.status = "FAILED"] ELSE penalty[p]]
         /\ Do(w, IF stuck = {} THEN [step |-> "claim"] ELSE [step |-> "swept", rows |-> stuck])
    /\ UNCHANGED <<suspended, debits, cardless, reported>>

\* The alert leaves after the commit.
Report(w) ==
    /\ job[w].step = "swept"
    /\ reported' = reported \cup job[w].rows
    /\ Do(w, [step |-> "claim"])
    /\ UNCHANGED <<penalty, suspended, debits, cardless>>

\* runReaperOnce names the stuck rows, and changes nothing.
Reap ==
    /\ \E p \in Penalty : Stuck(p)
    /\ reported' = reported \cup {p \in Penalty : Stuck(p)}
    /\ UNCHANGED <<penalty, suspended, job, debits, cardless>>

FeeClaimable(p) == penalty[p].status = "PENDING" /\ penalty[p].attempts < MaxFeeAttempts

\* SKIP LOCKED: any choice of claimable rows within the limit, unless none is left.
Batches ==
    {b \in SUBSET {p \in Penalty : FeeClaimable(p)} : b # {} /\ Cardinality(b) <= BatchLimit}

Counted(p) == [penalty[p] EXCEPT !.attempts = penalty[p].attempts + 1]

Held(p, row, payable) == [id |-> p, attempts |-> row.attempts, payable |-> payable]

\* claimPenaltyBatch: attempts is raised and read back in one transaction.
ClaimBatch(w) ==
    /\ job[w].step = "claim"
    /\ \E batch \in Batches, payable \in BOOLEAN :
         /\ penalty' = [p \in Penalty |-> IF p \in batch THEN Counted(p) ELSE penalty[p]]
         /\ Do(w, [step |-> "charge", todo |-> {Held(p, penalty'[p], payable) : p \in batch}])
         /\ cardless' = IF payable THEN cardless ELSE cardless \cup batch
    /\ UNCHANGED <<suspended, debits, reported>>

NothingToClaim(w) ==
    /\ job[w].step = "claim" /\ Batches = {}
    /\ Do(w, Idle)
    /\ UNCHANGED <<penalty, suspended, debits, cardless, reported>>

\* Mutant: a key per attempt.
KeyOfAttempt(r) == r.attempts

\* dispute_penalty_<id>, for every attempt.
Key(r) == 0

Answered(w, r, outcome) ==
    Do(w, [step |-> "verdict", row |-> r, outcome |-> outcome, todo |-> job[w].todo \ {r}])

\* Mutant: the status of the intent is not looked at.
ChargeUnchecked(w, r) ==
    /\ job[w].step = "charge" /\ r \in job[w].todo /\ r.payable
    /\ debits' \in {debits, [debits EXCEPT ![r.id] = debits[r.id] \cup {Key(r)}]}
    /\ Answered(w, r, "paid") \/ Answered(w, r, "failed")
    /\ UNCHANGED <<penalty, suspended, cardless, reported>>

\* The charge of one row: succeeded, now or under this key before; or refused,
\* asking for the payer, or with its answer lost.
Charge(w, r) ==
    /\ job[w].step = "charge" /\ r \in job[w].todo /\ r.payable
    /\ LET debited == [debits EXCEPT ![r.id] = debits[r.id] \cup {Key(r)}] IN
         \/ debits' = debited /\ Answered(w, r, "paid")
         \/ debits' \in {debits, debited} /\ Answered(w, r, "failed")
    /\ UNCHANGED <<penalty, suspended, cardless, reported>>

\* No payment method: Stripe is not called.
NoCard(w, r) ==
    /\ job[w].step = "charge" /\ r \in job[w].todo /\ ~r.payable
    /\ Answered(w, r, "no_card")
    /\ UNCHANGED <<penalty, suspended, debits, cardless, reported>>

NextRow(w) ==
    Do(w, IF job[w].todo = {} THEN Idle ELSE [step |-> "charge", todo |-> job[w].todo])

Verdict(w, status) == penalty' = [penalty EXCEPT ![job[w].row.id].status = status]

Paid(w) ==
    /\ job[w].step = "verdict" /\ job[w].outcome = "paid"
    /\ Verdict(w, "PAID")
    /\ NextRow(w)
    /\ UNCHANGED <<suspended, debits, cardless, reported>>

\* Mutant: a retry that will be the last is taken for the last.
TerminalEarly(j) == j.outcome = "no_card" \/ j.row.attempts + 1 >= MaxFeeAttempts

Terminal(j) == j.outcome = "no_card" \/ j.row.attempts >= MaxFeeAttempts

\* failPenalty, for a charge that failed and, by the same catch, for a charge that
\* succeeded and whose verdict could not be written.
Retry(w) ==
    /\ job[w].step = "verdict" /\ ~Terminal(job[w])
    /\ Verdict(w, "PENDING")
    /\ NextRow(w)
    /\ UNCHANGED <<suspended, debits, cardless, reported>>

GiveUp(w) ==
    /\ job[w].step = "verdict" /\ Terminal(job[w])
    /\ Verdict(w, "FAILED")
    /\ suspended' = TRUE
    /\ NextRow(w)
    /\ UNCHANGED <<debits, cardless, reported>>

\* The process dies, or a write fails and ends the pass: the rest of its batch
\* waits for another claim.
FeeCrash(w) ==
    /\ job[w] # Idle
    /\ Do(w, Idle)
    /\ UNCHANGED <<penalty, suspended, debits, cardless, reported>>

Verdicts(w) == Paid(w) \/ Retry(w) \/ GiveUp(w)

Charges(w) == job[w].step = "charge" /\ \E r \in job[w].todo : Charge(w, r) \/ NoCard(w, r)

FeeNext ==
    \/ Reap
    \/ \E w \in Worker :
         Sweep(w) \/ Report(w) \/ ClaimBatch(w) \/ NothingToClaim(w) \/ Charges(w) \/ Verdicts(w) \/ FeeCrash(w)

FeeSpec == FeeInit /\ [][FeeNext]_feeVars

\* The cron runs, every step of a pass ends, one way or the other, and not every
\* pass dies between its sweep and its claim.
FeeFairSpec ==
    /\ FeeSpec
    /\ \A w \in Worker :
         /\ WF_feeVars(Sweep(w)) /\ WF_feeVars(Report(w) \/ NothingToClaim(w))
         /\ SF_feeVars(ClaimBatch(w))
         /\ WF_feeVars(Charges(w) \/ Verdicts(w))

-----------------------------------------------------------------------------
(* Properties.                                                             *)

HeldRow == [id : Penalty, attempts : 1..MaxFeeAttempts, payable : BOOLEAN]

Job ==
    [step : {"idle", "claim"}] \cup [step : {"swept"}, rows : SUBSET Penalty]
        \cup [step : {"charge"}, todo : SUBSET HeldRow]
        \cup [step : {"verdict"}, row : HeldRow, outcome : {"paid", "failed", "no_card"},
              todo : SUBSET HeldRow]

FeeTypeOK ==
    /\ penalty \in [Penalty -> [status : PenaltyStatus, attempts : 0..MaxFeeAttempts]]
    /\ suspended \in BOOLEAN
    /\ job \in [Worker -> Job]
    /\ debits \in [Penalty -> SUBSET Nat]
    /\ cardless \subseteq Penalty /\ reported \subseteq Penalty

\* Whatever crashes, retries and overlaps of passes, an author is debited at most
\* once for a penalty.
DebitedOnce == \A p \in Penalty : debits[p] \subseteq {0}

\* No row is PAID, or about to be, for a card that was not debited.
PaidIsDebited ==
    /\ \A p \in Penalty : penalty[p].status = "PAID" => debits[p] # {}
    /\ \A w \in Worker :
         job[w].step = "verdict" /\ job[w].outcome = "paid" => debits[job[w].row.id] # {}

\* What the rows say of the card is what was done to it.
DebitsAreRight == DebitedOnce /\ PaidIsDebited

\* The fees keep the promise of an outbox whose workers may be slow: charged at most
\* once, and PAID when charged.
FeeOutbox == INSTANCE OutboxPromise WITH
    Item <- Penalty,
    Slow <- TRUE,
    effects <- [p \in Penalty |-> Cardinality(debits[p])],
    verdict <- [p \in Penalty |-> IF penalty[p].status = "PAID" THEN "settled"
                                  ELSE IF penalty[p].status = "FAILED" THEN "given_up"
                                  ELSE "open"]

FeePromise == FeeOutbox!Spec

\* Nobody is suspended before some penalty was tried as often as it may be, but
\* for want of a payment method.
SuspendedAtLast ==
    suspended => \E p \in Penalty : p \in cardless \/ penalty[p].attempts = MaxFeeAttempts

\* Though a slow pass may reopen a row that was FAILED, or overwrite its verdict,
\* each row comes to rest on PAID or FAILED.
ComesToRest == \A p \in Penalty : <>[]Ended(p)

-----------------------------------------------------------------------------
(* What the comments of the worker say, and the code does not do.           *)

\* A timeout of the network does not blacklist an account.
TimeoutNeverSuspends ==
    suspended => \E p \in Penalty : debits[p] = {}

\* FAILED and PAID are terminal.
VerdictIsFinal ==
    [][\A p \in Penalty : Ended(p) => penalty'[p].status = penalty[p].status]_feeVars

\* A swept row, whose charge may have succeeded, is reported to an operator.
FailedIsTold ==
    \A p \in Penalty :
        penalty[p].status = "FAILED" /\ ~suspended /\ (\A w \in Worker : job[w] = Idle) => p \in reported
=============================================================================
