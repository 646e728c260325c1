# Waylo, specified

Waylo is an escrow service for parcels carried by travelers. A buyer funds a
mission by a card hold at Stripe; a traveler buys the goods and delivers them; the
hold is captured, the traveler is paid by a transfer, or the hold is cancelled and
the buyer keeps the money. This directory specifies the routes, the Stripe webhook
and the workers of the backend (`src/src`) that move that money, and the clients
(`src/packages/mobile`, `src/frontend`) as far as they keep state, in TLA+, with TLC
configurations and TLAPS proofs.

All paths below are relative to the repository.

- [Parts of the system](#parts-of-the-system)
- [Modules and the code](#modules-and-the-code)
- [What the runs check](#what-the-runs-check)
- [What is proved](#what-is-proved)
- [Where the code and its texts part](#where-the-code-and-its-texts-part)
- [Abstractions, and what is left out](#abstractions-and-what-is-left-out)
- [Plan](#plan)
- [How to run](#how-to-run)

## Parts of the system

There is one PostgreSQL database, several instances of one server, and Stripe.
Every instance serves HTTP, receives webhooks and runs the workers on timers
(`src/server.ts`). Instances share nothing but the database. Transactions are READ
COMMITTED; the code defends itself by conditional updates (`updateMany` with the
expected status, then a look at the count), by unique indexes and by Stripe's
idempotency keys. No transaction spans a call to Stripe. So the hard behaviours
are everywhere of the same kind: what was read before the call to Stripe is stale
after it; a call may have succeeded although its answer was lost; a process may
die between any two writes; events come late, twice or in the wrong order; two
timers or two instances do the same work.

| Part | State | Operations | Correct when |
| --- | --- | --- | --- |
| Funding (`missions/routes/funding.route.ts`, `workers/funding-reconciliation.ts`, creation of the mission in `missions/mission.service.ts`) | `Mission.status`, `EscrowTransaction`, PaymentIntent | /intent, /checkout-session, roll-back of unpaid holds, recovery of reservations without escrow | no hold on a card is unknown to the program; a mission has one escrow row; a reservation nobody begins to pay ends |
| Life cycle (`missions/routes/*`, `escrow/escrow.route.ts`, `services/disputeResolution.service.ts`, timeouts in `workers/reconciliation.ts`) | mission, escrow, hold | match, ship, receive, drop off, validate, dispute, customs, arbitration, timeouts | mission and escrow never run ahead of the money; an end is final |
| Webhook and ledger (`stripe/webhook.route.ts`, `services/escrow.service.ts`) | `ProcessedStripeEvent`, escrow, `LedgerEntry`, `TransferOutbox`, `Wallet` | payment_intent.succeeded, payment_intent.payment_failed, charge.refunded, checkout.session.completed | the ledger balances; an escrow is released once; a capture is booked |
| Transfer outbox (`workers/transfer-worker.ts`, requeue in `workers/reconciliation.ts`) | `TransferOutbox` | claim, transfer, verdict, requeue | nobody is paid twice; a row ends |
| Fraud penalty (`workers/penalty.worker.ts`) | `PenaltyDebitOutbox`, hold, escrow | claim, debit, release, settle | debited once, and before the release |
| Buyer compensation (`workers/buyer-compensation.worker.ts`) | `BuyerCompensationOutbox`, `Wallet` | list, credit, verdict | credited once |
| Dispute refund (`services/disputeResolution.service.ts`, `workers/disputeResolutionWorker.ts`) | `OutboxEvent`, mission, escrow, hold | freeze, enqueue, claim, cancel, write | nothing is called refunded that is not; a frozen mission is refunded, or its attempts are used up |
| Instruction penalty (`workers/disputePenaltyWorker.ts`) | `Penalty`, `User.accountStatus` | sweep, claim by batch, charge, verdict, report | charged once; suspended only after the last attempt; every row comes to rest |
| Dispute case (`services/dispute.service.ts`) | `Dispute` | draft, open, escalate, resolve, close | a disputed mission has its case; a case only advances |
| Reconciliation pass (`workers/reconciliation.ts`) | alerts; what it has read | four reads, one question to Stripe | no false accusation; no capture stays unknown |
| Pool (`missions/mission.service.ts`, `workers/mission-lifecycle.ts`, `packages/shared/src/automation/watchdog.ts`) | `ProcessedMissionEvent`, `Mission.status` | notify with retries, mark, expire, list, take | a taken mission is kept; a closed one is closed for good |
| Receipts (`receipts/receipts.route.ts`, `workers/receiptOutboxWorker.ts`, `services/escrowService.ts`) | `ReceiptExtractionOutbox`, `Receipt`, declared amount | upload, claim, extract, take back, seal | one receipt, from one consumed job, equal to the declaration; every upload is decided |
| Card authorization (`stripe/issuing-authorization.route.ts`, `services/stripe/jit-handler.service.ts`) | read only, and an audit row | decide | never more than the capture takes from the buyer |
| Sign-in (`auth/*`, `rate-limit.ts`) | `MagicLink`, `RateLimit`, cookie | ask for a code, verify, refresh, sign out; count, purge | no more sessions than codes; tries and requests are bounded |
| Mobile application (`packages/mobile/src`) | memory, keychain, cache of the list | start, sign in, sign out, refresh, 401 | memory and keychain agree; nobody is signed out for the network |
| Web front end (`frontend`) | what a page knows of session and mission | open, press, answer | a page never goes back in time; a dark button is a done action |
| Matching filters, input guard, time-stamping, alerts, monitoring | none, or counters | | |

They interact through the database rows above, and through Stripe: funding creates
the hold that the life cycle captures or cancels; the capture's event makes the
webhook book it, release the escrow and write the transfer row; the transfer worker
executes it; the daily reconciliation compares all of them. Arbitration of a fraud writes the penalty row; the penalty worker's last
transaction closes the escrow that webhook, dispute worker and funding
reconciliation may be writing at the same time.

## Modules and the code

| Module | Models | States and actions |
| --- | --- | --- |
| `EscrowLedger` | what an escrow account promises, whoever moves it | `Book`, `BookAndRelease`, `Refund`, `Cancel` of one account; no events, no processes |
| `OutboxPromise` | what an outbox that moves money promises of each row, whatever its worker does | `TakeEffect`, `Settle`, `GiveUp`, `Reopen` (only where workers may be slow); no claims, no processes |
| `EscrowWebhook` | the webhook in detail, and, coarsely, all that races with it | a delivery is `Begin` (marks the event, reads the escrow without a lock) and one `Handle` step that commits the effect; `Crash`, `Rollback` and redelivery; Stripe's side (`PaymentAuthorized`, `Capture`, `CancelHold`, `RefundCharge`); other writers of the same rows (`RouteStep`, `WorkerCancelsEscrow`, `FundingRollback`, `CustomsTimeout`) |
| `TransferOutbox` | transfer worker and requeue | `ClaimNext`, `CreateTransfer`, `Settle`, `Fail`, `Crash`, `RequeueFailedTransfer`, `TimePasses` |
| `Funding` | both funding routes, both reconciliation passes, payer, traveler | one step per write or call of a request: `Check`, `Reserve`, `CreateIntent`, `CreateSession`, `CreateEscrow`, `Answer`, `Revert`; `Retrieve`, `Rollback`, `CancelIntent`; `Search`, `Recover`; `Pay` is the buyer at Stripe: `Confirm`, and `Authenticate` when the bank asks for it; `Close` is whatever else ends a mission nobody took |
| `MissionPool` | `Funding` with what happens beside it: the notification of the travelers, the sweep, the catalogue | `Trigger`, `Attempt`, `LateCallEnds`, `MarkFailed`; `Find`, `Expire`; `Take`. Every step is a step of `Funding` |
| `MissionLifecycle` | every route and worker that moves a funded mission | routes with one conditional write are one action; the twelve that call Stripe are `Check`, `CallStripe`, `Write`, with the tables `Accepts` and `Moves`; `HandleCapture` is the webhook in one step |
| `MissionDesk` | `MissionLifecycle` with the case of the dispute, the card, the reviews | `DisputeMission` writes mission and case in one transaction; an admin's decision is `ReadCase`, `ResolveDispute`; `CardApproved` is one answer to the card; `Review` |
| `Reconciliation` | the daily pass beside `EscrowWebhook` | `ReadEscrows`, `ReadLedger`, `ReadPayouts`, `ReadOutbox`, `AskStripe`, `EndPass`: each table is read at its own moment |
| `FraudPenalty` | penalty worker | `ClaimNext`, `Charge`, `Release`, `Settle`, `Fail`, `Crash`; `HoldMoves`, `HandleCapture` for what was under way |
| `BuyerCompensation` | compensation worker | `List`, `Process`, `Catch`, `CompCrash` |
| `ReceiptSealing` | from the upload of a photograph to the sealed receipt of one mission | a pass is `Start` (take back what was left in PROCESSING, list what was left COMPLETED), `ListPending`, then per job `Claim`, `Extract`, `ReadForSeal`, `Seal` or `SealFails`; `TimePasses`; the routes `Ship`, `StartTravel`, `SubmitReceipt`, `DropOff` |
| `DisputeRefund` | the automatic refund of one mission | `TriggerAutoRefundWatchdog`; a pass is `Scan` and `Insert` (the enqueuing, whose query and insertion are two statements), `Claim`, then per event `ReadEscrow`, `Cancel`, `Write` or `FailRefund`; `Receive` and `HandleCapture` run against it |
| `InstructionPenalty` | the fee of an abusive dispute | `Sweep`, `Report`, `ClaimBatch`, `Charge`, `NoCard`, then the verdicts `Paid`, `Retry`, `GiveUp`; `FeeCrash`; `Reap` is the pass that only reports |
| `MobileSession` | auth store, keychain, interceptor, start, list of missions with its cache | requests (`Hydration`, `Submit`, `Serve`, `RefreshFails`) and keychain operations (`ReadSession`, `WriteSession`, `DeleteSession`, `KeychainFails`) end in their own steps; `Kill` restarts the application |
| `WebSession` | what the browser knows of its cookie | `ProfileRead`, `Unauthorized`, `Refreshed`, `ReadFails` for each question under way |
| `MagicLink` | sign-in by a code | `RequestLink`; a verification is `Find`, then `Count` or `Consume` |
| `RateLimit` | one key of the limiter | `Arrive` reads the clock, `CountHit` is the statement, `CountFails` the fail-open, `PurgeExpired` |
| `MissionPages` | two users before their pages of one mission | `Open`, `Press`, `Leave`; `Load`, `Act`, `Reread`, `Refuse`, `Taken` at the server; `Replied`, `Failed`; `MovedElsewhere` |
| `ClientSessions` | the five clients | they share nothing, so a behaviour follows one of them (`client`) |

`MC*` modules give bounds; `*Proofs` modules hold the theorems. A variable stands
for one table, or for Stripe's record of one mission: `escrow` is the
`EscrowTransaction` row, `pi` and `hold` are the PaymentIntent, `claim`, `pass`,
`request` and `inflight` are what a process has in memory.

The modules overlap on purpose. `EscrowWebhook` lets any route step of its set
`RouteEdges` happen and looks closely at the deliveries; `MissionLifecycle` looks
closely at the routes and folds a delivery into one step. Both are shown to implement
`EscrowLedger`: it is the interface at which they meet. Likewise the three outboxes that
move money, `TransferOutbox`, `FraudPenalty` and `InstructionPenalty`, are shown to implement
`OutboxPromise`, each with its own idea of a row, an effect and an end. The compensation's
cannot: it credits a row twice (see below). `AloneCreditsOnce` is what it keeps when alone.

Definitions preceded by "Mutant:" are not part of a specification. Each is a
plausible mistake in the definition that follows it, kept to show that the
property it is paired with in `PROJECT.json` would notice.

## What the runs check

| Run | Question and answer |
| --- | --- |
| `escrow_webhook` | Concurrent, repeated and reordered deliveries, two ids for one capture, a late failure, partial refunds, customs detours and three other writers: `LedgerBalanced` (the invariants A, B, C the reconciliation alerts on), `ReleasePaysOnce`, `CaptureIsReal`, `RefundIsHighWater`, `TerminalEscrowImmutable` hold, and the whole implements `EscrowLedger` (`AccountPromise`). A capture made at Stripe gets into the books, unless the escrow was cancelled first or customs hold the mission (`CaptureEventuallyBooked`). |
| `reconciliation` | The pass beside the webhook: its accusations are true and it overlooks no capture (`AlarmsAreRight`), and a capture, even one whose event is refused for ever, is booked or reported (`CaptureEventuallyKnown`). |
| `transfer_outbox` | Two rows, two passes, lost answers, crashes, requeues: the outbox implements `OutboxPromise` (`TransferPromise`: a row is paid at most once, settled only when paid, and nothing is paid or judged after its end), and every row ends (`EventuallyResolved`). |
| `funding` | Two requests that die or lose answers, both passes, notification and sweep: `HoldIsTracked`, `EscrowRowKept`, `TakenIsKept`, `OrphanResolved`, and `UnbegunReservationEnds`: a reservation whose payment was not begun, or has failed, is given back. One whose buyer left the bank's authentication is not (see below). |
| `mission_lifecycle` | Any two of the twelve calls under way together, with case, card and reviews: `EscrowFollowsStripe`, `MissionFollowsMoney`, `EndIsFinal`, `DisputedHasCase`, `CardIsCovered`; the escrow implements `EscrowLedger` (`LedgerPromise`). |
| `fraud_penalty` | Two passes beside a capture or a release under way: `DebitPromise` (it implements `OutboxPromise`), `BuyerWaitsForDebit`, `EventuallyResolved`. |
| `instruction_penalty` | Two processes, two rows, a slow verdict over a swept row: `DebitsAreRight`, `SuspendedAtLast`, `ComesToRest`. |
| `buyer_compensation` | Two processes, lost answers: `SettledIsCredited`, `EventuallyCompensated`. |
| `buyer_compensation_twice` | Refuted: "no double credit possible". |
| `receipt_sealing` | Two processes, a job taken back from a worker that is alive, crashes anywhere, a receipt sealed by hand: `ReceiptHasItsJob`, `EventuallyDecided`. |
| `dispute_refund` | Two processes, two events for one mission, an event claimed twice, lost answers, a /receive that captures: `RefundIsReal`, `FrozenIsHandled`. |
| `client_session` | Phone: `MemoryMatchesStore`, `NoPunishment` (no one is signed out for the network). Web pages: `DarkIsDone`. Both: `ScreensNeverGoBack`, `ComesToKnow` (whoever opens the client learns whether he is signed in). Sign-in: `EntryIsBounded` (sessions, tries of a code, requests of a window). |

A module may state more than its run checks: properties that a theorem covers instead of a
run, and `GhostLeaves` (a mission whose time is over does not stay open to funding), which holds
in the bounds of the `funding` run when it is named there.

### Bounds

*Webhook.* Budget 5 and commission 1 make the amounts distinct: the capture without
substitution is 6, with it 7; the declared purchase of 3 leaves a rest for the wallet;
refunds of 2 and 6 give partial, completing and full refunds. `MaxCaptureIds` 2 is one
capture reported under two ids, `MaxFailures` 1 one declined attempt, `MaxConcurrent` 2
two deliveries at once: the two indexes that de-duplicate act on pairs. `MaxTimeouts`
bounds a step that can otherwise repeat without effect. That the safety properties hold
of all other amounts is proved. The run of the reconciliation has one delivery at a
time beside the pass, whose five reads are what it is about.

*Outboxes.* Two passes are enough for one to take over from another. Three attempts
leave a first, a middle and a last failure. Two transfer rows show that a pass goes
on to the next. The compensation worker's four attempts are the code's own.

*Receipts.* One upload, two processes, the code's four attempts, two amounts (the
declared one and another). What several uploads do to one another, they do through the
one receipt of the mission, which /submit-receipt takes as well; that the safety
properties hold of any number of uploads is proved. An upload's count of attempts stops
at the limit, as nothing tells larger counts apart.

*Dispute refund.* Two events are what two processes that enqueue together insert. With
three attempts an event has a first, a middle and a last one, and one event can be
claimed by both processes at different counts; the code's default is five.

*Instruction penalties.* Two rows in one batch, so that a batch can be left half done;
two processes; two attempts are a first and a last.

*Funding and life cycle.* The pool's notification has two attempts instead of the code's
four: one that is late while another succeeds, or both fail. Its run loses answers and
kills requests; requests that stall beyond the ten minutes of the reconciliation are left
to the proofs, which cover all of `Faults`. The desk's amounts are zero, the budget, the
ceiling with substitution and one beyond each. Two requests are any pair of calls; a request
that ends is idle again and may be another, so sequences of calls are not bounded.

*Clients.* Two tokens are a former session and the present one; two calls, two lists and
one kill give an answer of a former session, or of before the kill, in the present one.
`MaxOps` 1 is one operation the keychain has yet to do beside the one under way. Two
verifications and two codes: one verification reads a code and ends on another. Four moves
take a mission through any part of its life that two pages disagree about; three starting
statuses cover the rest. The limiter's window is four ticks, and a statement is
run at most one tick after the clock was read (`MaxLag`). What is bounded is the number of
requests let in during `Horizon` ticks, the least time between the starts of two windows (a
late request opens a window that has less than its time to run): fewer than two windows'
worth.

### Fairness

Handlers and passes are given fairness, users never. A request under way ends or
dies (`WF`). A worker step is strongly fair, because every pass may be interrupted
by a crash, but the timers start another (`src/server.ts`), and not every pass dies at
the same point. `TimePasses` is fair: time does. In `EscrowWebhook`, Stripe
redelivers an event until it is acknowledged, so each event is delivered and
handled again and again (`Redelivery`); Stripe's limit of three days is not modelled.
In `Reconciliation` the timer starts passes daily, and each of their steps is taken again
and again, as not all passes die before it; in `InstructionPenalty` the cron runs, and not
every pass dies between its sweep and its claim. The clients' fairness is that requests and the keychain end one way or
another (`ClientFairness`).
In `ReceiptSealing` and `DisputeRefund` fairness is stated of "some process": a step is
taken again and again by one of them, though every single pass may die before it; in
`ReceiptSealing` also that a worker whose job is still in PROCESSING returns from the
extraction now and then, in other words that not every extraction outlasts fifteen
minutes. Payment, matching, validation, disputes and administrators are not fair: nothing is
promised that depends on them. Deadlock is not checked where the mission or the
rows may come to their end and nothing is left to do.

## What is proved

TLAPS proves the following for every value of the constants. Assumptions are the
named `ASSUME`s of the modules (amounts are natural numbers, `MaxAttempts` is
positive), and those stated in a theorem.

| Theorem | Module | States |
| --- | --- | --- |
| `TypeCorrect`, `LedgerAlwaysBalanced`, `ReleaseAlwaysPaysOnce`, `CaptureAlwaysReal`, `TerminalEscrowNeverChanges`, `RefundsAreHighWater` | `EscrowWebhookProofs` | the safety properties of the webhook, for any number of concurrent deliveries and ids |
| `WebhookImplementsLedger` | `EscrowWebhookProofs` | `Spec => Account!Spec` |
| `OutboxTypeCorrect`, `PaidAtMostOnce`, `SettledIsAlwaysPaid` | `TransferOutboxProofs` | whatever workers overlap |
| `AlwaysGivenUpAfterM`, `FinalRowsNeverChange` | `TransferOutboxProofs` | if a worker taken for dead is dead (`~Overlap`) |
| `LifecycleTypeCorrect`, `EscrowAlwaysFollowsStripe`, `MissionAlwaysFollowsMoney`, `EndsAreFinal`, `LifecycleImplementsLedger` | `MissionLifecycleProofs` | for any number of calls under way |
| `TransfersKeepPromise`, `PenaltyKeepsPromise`, `FeesKeepPromise` | `TransferOutboxProofs`, `FraudProofs`, `DisputeRefundProofs` | the three outboxes implement `OutboxPromise`, with `Slow` just where workers overlap |
| `PenaltyTypeCorrect`, `DebitedAtMostOnce`, `BuyerAlwaysWaitsForDebit`, `SettledIsAlwaysComplete` | `FraudProofs` | slow workers included |
| `CompensationTypeCorrect`, `AlwaysGivenUpAfterMax`, `SettledIsAlwaysCredited` | `FraudProofs` | any processes and faults |
| `AloneCreditsOnce` | `FraudProofs` | one process, no lost answer: credited once if settled, else never |
| `FundingTypeCorrect`, `HoldAlwaysTracked`, `EscrowRowAlwaysKept` | `FundingProofs` | any number of requests, which may stall, die and lose answers |
| `ReceiptTypeCorrect`, `ReceiptAlwaysHasItsJob`, `FinalJobsNeverChange` | `ReceiptSealingProofs` | any number of uploads, processes and attempts |
| `RefundTypeCorrect`, `RefundAlwaysReal`, `GivingUpIsJustified` | `DisputeRefundProofs` | any number of events, processes and attempts |
| `FeeTypeCorrect`, `FeeDebitsAlwaysRight`, `FeeSuspendsAtLast` | `DisputeRefundProofs` | any number of penalties and processes, slow verdicts included |
| `ReconKeepsTheBooks`, `ReconTypeCorrect`, `AlarmsAreAlwaysRight` | `EscrowWebhookProofs` | the pass changes nothing of the webhook's, and accuses and overlooks nobody, for every amount and any number of deliveries |
| `ClientTypeCorrect`, `MemoryAlwaysMatchesStore`, `NobodyIsPunished`, `DarkIsAlwaysDone`, `ScreensNeverTurnBack`, `EntryIsAlwaysBounded` | `ClientSessionsProofs` | any number of tokens, lists, kills, verifications, codes, page requests and hits, for every window and lag |
| `PoolTypeCorrect`, `PoolIsFunding`, `ClosedIsForGood`, `TakenIsAlwaysKept` | `FundingProofs` | the pool implements `Funding`; no request, pass or late notification brings a closed mission back or takes a taken one away |
| `DeskTypeCorrect`, `DisputedAlwaysHasCase`, `CardAlwaysCovered`, `ReviewedAlwaysOver`, `CasesOnlyAdvance`, `DeskIsALifecycle` | `MissionLifecycleProofs` | the case, card and reviews, for every budget, commission and amount; and the desk implements `MissionLifecycle` |
| `HeldIsAlwaysFunded` | `FundingProofs` | without stalls and lost answers (`Faults = {}`), an open escrow belongs to a reserved mission |

The arguments:

*Webhook.* `LedgerBalanced` and its like are not inductive: whether a handler keeps
them depends on what its transaction has read. `IInv` adds that the escrow's capture
is Stripe's (`StripeOK`, `CaptureOK`), that the lines of a release are all there or
none is (`ReleaseOK`), what each status says of the refunds (`RefundOK`), and that the
capture a transaction has read, if any, is still the escrow's (`InflightOK`): a capture
is never undone, which is why reading it without the lock is sound. The high-water
property is proved beside `IInv`, and the refinement from it.

*Transfers.* That a row is paid once needs only that all keys are the stored one. The bound and the
finality need that at most one pass holds a row and that what it read of the attempts
is still true (`HInv`), which is just what overlap destroys.

*Outboxes.* A step of a worker maps to the one step of `OutboxPromise` that the money or
the status shows, or to none: claims, crashes and lost answers are invisible. That an effect
is the first one comes from the keys, that a settled row has its effect from what the pass
remembers, and that a row is still open when it is charged or judged from the lone holder
(`HInv`; `LoneInv` for the fraud penalty). The fee's rows have no such holder, so they
implement the promise with slow workers (`Slow`), which leaves: at most one effect, and
settled only after it.

*Life cycle.* The strengthening is `Answered`: a call about to write has Stripe's
answer, so the hold is as it wants; or it is the penalty worker's, on an escrow that was
released before. A hold leaves `authorized` once, hence the fact stays true while
the call waits.

*Funding.* A request about to answer knows the PaymentIntent of the escrow
(`AnswerOK`), because a row is inserted only where there is none. `HeldIsFunded` needs
`ReservedOnce`, one request at a time has the mission reserved, and `PassesApart`, a pass
that decided to give a mission back meets no such request: both follow from the ten
minutes a reservation must be old, which is what a stalled request breaks.

*Pool.* The abstract `Close` of `Funding` says that a CREATED mission may end; notification
and sweep are shown to do just that (`PoolIsFunding`), so what is proved of `Funding` holds
of the pool. Every write of the funding is conditional on CREATED or FUNDED, but for a
failed payment's (`MissionMoves`): hence `ClosedIsForGood` and `TakenIsAlwaysKept`.

*Desk.* The desk leaves mission and money to the life cycle (`DeskIsALifecycle`), so `IInv` is
inherited; `DeskInv` adds the invariants of case, card and reviews, which are inductive beside
it. `CasesOnlyAdvance` holds because each write of the case is conditional on the status
that was read; `CardAlwaysCovered` is arithmetic of the ceilings, whichever writer set the
limit.

*Penalty, compensation.* What a pass remembers stays true of the shared state
(`PassOK`); and, for a lone process, every row still on its list is pending.

*Instruction penalty.* What a process holds is a past of the row (`HeldRowsTrue`): no more
attempts than the row counts now, no payment method missing that no claim missed, no
verdict of PAID without a debit. Attempts, debits and `cardless` only grow (`Grows`), so this
survives whatever the other processes write; a last attempt is then a last one of the row.

*Reconciliation.* The five reads are five moments. `WhatWasRead` says what of each is still
true at the next: a final escrow row does not change, a booked capture stays booked, a
payout line has its release. These are the monotone facts of the webhook, taken from its
invariant `IInv`; the pass itself is shown to change none of it (`ReconKeepsTheBooks`).
`WhatWasRaised` then carries each alarm from the read that raised it to the end of the pass.

*Clients.* The five share nothing, so `ClientInv` is the conjunction of their invariants, and
a step of one leaves the others' alone. Phone (`MobileInv`): in what order the keychain has
yet to do what (`BootKnows`), and, as long as no token has expired and the user has not
left (`Calm`), that nothing is deleted that is there and no list on its way is older than the
one shown (`CalmKeychain`, `CalmList`). Pages (`PagesInv`): a dark button has its request
(`DarkHasRequest`), and a page has one at a time (`OneRequest`), hence answers are never
older than what is shown (`AnswersAreNewer`). Codes (`LinkInv`): failures found and not yet
counted are added to those the row counts. Limiter (`RateInv`): the first request of the open
window tells its age, and the requests of the window before the last are out of sight.

*Receipts.* A declaration is read in one statement and the receipt written in a later
one, so `ReceiptHasItsJob` alone is not inductive. `DeclaredOnce` (an amount is declared
by the step that leaves MATCHED) makes what was read stay true (`ReadIsCurrent`), and
`TotalKnown` keeps a missing total from passing for a missing declaration.

*Dispute refund.* `PassKnows`: a pass about to write has an answer of Stripe or has read
an escrow that was closed on one, and a cancelled hold stays cancelled.
`ClaimsCounted`: a pass remembers no more attempts than its event has had; hence an
event is given up for attempts only when they are used up, whichever pass does it.
(`GivenUpIsJustified` is proved, and no run repeats it.)

Every invariant and action property that a passing run checks is so stated by a theorem.
Liveness under fairness is left to TLC, since ENABLED and fairness are beyond the
prover: `CaptureEventuallyBooked`, `CaptureEventuallyKnown`, `EventuallyResolved` of both
outboxes, `EventuallyCompensated`, `OrphanResolved`, `UnbegunReservationEnds`,
`EventuallyDecided`, `FrozenIsHandled`, `ComesToRest` and `ComesToKnow`; and so is what is listed
as refuted.

## Where the code and its texts part

One run ends in a counterexample, `buyer_compensation_twice`: the catch reopens a row
that another process has settled. The finding is in `PROJECT.json` with the line quoted.

The last section of a module states further claims of comments and schema that its
specification does not satisfy. TLC refutes each by a short behaviour when it is named
in the module's configuration in place of the properties there; no run is kept.

| Claim | Module | What happens instead |
| --- | --- | --- |
| `LedgerAheadMeansCorrupt` | EscrowWebhook | A refund event older than the last one handled is reported as corruption and aborted at each redelivery. |
| `FailureCancelsNoMoney` | EscrowWebhook | A failed attempt's event, delivered between a retry's capture and its booking, cancels the escrow. |
| `AbandonedIsTerminal` (with `Overlap = TRUE`) | TransferOutbox | Both verdicts are written by id alone: a slow worker's verdict reopens or settles an abandoned row. |
| `RolledBackIsFundable` | Funding | The pass that gives a mission back leaves its CANCELLED escrow, and both funding routes refuse a mission that has one. |
| `GhostIsMoneyless` (`mission-lifecycle.ts:12-14`) | MissionPool | The sweep expires a mission whose hold was made and whose answer was lost. |
| `FailedIsUntold`, `UntoldIsMarked` | MissionPool | An attempt that timed out tells the travelers later; a process that dies after the unique row leaves a mission unmarked. |
| `UnpaidReservationEnds` (`funding-reconciliation.ts:8-14`) | Funding | A buyer who leaves at the bank's authentication leaves the PaymentIntent in `requires_action`, which `ABANDONED_PI_STATUSES` does not name: every pass skips it, and the mission stays FUNDED, unpaid and listed. |
| `PaidHoldNeverRolledBack` | Funding | The payer confirms between the look at the hold and the roll-back. |
| `TakenIsHeld` | Funding | A traveler takes a mission that is FUNDED and has no escrow yet. |
| `NotificationFailureBlocksNothing` | Funding | No funding route accepts NOTIFICATION_FAILED. |
| `FraudIsNeverPaid`, `DisputeStopsTimeout`, `CustomsLockIsUncaptured` | MissionLifecycle | A verdict, a dispute or a customs lock comes between a guard and its capture. |
| `InDisputeFreezesPayout` | MissionLifecycle | The watchdog freezes a mission whose /receive has captured; the webhook releases the escrow all the same. |
| `DisputedIsUnresolved`, `CardIsBacked`, `FrozenCard` | MissionDesk | A case can be resolved while the mission stays DISPUTED; the card is decided on the escrow's HELD alone, which outlives the hold and the freeze. |
| `GapIsABug` (`reconciliation.ts:53`), `OrphanIsReal` | Reconciliation | The tables are read one after the other: a booking in between shows as a gap, a transfer settled in between as an orphan. |
| `CaptureAlwaysKnown` (`reconciliation.ts:254-256`) | Reconciliation | An escrow older than the window of seven days is no longer looked at. |
| `TimeoutNeverSuspends` (`disputePenaltyWorker.ts:23-24`), `VerdictIsFinal`, `FailedIsTold` | InstructionPenalty | Charges whose answers were lost are attempts like others, and the last suspends; verdicts are written by id alone; a process that dies between the sweep and its report has marked a row FAILED that nobody is told of. |
| `OnlyRefusedPurged`, `SignedOutStaysOut`, `NeverAFormerList` | MobileSession | A late 401 of a former session ends the present one; the application is killed before the keychain forgot; a list asked for by a former session replaces the present one. |
| `BootAlwaysEnds` | ClientSessions | When reading and then clearing the keychain both fail, the splash screen stays. |
| `SignInSticks`, `SignOutSticks`, `DeletedIsOut` (`auth.route.ts:152-153`) | WebSession, ClientSessions | The answer to the question of the opening page overwrites a later login or sign-out; a page that asks no more does not notice a deletion. |
| `ConsumedOnce` (`auth.service.ts:53`) | MagicLink | Two verifications of one code both open a session when a new code was asked for between their writes. |
| `SlidingBound` (`rate-limit.ts:6`) | RateLimit | Windows are fixed: twice the maximum may pass about the end of one. |
| `PressedSettles`, `PageIsCurrent` | MissionPages | A form stays dark when the answer shows the status it was pressed in, to which the mission has returned; a page learns of others only when it asks. |
| `ValidatedIsTransient`, `RefundClosesEscrow` (under `FairSpec`) | MissionLifecycle | The capture is booked before VALIDATED is written; resolve-refund leaves the escrow HELD. |
| `AbandonedIsUndebited` | FraudPenalty | A debited penalty whose release fails three times is reported as never debited. |
| `NothingStranded` (under `FairSpec`) | DisputeRefund | A crash after the last claim leaves the event PENDING for ever: no pass claims it or gives it up; only the count of old pending rows in `monitoring/workerHealth.ts` shows it. |
| `OneIntention` | DisputeRefund | The enqueuing looks for an event and then locks the mission: two processes insert one each. |
| `SettledIsFinal` | DisputeRefund | The failure of a slow pass is written over the SETTLED of another. The hold is cancelled all the same (`RefundIsReal`). |
| `ClaimsAreBounded` | ReceiptSealing | Jobs taken back after fifteen minutes are claimed whatever their attempts. |

Read, not checked: the compensation worker's comment announces a growing delay
between attempts that its query does not have; `workers/reconciliation.ts:25-26`
speaks of a resumption of AWAITING_TRAVELER_ACCOUNT that the code does not contain.
The web sends /receive without the `innerQrCode` the route requires, and discards the one
that /ship returns once (`frontend/lib/api.ts:138`): its reception button is always
refused. Its button to accept a mission is never offered (`AcceptNeverOffered`), as the
mission is shown to participants only. The creation form makes a second mission when the
payment session fails after the first was created (`frontend/components/mission-form.tsx`).
`pay/page.tsx:28-30` says that a mission whose payer leaves the page stays FUNDED: so it does
if he had begun to authenticate himself, else the reconciliation gives it back. `mission.store.types.ts` documents optimistic mutations the
store does not have. No code writes a row of `Penalty`, and none calls `deleteAccount`.

## Abstractions, and what is left out

- A write to the database is done or not done; its lost acknowledgement is modelled
  where the code goes on after it (`lost_answer`), else as a crash of the process.
- Stripe is what the code relies on: a hold leaves its state once, a key answers as it
  did the first time, an answer may be lost, events come at least once in any order. The
  expiry of keys and of Checkout sessions after 24 hours and of holds after seven days is left
  out, as is the replay of an error under the same key.
- The extension that refuses writes to a closed escrow
  (`lib/prisma-extensions/escrow-guard.ts`) is the guard those writes have in the models.
- `Funding`: one mission, two PaymentIntents (one per route, by their idempotency keys),
  one instance of each pass; the search at Stripe is complete. `requires_confirmation` and
  `processing` are left out: the card form confirms in one go, and a card's payment with a
  later capture is decided when it is confirmed. `HoldIsTracked` is why
  the remaining branches of checkout.session.completed are never taken.
- `MissionLifecycle`: mission and escrow are read in one step, as the escrow never
  returns to HELD. A call that lands late is a slow request with a lost answer. The
  version conflict of /validate is a failed transaction. Failed payments are left to
  `EscrowWebhook`, the roll-back of a funding to `Funding`. A substitution request is only
  ever APPROVED when it is written, so the webhook's update of it matches no row.
- `MissionPool`: the matching of travelers is any choice of success, failure or delay of the
  notification; by default the code only logs it.
- `MissionDesk`: the card reads escrow and mission in one step. What Stripe's own spending
  controls add up is not modelled: `spent` is the largest amount approved. A version
  conflict is a call that does not write.
- `Reconciliation`: one mission; the two timeouts and the requeue that the same timer runs are
  in `MissionLifecycle`, `EscrowWebhook` and `TransferOutbox`.
- `InstructionPenalty`: starts from PENDING rows. Keys of Stripe outlive the retries.
- `MobileSession`: the keychain does its operations in the order asked. The list and its cache
  are shown while one is signed in; `App.tsx` does not mount that screen yet.
- `WebSession`: `AccountDeleted` stands for an operator. `MagicLink`: one address; a code is not
  guessed right by chance. `RateLimit`: one key; the database's clock is the instances' but for
  `MaxLag`.
- `MissionPages`: starts from CREATED, MATCHED and ESCROW_LOCKED_CUSTOMS. The card form
  of Stripe and the filters of the catalogue are not modelled; a filter's answers may be shown
  out of order.
- `FraudPenalty`: one mission and its one row.
- `BuyerCompensation`: the batch of ten is not modelled; rows wait for their turn anyway.
- `ReceiptSealing`: the batch of ten is not modelled. The take-back and the list of
  COMPLETED jobs are one step, as are the two reads and the writes that end a sealing:
  a job leaves COMPLETED only for good and a receipt is never removed, so what the first
  read saw of them is overtaken only in ways the last write notices. Image clean-up and the
  checks of the extracted receipt are one choice of a total or a failure.
- `DisputeRefund`: one mission; the batch limit is not modelled, nor is a mission without
  an escrow. PARTIALLY_REFUNDED is RELEASED, which the worker treats alike. Dispute routes and
  customs are left to `MissionLifecycle`. That an event inserted between the query's look
  for events and its lock goes unnoticed is how PostgreSQL evaluates that query at READ
  COMMITTED: it looks again at the locked row only.
- Not modelled, for good: the vision client, the stripping of image metadata, the patterns on
  text and the time-stamping (conversions of bytes, and exchanges without state: a choice of
  outcomes stands for them where they are called); passwords, profile, the registry of aliases
  and the clean-up helpers, the keep-alive ping, matching filters and paging; start-up, alerts
  and monitoring, which report; and forms, layout and wording.

## Plan

1. Done: escrow account, webhook, reconciliation, transfers, funding with pool, life cycle with
   desk, fraud penalty, compensation, receipts, dispute refund, instruction penalty and
   clients, with their proofs; the promise of an outbox, and the three that keep it.
2. Left: composition of receipt and webhook (the declared amount caps the payout) and of fraud
   penalty and compensation (the closing transaction writes the compensation row).

## How to run

    tlc -config MCMissionPool.cfg MCMissionPool
    tlapm FundingProofs.tla

`PROJECT.json` lists every run with its configuration, the lines each definition
stands for (`map`), the mutants, the hazards and the theorems.
