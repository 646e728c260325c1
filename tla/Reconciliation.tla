--------------------------- MODULE Reconciliation ---------------------------
(***************************************************************************)
(* runReconciliation, the daily pass that confronts the escrow, the ledger,  *)
(* the outbox of transfers and Stripe, beside the webhook of EscrowWebhook   *)
(* that moves them.  The pass runs in no transaction: each table is read on  *)
(* its own, Stripe is asked last, and what is compared was never true at one *)
(* moment.  It writes nothing but alerts.                                    *)
(***************************************************************************)
EXTENDS EscrowWebhook

VARIABLES
    settled,  \* the row of TransferOutbox is SETTLED
    recent,   \* the escrow was created within captureCheckWindowDays
    pass,     \* the pass under way: its next step, and what it has read
    raised    \* the alerts of the pass under way, or of the last one

cron == <<settled, recent, pass, raised>>
reconVars == <<vars, cron>>

Alert == {"CAPTURE_SUM", "OVERDRAWN", "UNBALANCED", "PAYOUT_NOT_SETTLED", "ORPHAN_TRANSFER",
          "CAPTURE_WITHOUT_LEDGER", "LEDGER_CAPTURE_NOT_CONFIRMED"}

NoPass == [step |-> "idle"]

ReconInit ==
    /\ Init
    /\ settled = FALSE /\ recent = TRUE
    /\ pass = NoPass /\ raised = {}

\* The only executor of transfers; nothing is settled without a row.
SettleTransfer ==
    /\ outbox # {} /\ ~settled
    /\ settled' = TRUE
    /\ UNCHANGED <<vars, recent, pass, raised>>

WindowPasses ==
    /\ recent
    /\ recent' = FALSE
    /\ UNCHANGED <<vars, settled, pass, raised>>

-----------------------------------------------------------------------------
(* One pass.                                                               *)

\* Every escrow is read; charged is what Stripe knew then, for the properties.
ReadEscrows ==
    /\ pass.step = "idle"
    /\ pass' = [step |-> "ledger", escrow |-> escrow, charged |-> pi.received > 0]
    /\ raised' = {}
    /\ UNCHANGED <<vars, settled, recent>>

\* Mutant: the commission is not counted.
OutflowNet(sums) == sums["PAYOUT"] + sums["REFUND"] + sums["BUYER_WALLET_CREDIT"]

OutflowOf(sums) ==
    sums["PAYOUT"] + sums["COMMISSION"] + sums["REFUND"] + sums["BUYER_WALLET_CREDIT"]

\* Invariants A, B and C of the header of reconciliation.ts.
Broken(row, sums) ==
    {a \in {"CAPTURE_SUM", "OVERDRAWN", "UNBALANCED"} :
       \/ a = "CAPTURE_SUM" /\ sums["CAPTURE"] # row.captured
       \/ a = "OVERDRAWN" /\ OutflowOf(sums) > sums["CAPTURE"]
       \/ /\ a = "UNBALANCED" /\ row.status \in {"RELEASED", "REFUNDED"}
          /\ OutflowOf(sums) # sums["CAPTURE"]}

\* The sums of the ledger by escrow and type, in one statement.
ReadLedger ==
    /\ pass.step = "ledger"
    /\ pass' = [step |-> "payouts", status |-> pass.escrow.status, charged |-> pass.charged,
                booked |-> cents["CAPTURE"]]
    /\ raised' = Broken(pass.escrow, cents)
    /\ UNCHANGED <<vars, settled, recent>>

\* The lines PAYOUT, read again one by one.
ReadPayouts ==
    /\ pass.step = "payouts"
    /\ pass' = [step |-> "outbox", status |-> pass.status, charged |-> pass.charged,
                booked |-> pass.booked, claimed |-> rows["PAYOUT"] > 0]
    /\ UNCHANGED <<vars, settled, recent, raised>>

\* A PAYOUT older than the grace period is reported until it is settled.
ReadOutbox ==
    /\ pass.step = "outbox"
    /\ \E graceIsOver \in BOOLEAN :
         raised' = raised
            \cup {a \in {"PAYOUT_NOT_SETTLED"} : pass.claimed /\ ~settled /\ graceIsOver}
            \cup {a \in {"ORPHAN_TRANSFER"} : settled /\ ~pass.claimed}
    /\ pass' = [step |-> "stripe", status |-> pass.status, charged |-> pass.charged,
                booked |-> pass.booked]
    /\ UNCHANGED <<vars, settled, recent>>

\* Mutant: only an escrow that is still open is confronted.
UnbookedOpen(answer) ==
    answer = "captured" /\ pass.booked = 0 /\ pass.status = "HELD"

\* Money Stripe has taken and the ledger does not know, or the other way round.
Unbooked(answer) ==
    answer = "captured" /\ pass.booked = 0 /\ pass.status # "RELEASED"
Unconfirmed(answer) == answer # "captured" /\ pass.booked > 0

StripeAnswers == IF pi.received > 0 THEN "captured" ELSE "uncaptured"

\* paymentIntents.retrieve, for a recent escrow; an error counts as an unknown hold.
AskStripe(answer) ==
    /\ pass.step = "stripe"
    /\ raised' = IF ~recent THEN raised
                 ELSE raised
                    \cup {a \in {"CAPTURE_WITHOUT_LEDGER"} : Unbooked(answer)}
                    \cup {a \in {"LEDGER_CAPTURE_NOT_CONFIRMED"} : Unconfirmed(answer)}
    /\ pass' = [step |-> "done", charged |-> pass.charged, answer |-> answer]
    /\ UNCHANGED <<vars, settled, recent>>

EndPass ==
    /\ pass.step = "done"
    /\ pass' = NoPass
    /\ UNCHANGED <<vars, settled, recent, raised>>

\* The process dies: what was to be reported after that is not.
DropPass ==
    /\ pass.step # "idle"
    /\ pass' = NoPass /\ raised' = {}
    /\ UNCHANGED <<vars, settled, recent>>

\* The pass goes on, and Stripe answers.
PassStep ==
    ReadEscrows \/ ReadLedger \/ ReadPayouts \/ ReadOutbox \/ AskStripe(StripeAnswers) \/ EndPass

ReconNext ==
    \/ Next /\ UNCHANGED cron
    \/ SettleTransfer \/ WindowPasses
    \/ PassStep \/ AskStripe("lost") \/ DropPass

ReconSpec == ReconInit /\ [][ReconNext]_reconVars

\* The cron runs again, and some pass is neither cut short nor left unanswered.
ReconFairSpec ==
    /\ ReconSpec
    /\ WF_reconVars(ReadEscrows) /\ SF_reconVars(ReadLedger) /\ SF_reconVars(ReadPayouts)
    /\ SF_reconVars(ReadOutbox) /\ SF_reconVars(AskStripe(StripeAnswers)) /\ WF_reconVars(EndPass)

-----------------------------------------------------------------------------
(* Properties.                                                             *)

ReconTypeOK ==
    /\ TypeOK
    /\ settled \in BOOLEAN /\ recent \in BOOLEAN
    /\ raised \subseteq Alert
    /\ pass.step \in {"idle", "ledger", "payouts", "outbox", "stripe", "done"}

\* Though the tables are read at different moments, between which deliveries
\* commit, a pass never reports an account that is overdrawn or unbalanced for
\* one that is not, nor claims a payout for which no transfer was ordered, nor
\* doubts a capture unless Stripe did not answer.
AlarmIsReal ==
    /\ raised \cap {"OVERDRAWN", "UNBALANCED"} = {}
    /\ "PAYOUT_NOT_SETTLED" \in raised => outbox # {}
    /\ "LEDGER_CAPTURE_NOT_CONFIRMED" \in raised /\ pass.step = "done" =>
          pass.answer = "lost"

\* Money that Stripe had taken when the pass began, and that is in no ledger when
\* it ends, was reported by it, whoever closed the escrow meanwhile.
UnbookedIsReported ==
    /\ pass.step = "done" /\ pass.charged /\ pass.answer = "captured" /\ recent
    /\ escrow.captured = 0
    => "CAPTURE_WITHOUT_LEDGER" \in raised

\* A pass accuses nobody wrongly and overlooks no capture.
AlarmsAreRight == AlarmIsReal /\ UnbookedIsReported

\* Whatever becomes of the event of a capture, aborted under the customs lock or
\* refused on a cancelled escrow, the money is booked or somebody is told.
CaptureEventuallyKnown ==
    pi.status = "succeeded" ~>
        \/ escrow.captured = pi.received
        \/ "CAPTURE_WITHOUT_LEDGER" \in raised
        \/ ~recent

-----------------------------------------------------------------------------
(* What the code or its comments say, and the code does not do.             *)

\* Every gap is a bug to investigate, not a passing state.
GapIsABug == "CAPTURE_SUM" \notin raised

\* A settled transfer without its PAYOUT is an orphan.
OrphanIsReal == "ORPHAN_TRANSFER" \notin raised

\* The control that makes visible a capture that was never booked.
CaptureAlwaysKnown ==
    pi.status = "succeeded" ~>
        escrow.captured = pi.received \/ "CAPTURE_WITHOUT_LEDGER" \in raised
=============================================================================
