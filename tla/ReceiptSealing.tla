--------------------------- MODULE ReceiptSealing ---------------------------
(***************************************************************************)
(* From the photograph of a receipt to the sealed Receipt of a mission.      *)
(* The traveler uploads images; each becomes a job of the outbox.  A pass of *)
(* the worker takes back jobs that were left in PROCESSING, seals jobs that  *)
(* were left COMPLETED, then lists the pending ones and, one by one, claims, *)
(* extracts (a call outside any transaction) and seals.  Meanwhile the       *)
(* traveler may ship, which declares the purchase amount, or seal a receipt  *)
(* by hand.  Several processes run the worker.                               *)
(***************************************************************************)
EXTENDS Integers

CONSTANTS
    Job,         \* the uploads of one mission
    Instance,    \* the processes that run the worker
    Amount,      \* totals in cents
    MaxAttempts  \* MAX_ATTEMPTS, 4 in the code

ASSUME ReceiptAssumption ==
    /\ MaxAttempts \in Nat \ {0}
    /\ Amount \subseteq Nat
    /\ {"none", "traveler"} \cap Job = {}

VARIABLES
    mission,   \* Mission.status
    declared,  \* Mission.purchaseAmountCents
    receipt,   \* the Receipt of the mission: who sealed it, and its total
    job,       \* ReceiptExtractionOutbox; a count of attempts stops at MaxAttempts
    stale,     \* jobs whose row was not touched for STALE_PROCESSING_MS
    pass       \* what each process is doing

vars == <<mission, declared, receipt, job, stale, pass>>

None == "none"

\* No amount is given or read.
Unknown == -1

NoReceipt == [by |-> None, total |-> Unknown]

NoPass == [phase |-> "idle", todo |-> {}, seen |-> [j \in Job |-> 0],
           step |-> "next", job |-> None, declared |-> Unknown]

Init ==
    /\ mission = "MATCHED"
    /\ declared = Unknown
    /\ receipt = NoReceipt
    /\ job = [j \in Job |-> [status |-> "absent", attempts |-> 0, total |-> Unknown]]
    /\ stale = {}
    /\ pass = [i \in Instance |-> NoPass]

With(status) == {j \in Job : job[j].status = status}

-----------------------------------------------------------------------------
(* The routes.                                                              *)

Upload(j) ==
    /\ job[j].status = "absent"
    /\ job' = [job EXCEPT ![j].status = "PENDING"]
    /\ UNCHANGED <<mission, declared, receipt, stale, pass>>

Ship ==
    /\ mission = "MATCHED"
    /\ mission' = "IN_PROGRESS"
    /\ declared' \in Amount
    /\ UNCHANGED <<receipt, job, stale, pass>>

StartTravel ==
    /\ mission = "MATCHED"
    /\ mission' = "IN_PROGRESS"
    /\ UNCHANGED <<declared, receipt, job, stale, pass>>

\* /submit-receipt: the unique index admits the first receipt only.
SubmitReceipt ==
    /\ mission = "IN_PROGRESS" /\ receipt = NoReceipt
    /\ mission' = "AWAITING_VALIDATION"
    /\ \E total \in Amount : receipt' = [by |-> "traveler", total |-> total]
    /\ UNCHANGED <<declared, job, stale, pass>>

DropOff ==
    /\ mission = "IN_PROGRESS"
    /\ mission' = "AWAITING_VALIDATION"
    /\ UNCHANGED <<declared, receipt, job, stale, pass>>

-----------------------------------------------------------------------------
(* A pass of the worker.                                                    *)

\* Mutant: jobs left COMPLETED are not sealed.
StartUnsealed(i) ==
    /\ pass[i] = NoPass
    /\ job' = [j \in Job |->
         IF j \in stale THEN [job[j] EXCEPT !.status = "PENDING"] ELSE job[j]]
    /\ stale' = {}
    /\ pass' = [pass EXCEPT ![i] = [NoPass EXCEPT !.phase = "orphans"]]
    /\ UNCHANGED <<mission, declared, receipt>>

Start(i) ==
    /\ pass[i] = NoPass
    /\ job' = [j \in Job |->
         IF j \in stale THEN [job[j] EXCEPT !.status = "PENDING"] ELSE job[j]]
    /\ stale' = {}
    /\ pass' = [pass EXCEPT ![i] = [NoPass EXCEPT !.phase = "orphans", !.todo = With("COMPLETED")]]
    /\ UNCHANGED <<mission, declared, receipt>>

\* The list is read once: its jobs may change before their turn comes.
ListPending(i) ==
    /\ pass[i].phase = "orphans" /\ pass[i].todo = {} /\ pass[i].step = "next"
    /\ pass' = [pass EXCEPT ![i] =
         [NoPass EXCEPT !.phase = "jobs", !.todo = With("PENDING"),
            !.seen = [j \in Job |-> IF job[j].status = "PENDING" THEN job[j].attempts ELSE 0]]]
    /\ UNCHANGED <<mission, declared, receipt, job, stale>>

Finish(i) ==
    /\ pass[i].phase = "jobs" /\ pass[i].todo = {} /\ pass[i].step = "next"
    /\ pass' = [pass EXCEPT ![i] = NoPass]
    /\ UNCHANGED <<mission, declared, receipt, job, stale>>

\* The pass goes on to the next job of its list.
Leave(i, j) ==
    pass' = [pass EXCEPT ![i] =
               [pass[i] EXCEPT !.todo = pass[i].todo \ {j}, !.seen[j] = 0,
                               !.step = "next", !.job = None, !.declared = Unknown]]

Counted(attempts) == IF attempts < MaxAttempts THEN attempts + 1 ELSE attempts

Claim(i, j) ==
    /\ pass[i].phase = "jobs" /\ pass[i].step = "next" /\ j \in pass[i].todo
    /\ \/ /\ job[j].status = "PENDING"
          /\ job' = [job EXCEPT ![j].status = "PROCESSING",
                                ![j].attempts = Counted(@)]
          /\ pass' = [pass EXCEPT ![i].step = "extract", ![i].job = j]
       \/ /\ job[j].status # "PENDING"
          /\ Leave(i, j)
          /\ UNCHANGED job
    /\ UNCHANGED <<mission, declared, receipt, stale>>

\* A verdict finds its row in PROCESSING, or is lost.
Verdict(j, status, total) ==
    IF job[j].status = "PROCESSING"
    THEN /\ job' = [job EXCEPT ![j].status = status, ![j].total = total]
         /\ stale' = stale \ {j}
    ELSE UNCHANGED <<job, stale>>

\* The extraction returns a total; or it fails for good; or it fails, for good only
\* at the last of the attempts that the list knew of.
Extract(i, j) ==
    /\ pass[i].step = "extract" /\ pass[i].job = j
    /\ \/ /\ \E total \in Amount : Verdict(j, "COMPLETED", total)
          /\ pass' = [pass EXCEPT ![i].step = "seal"]
       \/ /\ \/ Verdict(j, "FAILED", Unknown)
             \/ pass[i].seen[j] + 1 < MaxAttempts /\ Verdict(j, "PENDING", Unknown)
          /\ Leave(i, j)
    /\ UNCHANGED <<mission, declared, receipt>>

\* The first read of the sealing transaction: the job and its mission.
ReadForSeal(i, j) ==
    /\ \/ pass[i].phase = "orphans" /\ pass[i].step = "next" /\ j \in pass[i].todo
       \/ pass[i].step = "seal" /\ pass[i].job = j
    /\ IF job[j].status = "COMPLETED"
       THEN pass' = [pass EXCEPT ![i].step = "commit", ![i].job = j, ![i].declared = declared]
       ELSE Leave(i, j)
    /\ UNCHANGED <<mission, declared, receipt, job, stale>>

\* Mutant: the job is not asked for again when the receipt is written.
SealRace(i, j) ==
    /\ pass[i].step = "commit" /\ pass[i].job = j
    /\ IF pass[i].declared # job[j].total \/ receipt # NoReceipt
       THEN /\ job' = IF job[j].status = "COMPLETED"
                      THEN [job EXCEPT ![j].status = "FAILED"] ELSE job
            /\ UNCHANGED receipt
       ELSE /\ receipt' = [by |-> j, total |-> job[j].total]
            /\ job' = IF job[j].status = "COMPLETED"
                      THEN [job EXCEPT ![j].status = "CONSUMED"] ELSE job
    /\ Leave(i, j)
    /\ UNCHANGED <<mission, declared, stale>>

\* The second half: the total is not the one declared, or a receipt is there
\* already, be it seen by the second read or by the unique index; or the receipt
\* is created.  A job that has left COMPLETED keeps its status, and the receipt is
\* rolled back.
Seal(i, j) ==
    /\ pass[i].step = "commit" /\ pass[i].job = j
    /\ IF job[j].status # "COMPLETED"
       THEN UNCHANGED <<job, receipt>>
       ELSE IF pass[i].declared # job[j].total \/ receipt # NoReceipt
       THEN job' = [job EXCEPT ![j].status = "FAILED"] /\ UNCHANGED receipt
       ELSE /\ job' = [job EXCEPT ![j].status = "CONSUMED"]
            /\ receipt' = [by |-> j, total |-> job[j].total]
    /\ Leave(i, j)
    /\ UNCHANGED <<mission, declared, stale>>

\* The sealing fails: its transaction is rolled back, and the pass goes on.
SealFails(i, j) ==
    /\ \/ pass[i].phase = "orphans" /\ pass[i].step = "next" /\ j \in pass[i].todo
       \/ pass[i].step \in {"seal", "commit"} /\ pass[i].job = j
    /\ Leave(i, j)
    /\ UNCHANGED <<mission, declared, receipt, job, stale>>

\* The process dies, or a statement fails and ends the pass.
Crash(i) ==
    /\ pass[i] # NoPass
    /\ pass' = [pass EXCEPT ![i] = NoPass]
    /\ UNCHANGED <<mission, declared, receipt, job, stale>>

\* Fifteen minutes; the worker that claimed the job may be alive and slow.
TimePasses(j) ==
    /\ job[j].status = "PROCESSING" /\ j \notin stale
    /\ stale' = stale \cup {j}
    /\ UNCHANGED <<mission, declared, receipt, job, pass>>

Work(i, j) ==
    \/ Claim(i, j) \/ Extract(i, j)
    \/ ReadForSeal(i, j) \/ Seal(i, j) \/ SealFails(i, j)

Next ==
    \/ Ship \/ StartTravel \/ SubmitReceipt \/ DropOff
    \/ \E j \in Job : Upload(j) \/ TimePasses(j)
    \/ \E i \in Instance :
         \/ Start(i) \/ ListPending(i) \/ Finish(i) \/ Crash(i)
         \/ \E j \in Job : Work(i, j)

Spec == Init /\ [][Next]_vars

\* Some process runs: a pass is started every minute, not every one dies before a
\* given step, and not every extraction outlasts the fifteen minutes.
FairSpec ==
    /\ Spec
    /\ WF_vars(\E i \in Instance : Start(i) \/ Finish(i))
    /\ SF_vars(\E i \in Instance : ListPending(i))
    /\ \A j \in Job :
         /\ WF_vars(TimePasses(j))
         /\ SF_vars(\E i \in Instance : Claim(i, j))
         /\ SF_vars(job[j].status = "PROCESSING" /\ \E i \in Instance : Extract(i, j))
         /\ SF_vars(\E i \in Instance : ReadForSeal(i, j))
         /\ SF_vars(\E i \in Instance : Seal(i, j))

-----------------------------------------------------------------------------
(* Properties.                                                             *)

Final == {"CONSUMED", "FAILED"}

\* Jobs, receipt and passes have their types.
TypeOK ==
    /\ mission \in {"MATCHED", "IN_PROGRESS", "AWAITING_VALIDATION"}
    /\ declared \in Amount \cup {Unknown}
    /\ receipt \in [by: Job \cup {"traveler", None}, total: Amount \cup {Unknown}]
    /\ job \in [Job -> [status: {"absent", "PENDING", "PROCESSING", "COMPLETED"} \cup Final,
                        attempts: 0..MaxAttempts, total: Amount \cup {Unknown}]]
    /\ stale \subseteq With("PROCESSING")
    /\ pass \in [Instance -> [phase: {"idle", "orphans", "jobs"}, todo: SUBSET Job,
                              seen: [Job -> 0..MaxAttempts],
                              step: {"next", "extract", "seal", "commit"},
                              job: Job \cup {None}, declared: Amount \cup {Unknown}]]

\* A receipt sealed from an image belongs to one job, the only consumed one, and
\* says what the image and the traveler's declaration both say: whatever worker
\* took over the job, and whatever the traveler did meanwhile.
ReceiptHasItsJob ==
    \A j \in Job :
        /\ job[j].status = "CONSUMED" <=> receipt.by = j
        /\ receipt.by = j => receipt.total = job[j].total /\ receipt.total = declared

\* A sealed receipt is never changed and a job that is consumed or failed is never
\* taken up again, though workers overlap and verdicts come late.
FinalIsFinal ==
    [][/\ receipt # NoReceipt => receipt' = receipt
       /\ \A j \in Job : job[j].status \in Final => job'[j] = job[j]]_vars

\* Every upload is sealed or refused, wherever the workers die.
EventuallyDecided == \A j \in Job : job[j].status # "absent" ~> job[j].status \in Final

-----------------------------------------------------------------------------
(* What the code, its comments or the schema say, and the code does not do. *)

\* What the worker says of MAX_ATTEMPTS, a bound on the attempts: no job is
\* claimed once it has been claimed that often.
ClaimsAreBounded ==
    [][\A j \in Job : job[j].attempts = MaxAttempts /\ job[j].status = "PENDING"
                        => job'[j].status # "PROCESSING"]_vars
=============================================================================
