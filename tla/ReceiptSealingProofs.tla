------------------------ MODULE ReceiptSealingProofs ------------------------
(***************************************************************************)
(* What the receipt worker guarantees, for any number of uploads, processes  *)
(* and attempts.  That a receipt says what its mission declares is not       *)
(* inductive: the declaration is read in one statement and the receipt       *)
(* written in a later one.  It holds because the amount is declared once,    *)
(* and a worker that has read one has read that one.                         *)
(***************************************************************************)
EXTENDS ReceiptSealing, TLAPS

JobType == [status: {"absent", "PENDING", "PROCESSING", "COMPLETED"} \cup Final,
            attempts: 0..MaxAttempts, total: Amount \cup {Unknown}]

PassType == [phase: {"idle", "orphans", "jobs"}, todo: SUBSET Job, seen: [Job -> 0..MaxAttempts],
             step: {"next", "extract", "seal", "commit"},
             job: Job \cup {None}, declared: Amount \cup {Unknown}]

DeclaredOnce == declared # Unknown => mission # "MATCHED"

TotalKnown ==
    \A j \in Job : job[j].status \in {"COMPLETED", "CONSUMED"} => job[j].total # Unknown

ReadIsCurrent == \A i \in Instance : pass[i].declared # Unknown => pass[i].declared = declared

IInv == TypeOK /\ ReceiptHasItsJob /\ DeclaredOnce /\ TotalKnown /\ ReadIsCurrent

LEMMA NoPassTyped == NoPass \in PassType
<1>. [j \in Job |-> 0] \in [Job -> 0..MaxAttempts]
  BY ReceiptAssumption
<1>. QED BY DEF NoPass, PassType

LEMMA InitIInv == Init => IInv
<1>. SUFFICES ASSUME Init PROVE IInv
  OBVIOUS
<1>1. TypeOK
  <2>1. job \in [Job -> JobType]
    BY ReceiptAssumption DEF Init, JobType
  <2>2. pass \in [Instance -> PassType]
    BY NoPassTyped DEF Init
  <2>3. receipt \in [by: Job \cup {"traveler", None}, total: Amount \cup {Unknown}]
    BY DEF Init, NoReceipt
  <2>. QED BY <2>1, <2>2, <2>3 DEF Init, TypeOK, JobType, PassType, With
<1>2. ReceiptHasItsJob
  BY ReceiptAssumption DEF Init, ReceiptHasItsJob, NoReceipt, None
<1>3. DeclaredOnce /\ TotalKnown /\ ReadIsCurrent
  BY DEF Init, DeclaredOnce, TotalKnown, ReadIsCurrent, NoPass
<1>. QED BY <1>1, <1>2, <1>3 DEF IInv

\* The type invariant, with the types of its rows by name.
LEMMA Types ==
    TypeOK <=>
      /\ mission \in {"MATCHED", "IN_PROGRESS", "AWAITING_VALIDATION"}
      /\ declared \in Amount \cup {Unknown}
      /\ receipt \in [by: Job \cup {"traveler", None}, total: Amount \cup {Unknown}]
      /\ job \in [Job -> JobType]
      /\ stale \subseteq With("PROCESSING")
      /\ pass \in [Instance -> PassType]
  BY DEF TypeOK, JobType, PassType

\* Going on to the next job keeps the type of a pass, and forgets what was read.
LEMMA LeaveTyped ==
    ASSUME pass \in [Instance -> PassType], NEW i \in Instance, NEW j \in Job, Leave(i, j)
    PROVE  /\ pass' \in [Instance -> PassType]
           /\ pass'[i].declared = Unknown
           /\ \A k \in Instance \ {i} : pass'[k] = pass[k]
<1>. DEFINE p == [pass[i] EXCEPT !.todo = pass[i].todo \ {j}, !.seen[j] = 0,
                                 !.step = "next", !.job = None, !.declared = Unknown]
<1>1. pass[i] \in PassType
  OBVIOUS
<1>2. [pass[i].seen EXCEPT ![j] = 0] \in [Job -> 0..MaxAttempts]
  BY <1>1, ReceiptAssumption DEF PassType
<1>3. p \in PassType /\ p.declared = Unknown
  BY <1>1, <1>2 DEF PassType
<1>4. pass' = [pass EXCEPT ![i] = p]
  BY DEF Leave
<1>. HIDE DEF p
<1>. QED BY <1>3, <1>4

\* So does the next step on a job, whatever declaration was read for it.
LEMMA StepTyped ==
    ASSUME pass \in [Instance -> PassType], NEW i \in Instance,
           NEW p \in PassType, pass' = [pass EXCEPT ![i] = p]
    PROVE  /\ pass' \in [Instance -> PassType]
           /\ \A k \in Instance : pass'[k] = IF k = i THEN p ELSE pass[k]
  OBVIOUS

\* A step of the worker that moves a job from one open status to another, and no
\* receipt, keeps what relates receipt and jobs.
LEMMA OpenMove ==
    ASSUME IInv, UNCHANGED <<receipt, declared>>,
           \A j \in Job : job'[j] = job[j] \/ (job[j].status # "CONSUMED" /\ job'[j].status # "CONSUMED")
    PROVE  ReceiptHasItsJob'
  BY DEF IInv, ReceiptHasItsJob

LEMMA StepIInv == IInv /\ [Next]_vars => IInv'
<1>. SUFFICES ASSUME IInv, [Next]_vars PROVE IInv'
  OBVIOUS
<1>0. /\ job \in [Job -> JobType] /\ pass \in [Instance -> PassType]
      /\ declared \in Amount \cup {Unknown}
      /\ stale \subseteq With("PROCESSING")
  BY Types DEF IInv
<1>1. ASSUME NEW j \in Job, Upload(j) PROVE IInv'
  <2>1. job' = [job EXCEPT ![j].status = "PENDING"] /\ job[j].status = "absent"
        /\ UNCHANGED <<mission, declared, receipt, stale, pass>>
    BY <1>1 DEF Upload
  <2>2. job' \in [Job -> JobType]
    BY <1>0, <2>1 DEF JobType
  <2>3. \A k \in Job : job'[k] = IF k = j THEN [job[j] EXCEPT !.status = "PENDING"] ELSE job[k]
    BY <1>0, <2>1
  <2>4. job'[j].status = "PENDING"
    BY <1>0, <2>3 DEF JobType
  <2>5. stale' \subseteq With("PROCESSING")'
    BY <1>0, <2>1, <2>3 DEF With
  <2>6. TypeOK'
    BY <2>1, <2>2, <2>5, Types DEF IInv, TypeOK, JobType, PassType
  <2>7. ReceiptHasItsJob'
    BY <2>1, <2>3, <2>4, OpenMove
  <2>. QED BY <2>1, <2>3, <2>4, <2>6, <2>7
           DEF IInv, DeclaredOnce, TotalKnown, ReadIsCurrent
<1>2. CASE Ship
  <2>1. declared = Unknown
    BY <1>2 DEF Ship, IInv, DeclaredOnce
  <2>2. \A j \in Job : job[j].status # "CONSUMED" /\ receipt.by # j
    BY <2>1 DEF IInv, ReceiptHasItsJob, TotalKnown
  <2>3. TypeOK'
    BY <1>2 DEF Ship, IInv, TypeOK, With
  <2>4. ReceiptHasItsJob' /\ DeclaredOnce' /\ TotalKnown'
    BY <1>2, <2>2 DEF Ship, IInv, ReceiptHasItsJob, DeclaredOnce, TotalKnown
  <2>5. ReadIsCurrent'
    BY <1>2, <2>1 DEF Ship, IInv, ReadIsCurrent
  <2>. QED BY <2>3, <2>4, <2>5 DEF IInv
<1>3. CASE StartTravel \/ DropOff
  <2>1. TypeOK'
    BY <1>3 DEF StartTravel, DropOff, IInv, TypeOK, With
  <2>. QED BY <1>3, <2>1 DEF StartTravel, DropOff, IInv, ReceiptHasItsJob, DeclaredOnce,
                             TotalKnown, ReadIsCurrent
<1>4. CASE SubmitReceipt
  <2>1. receipt'.by = "traveler" /\ receipt.by = None
    BY <1>4 DEF SubmitReceipt, NoReceipt
  <2>2. \A j \in Job : j # None /\ j # "traveler"
    BY ReceiptAssumption DEF None
  <2>3. ReceiptHasItsJob'
    BY <1>4, <2>1, <2>2 DEF SubmitReceipt, IInv, ReceiptHasItsJob
  <2>4. TypeOK'
    BY <1>4 DEF SubmitReceipt, IInv, TypeOK, With
  <2>. QED BY <1>4, <2>3, <2>4 DEF SubmitReceipt, IInv, DeclaredOnce, TotalKnown, ReadIsCurrent
<1>5. ASSUME NEW j \in Job, TimePasses(j) PROVE IInv'
  <2>1. TypeOK'
    BY <1>5 DEF TimePasses, IInv, TypeOK, With
  <2>. QED BY <1>5, <2>1 DEF TimePasses, IInv, ReceiptHasItsJob, DeclaredOnce, TotalKnown, ReadIsCurrent
<1>6. ASSUME NEW i \in Instance, Start(i) PROVE IInv'
  <2>. DEFINE p == [NoPass EXCEPT !.phase = "orphans", !.todo = With("COMPLETED")]
  <2>1. p \in PassType /\ p.declared = Unknown
    BY NoPassTyped DEF PassType, With, NoPass
  <2>2. pass' = [pass EXCEPT ![i] = p] /\ UNCHANGED <<mission, declared, receipt>> /\ stale' = {}
    BY <1>6 DEF Start
  <2>. HIDE DEF p
  <2>3. pass' \in [Instance -> PassType] /\ ReadIsCurrent'
    BY <1>0, <2>1, <2>2 DEF IInv, ReadIsCurrent
  <2>4. \A j \in Job : job'[j] = IF j \in stale THEN [job[j] EXCEPT !.status = "PENDING"] ELSE job[j]
    BY <1>6 DEF Start
  <2>5. \A j \in Job : /\ job'[j] \in JobType
                       /\ job'[j] = job[j] \/ (job[j].status = "PROCESSING" /\ job'[j].status = "PENDING")
    BY <1>0, <2>4 DEF JobType, With
  <2>6. job' \in [Job -> JobType]
    BY <1>6, <2>5 DEF Start
  <2>7. ReceiptHasItsJob'
    BY <2>2, <2>5, OpenMove
  <2>8. TypeOK'
    BY <2>2, <2>3, <2>6 DEF IInv, TypeOK, JobType, PassType
  <2>. QED BY <2>2, <2>3, <2>5, <2>7, <2>8 DEF IInv, DeclaredOnce, TotalKnown
<1>7. ASSUME NEW i \in Instance, ListPending(i) \/ Finish(i) \/ Crash(i) PROVE IInv'
  <2>1. UNCHANGED <<mission, declared, receipt, job, stale>>
    BY <1>7 DEF ListPending, Finish, Crash
  <2>2. PICK p \in PassType : pass' = [pass EXCEPT ![i] = p] /\ p.declared = Unknown
    <3>1. CASE ListPending(i)
      <4>. DEFINE seen == [j \in Job |-> IF job[j].status = "PENDING" THEN job[j].attempts ELSE 0]
      <4>1. seen \in [Job -> 0..MaxAttempts]
        BY <1>0, ReceiptAssumption DEF JobType
      <4>. HIDE DEF seen
      <4>2. [NoPass EXCEPT !.phase = "jobs", !.todo = With("PENDING"), !.seen = seen] \in PassType
        BY <4>1, NoPassTyped DEF PassType, With
      <4>. QED BY <3>1, <4>2 DEF ListPending, NoPass, seen
    <3>2. CASE Finish(i) \/ Crash(i)
      BY <3>2, NoPassTyped DEF Finish, Crash, NoPass
    <3>. QED BY <1>7, <3>1, <3>2
  <2>3. pass' \in [Instance -> PassType] /\ ReadIsCurrent'
    BY <1>0, <2>1, <2>2 DEF IInv, ReadIsCurrent
  <2>4. TypeOK'
    BY <2>1, <2>3 DEF IInv, TypeOK, PassType, With
  <2>. QED BY <2>1, <2>3, <2>4 DEF IInv, ReceiptHasItsJob, DeclaredOnce, TotalKnown
<1>8. ASSUME NEW i \in Instance, NEW j \in Job, Claim(i, j) PROVE IInv'
  <2>1. UNCHANGED <<mission, declared, receipt, stale>>
    BY <1>8 DEF Claim
  <2>2. CASE /\ job[j].status = "PENDING"
             /\ job' = [job EXCEPT ![j].status = "PROCESSING",
                                   ![j].attempts = Counted(@)]
             /\ pass' = [pass EXCEPT ![i].step = "extract", ![i].job = j]
    <3>0. Counted(job[j].attempts) \in 0..MaxAttempts
      BY <1>0, ReceiptAssumption DEF Counted, JobType
    <3>1. \A k \in Job : /\ job'[k] \in JobType
                         /\ job'[k] = job[k]
                            \/ (job[k].status = "PENDING" /\ job'[k].status = "PROCESSING")
      BY <1>0, <2>2, <3>0 DEF JobType
    <3>2. job' \in [Job -> JobType]
      BY <2>2, <3>1, <1>0
    <3>. DEFINE p == [pass[i] EXCEPT !.step = "extract", !.job = j]
    <3>3. p \in PassType /\ p.declared = pass[i].declared
      BY <1>0 DEF PassType
    <3>4. /\ pass' \in [Instance -> PassType]
          /\ \A k \in Instance : pass'[k].declared = pass[k].declared
      <4>1. pass' = [pass EXCEPT ![i] = p]
        BY <2>2
      <4>. HIDE DEF p
      <4>. QED BY <1>0, <3>3, <4>1, StepTyped
    <3>5. stale' \subseteq With("PROCESSING")'
      BY <1>0, <2>1, <3>1 DEF With
    <3>6. TypeOK'
      BY <2>1, <3>2, <3>4, <3>5 DEF IInv, TypeOK, JobType, PassType
    <3>7. ReceiptHasItsJob'
      BY <2>1, <3>1, OpenMove
    <3>. QED BY <2>1, <3>1, <3>4, <3>6, <3>7 DEF IInv, DeclaredOnce, TotalKnown, ReadIsCurrent
  <2>3. CASE Leave(i, j) /\ UNCHANGED job
    <3>1. pass' \in [Instance -> PassType] /\ ReadIsCurrent'
      BY <1>0, <2>1, <2>3, LeaveTyped DEF IInv, ReadIsCurrent
    <3>2. TypeOK'
      BY <2>1, <2>3, <3>1 DEF IInv, TypeOK, PassType, With
    <3>. QED BY <2>1, <2>3, <3>1, <3>2 DEF IInv, ReceiptHasItsJob, DeclaredOnce, TotalKnown
  <2>. QED BY <1>8, <2>2, <2>3 DEF Claim
<1>9. ASSUME NEW i \in Instance, NEW j \in Job, Extract(i, j) PROVE IInv'
  <2>1. UNCHANGED <<mission, declared, receipt>>
    BY <1>9 DEF Extract
  <2>2. PICK status \in {"COMPLETED", "FAILED", "PENDING"}, total \in Amount \cup {Unknown} :
           Verdict(j, status, total) /\ (status = "COMPLETED" => total \in Amount)
    BY <1>9 DEF Extract
  <2>3. \A k \in Job :
          /\ job'[k] \in JobType
          /\ job'[k] = job[k] \/ (job[k].status = "PROCESSING" /\ job'[k].status = status
                                    /\ job'[k].total = total /\ k \notin stale')
    BY <1>0, <2>2 DEF Verdict, JobType, Final
  <2>4. job' \in [Job -> JobType] /\ stale' \subseteq stale
    BY <1>0, <2>2, <2>3 DEF Verdict
  <2>5. pass' \in [Instance -> PassType] /\ ReadIsCurrent'
    <3>1. CASE pass' = [pass EXCEPT ![i].step = "seal"]
      <4>. DEFINE p == [pass[i] EXCEPT !.step = "seal"]
      <4>1. p \in PassType /\ p.declared = pass[i].declared
        BY <1>0 DEF PassType
      <4>2. pass' = [pass EXCEPT ![i] = p]
        BY <3>1
      <4>. HIDE DEF p
      <4>. QED BY <1>0, <2>1, <4>1, <4>2, StepTyped DEF IInv, ReadIsCurrent
    <3>2. CASE Leave(i, j)
      BY <1>0, <2>1, <3>2, LeaveTyped DEF IInv, ReadIsCurrent
    <3>. QED BY <1>9, <3>1, <3>2 DEF Extract
  <2>6. stale' \subseteq With("PROCESSING")'
    BY <1>0, <2>3, <2>4 DEF With
  <2>7. TypeOK'
    BY <2>1, <2>4, <2>5, <2>6 DEF IInv, TypeOK, JobType, PassType
  <2>8. ReceiptHasItsJob'
    BY <2>1, <2>3, OpenMove
  <2>9. TotalKnown'
    BY <2>2, <2>3, ReceiptAssumption DEF IInv, TotalKnown, Unknown
  <2>. QED BY <2>1, <2>5, <2>7, <2>8, <2>9 DEF IInv, DeclaredOnce
<1>10. ASSUME NEW i \in Instance, NEW j \in Job, ReadForSeal(i, j) PROVE IInv'
  <2>1. UNCHANGED <<mission, declared, receipt, job, stale>>
    BY <1>10 DEF ReadForSeal
  <2>2. pass' \in [Instance -> PassType] /\ ReadIsCurrent'
    <3>1. CASE pass' = [pass EXCEPT ![i].step = "commit", ![i].job = j, ![i].declared = declared]
      <4>. DEFINE p == [pass[i] EXCEPT !.step = "commit", !.job = j, !.declared = declared]
      <4>1. p \in PassType /\ p.declared = declared
        BY <1>0 DEF PassType
      <4>2. pass' = [pass EXCEPT ![i] = p]
        BY <3>1
      <4>. HIDE DEF p
      <4>. QED BY <1>0, <2>1, <4>1, <4>2, StepTyped DEF IInv, ReadIsCurrent
    <3>2. CASE Leave(i, j)
      BY <1>0, <2>1, <3>2, LeaveTyped DEF IInv, ReadIsCurrent
    <3>. QED BY <1>10, <3>1, <3>2 DEF ReadForSeal
  <2>3. TypeOK'
    BY <2>1, <2>2 DEF IInv, TypeOK, PassType, With
  <2>. QED BY <2>1, <2>2, <2>3 DEF IInv, ReceiptHasItsJob, DeclaredOnce, TotalKnown
<1>11. ASSUME NEW i \in Instance, NEW j \in Job, Seal(i, j) PROVE IInv'
  <2>1. UNCHANGED <<mission, declared, stale>> /\ Leave(i, j)
    BY <1>11 DEF Seal
  <2>2. pass' \in [Instance -> PassType] /\ ReadIsCurrent'
    BY <1>0, <2>1, LeaveTyped DEF IInv, ReadIsCurrent
  <2>3. CASE UNCHANGED <<job, receipt>>
    <3>1. TypeOK'
      BY <2>1, <2>2, <2>3 DEF IInv, TypeOK, PassType, With
    <3>. QED BY <2>1, <2>2, <2>3, <3>1 DEF IInv, ReceiptHasItsJob, DeclaredOnce, TotalKnown
  <2>4. ASSUME NEW status \in Final, job[j].status = "COMPLETED",
               job' = [job EXCEPT ![j].status = status]
        PROVE  /\ job' \in [Job -> JobType] /\ TotalKnown'
               /\ stale' \subseteq With("PROCESSING")'
               /\ \A k \in Job : job'[k].total = job[k].total
               /\ \A k \in Job : job'[k].status = IF k = j THEN status ELSE job[k].status
    <3>1. \A k \in Job : job'[k] = IF k = j THEN [job[j] EXCEPT !.status = status] ELSE job[k]
      BY <1>0, <2>4
    <3>2. \A k \in Job : /\ job'[k] \in JobType /\ job'[k].total = job[k].total
                         /\ job'[k].status = IF k = j THEN status ELSE job[k].status
      BY <1>0, <3>1 DEF JobType
    <3>3. job' \in [Job -> JobType]
      BY <1>0, <2>4, <3>2
    <3>. QED BY <1>0, <2>1, <2>4, <3>2, <3>3 DEF IInv, TotalKnown, With
  <2>5. CASE /\ job[j].status = "COMPLETED" /\ UNCHANGED receipt
             /\ job' = [job EXCEPT ![j].status = "FAILED"]
    <3>1. "FAILED" \in Final
      BY DEF Final
    <3>2. ReceiptHasItsJob'
      BY <2>1, <2>4, <2>5, <3>1 DEF IInv, ReceiptHasItsJob
    <3>3. TypeOK'
      BY <2>1, <2>2, <2>4, <2>5, <3>1 DEF IInv, TypeOK, JobType, PassType
    <3>. QED BY <2>1, <2>2, <2>4, <2>5, <3>1, <3>2, <3>3 DEF IInv, DeclaredOnce
  <2>6. CASE /\ job[j].status = "COMPLETED" /\ receipt = NoReceipt
             /\ pass[i].declared = job[j].total
             /\ job' = [job EXCEPT ![j].status = "CONSUMED"]
             /\ receipt' = [by |-> j, total |-> job[j].total]
    <3>1. "CONSUMED" \in Final
      BY DEF Final
    <3>2. job[j].total # Unknown /\ job[j].total = declared
      BY <2>6 DEF IInv, TotalKnown, ReadIsCurrent
    <3>3. \A k \in Job : job[k].status # "CONSUMED"
      BY <2>6, ReceiptAssumption DEF IInv, ReceiptHasItsJob, NoReceipt, None
    <3>4. ReceiptHasItsJob'
      BY <2>1, <2>4, <2>6, <3>1, <3>2, <3>3 DEF ReceiptHasItsJob
    <3>5. receipt' \in [by: Job \cup {"traveler", None}, total: Amount \cup {Unknown}]
      BY <1>0, <2>6 DEF JobType
    <3>6. TypeOK'
      BY <2>1, <2>2, <2>4, <2>6, <3>1, <3>5 DEF IInv, TypeOK, JobType, PassType
    <3>. QED BY <2>1, <2>2, <2>4, <2>6, <3>1, <3>4, <3>6 DEF IInv, DeclaredOnce
  <2>. QED BY <1>11, <2>3, <2>5, <2>6 DEF Seal
<1>12. ASSUME NEW i \in Instance, NEW j \in Job, SealFails(i, j) PROVE IInv'
  <2>1. UNCHANGED <<mission, declared, receipt, job, stale>> /\ Leave(i, j)
    BY <1>12 DEF SealFails
  <2>2. pass' \in [Instance -> PassType] /\ ReadIsCurrent'
    BY <1>0, <2>1, LeaveTyped DEF IInv, ReadIsCurrent
  <2>3. TypeOK'
    BY <2>1, <2>2 DEF IInv, TypeOK, PassType, With
  <2>. QED BY <2>1, <2>2, <2>3 DEF IInv, ReceiptHasItsJob, DeclaredOnce, TotalKnown
<1>13. CASE UNCHANGED vars
  <2>1. TypeOK'
    BY <1>13 DEF vars, IInv, TypeOK, With
  <2>. QED BY <1>13, <2>1 DEF vars, IInv, ReceiptHasItsJob, DeclaredOnce, TotalKnown, ReadIsCurrent
<1>. QED BY <1>1, <1>2, <1>3, <1>4, <1>5, <1>6, <1>7, <1>8, <1>9, <1>10, <1>11, <1>12,
            <1>13 DEF Next, Work

LEMMA Invariance == Spec => []IInv
  BY InitIInv, StepIInv, PTL DEF Spec

\* Jobs, receipt and passes of the receipt worker always have their types.
THEOREM ReceiptTypeCorrect == Spec => []TypeOK
<1>1. IInv => TypeOK
  BY DEF IInv
<1>. QED BY <1>1, Invariance, PTL

\* A receipt sealed from an image is the one of its only consumed job and equals
\* what the traveler declared, for any number of uploads and overlapping workers.
THEOREM ReceiptAlwaysHasItsJob == Spec => []ReceiptHasItsJob
<1>1. IInv => ReceiptHasItsJob
  BY DEF IInv
<1>. QED BY <1>1, Invariance, PTL

\* Sealed receipts and decided jobs never change.
THEOREM FinalJobsNeverChange == Spec => FinalIsFinal
<1>. DEFINE Kept == /\ receipt # NoReceipt => receipt' = receipt
                    /\ \A j \in Job : job[j].status \in Final => job'[j] = job[j]
<1>1. ASSUME IInv, [Next]_vars PROVE [Kept]_vars
  <2>0. stale \subseteq With("PROCESSING") /\ job \in [Job -> JobType]
    BY <1>1, Types DEF IInv
  <2>1. ASSUME NEW i \in Instance, Start(i) PROVE Kept
    BY <2>0, <2>1 DEF Start, With, Final
  <2>2. ASSUME NEW i \in Instance, NEW j \in Job, Work(i, j) PROVE Kept
    <3>1. CASE Claim(i, j)
      BY <2>0, <3>1 DEF Claim, Final
    <3>2. CASE Extract(i, j)
      BY <2>0, <3>2 DEF Extract, Verdict, Final
    <3>3. CASE ReadForSeal(i, j)
      BY <3>3 DEF ReadForSeal
    <3>4. CASE Seal(i, j)
      BY <2>0, <3>4 DEF Seal, Final
    <3>5. CASE SealFails(i, j)
      BY <3>5 DEF SealFails
    <3>. QED BY <2>2, <3>1, <3>2, <3>3, <3>4, <3>5 DEF Work
  <2>3. ASSUME NEW j \in Job, Upload(j) PROVE Kept
    BY <2>0, <2>3 DEF Upload, Final
  <2>4. CASE Ship \/ StartTravel \/ SubmitReceipt \/ DropOff
    BY <2>4 DEF Ship, StartTravel, SubmitReceipt, DropOff
  <2>5. ASSUME NEW j \in Job, TimePasses(j) PROVE Kept
    BY <2>5 DEF TimePasses
  <2>6. ASSUME NEW i \in Instance, ListPending(i) \/ Finish(i) \/ Crash(i) PROVE Kept
    BY <2>6 DEF ListPending, Finish, Crash
  <2>. QED BY <1>1, <2>1, <2>2, <2>3, <2>4, <2>5, <2>6 DEF Next
<1>. QED BY <1>1, Invariance, PTL DEF Spec, FinalIsFinal
=============================================================================
