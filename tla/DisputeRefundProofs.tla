------------------------ MODULE DisputeRefundProofs ------------------------
(***************************************************************************)
(* What the refund worker guarantees, for any number of events, processes    *)
(* and attempts.  A pass about to write has Stripe's answer, or has read an  *)
(* escrow that was closed on one: the hold is cancelled, and stays so.  A    *)
(* pass never remembers more attempts than its event has had.                *)
(* At the end, the other worker a dispute may set to work: what              *)
(* InstructionPenalty guarantees to the author who is charged its fee.       *)
(***************************************************************************)
EXTENDS DisputeRefund, InstructionPenalty, FiniteSetTheorems, TLAPS

EventType == [status: {"absent", "PENDING", "SETTLED", "FAILED"}, attempts: 0..MaxAttempts]

PassType == [step: {"idle", "insert", "claim", "next", "cancel", "write", "failed", "hopeless"},
             claimed: [Event -> 0..MaxAttempts], event: Event \cup {None}]

\* What a pass knows of the money is still true.
PassKnows ==
    \A i \in Instance :
        /\ pass[i].step = "write" => hold = "canceled"
        /\ pass[i].step = "hopeless" => escrow = "RELEASED"

\* What a pass knows of an event was true, and attempts only grow.
ClaimsCounted == \A i \in Instance, e \in Event : pass[i].claimed[e] <= event[e].attempts

IInv == TypeOK /\ RefundIsReal /\ GivenUpIsJustified /\ PassKnows /\ ClaimsCounted

LEMMA NoPassTyped == NoPass \in PassType
<1>1. [e \in Event |-> 0] \in [Event -> 0..MaxAttempts]
  BY DisputeAssumption
<1>. QED BY <1>1 DEF NoPass, PassType

LEMMA InitIInv == Init => IInv
<1>. SUFFICES ASSUME Init PROVE IInv
  OBVIOUS
<1>1. event \in [Event -> EventType] /\ pass \in [Instance -> PassType]
  BY NoPassTyped, DisputeAssumption DEF Init, EventType
<1>2. TypeOK
  BY <1>1 DEF Init, TypeOK, EventType, PassType
<1>3. RefundIsReal /\ GivenUpIsJustified
  BY DEF Init, RefundIsReal, GivenUpIsJustified, With
<1>4. PassKnows /\ ClaimsCounted
  BY DEF Init, NoPass, PassKnows, ClaimsCounted
<1>. QED BY <1>2, <1>3, <1>4 DEF IInv

\* A pass replaced by another of its type.
LEMMA PassMoves ==
    ASSUME pass \in [Instance -> PassType], NEW i \in Instance,
           NEW p \in PassType, pass' = [pass EXCEPT ![i] = p]
    PROVE  /\ pass' \in [Instance -> PassType]
           /\ \A k \in Instance : pass'[k] = IF k = i THEN p ELSE pass[k]
  OBVIOUS

\* A pass that turns to an event keeps its claims.
LEMMA GoesTyped ==
    ASSUME pass \in [Instance -> PassType], NEW i \in Instance, NEW e \in Event,
           NEW step \in {"cancel", "write", "failed", "hopeless"}, Goes(i, step, e)
    PROVE  /\ pass' \in [Instance -> PassType]
           /\ \A k \in Instance : pass'[k].claimed = pass[k].claimed
           /\ \A k \in Instance : pass'[k].step = IF k = i THEN step ELSE pass[k].step
<1>. DEFINE p == [pass[i] EXCEPT !.step = step, !.event = e]
<1>1. p \in PassType /\ p.step = step /\ p.claimed = pass[i].claimed
  BY DEF PassType
<1>2. pass' = [pass EXCEPT ![i] = p]
  BY DEF Goes
<1>. HIDE DEF p
<1>. QED BY <1>1, <1>2, PassMoves

\* A pass that leaves an event forgets its claim.
LEMMA LeaveTyped ==
    ASSUME pass \in [Instance -> PassType], NEW i \in Instance, NEW e \in Event, Leave(i, e)
    PROVE  /\ pass' \in [Instance -> PassType]
           /\ \A k \in Instance, f \in Event :
                pass'[k].claimed[f] = pass[k].claimed[f] \/ pass'[k].claimed[f] = 0
           /\ \A k \in Instance : pass'[k].step = IF k = i THEN "next" ELSE pass[k].step
<1>. DEFINE c == [pass[i].claimed EXCEPT ![e] = 0]
            p == [pass[i] EXCEPT !.step = "next", !.event = None, !.claimed[e] = 0]
<1>1. c \in [Event -> 0..MaxAttempts] /\ \A f \in Event : c[f] = pass[i].claimed[f] \/ c[f] = 0
  BY DisputeAssumption DEF PassType
<1>2. p \in PassType /\ p.step = "next" /\ p.claimed = c
  BY <1>1 DEF PassType
<1>3. pass' = [pass EXCEPT ![i] = p]
  BY DEF Leave
<1>. HIDE DEF p, c
<1>. QED BY <1>1, <1>2, <1>3, PassMoves

LEMMA StepIInv == IInv /\ [Next]_vars => IInv'
<1>. SUFFICES ASSUME IInv, [Next]_vars PROVE IInv'
  OBVIOUS
<1>0. event \in [Event -> EventType] /\ pass \in [Instance -> PassType]
  BY DEF IInv, TypeOK, EventType, PassType
<1>. USE DEF IInv
<1>1. CASE TriggerAutoRefundWatchdog
  BY <1>1 DEF TriggerAutoRefundWatchdog, TypeOK, RefundIsReal, GivenUpIsJustified, PassKnows,
              ClaimsCounted, With
<1>2. CASE Receive \/ HandleCapture
  <2>1. UNCHANGED <<event, pass>>
    BY <1>2 DEF Receive, HandleCapture
  <2>2. /\ hold = "canceled" => hold' = "canceled"
        /\ escrow = "RELEASED" => escrow' = "RELEASED"
    BY <1>2 DEF Receive, HandleCapture
  <2>3. TypeOK'
    BY <1>2 DEF Receive, HandleCapture, TypeOK
  <2>4. RefundIsReal'
    BY <1>2 DEF Receive, HandleCapture, RefundIsReal, With
  <2>. QED BY <2>1, <2>2, <2>3, <2>4 DEF GivenUpIsJustified, PassKnows, ClaimsCounted, With
<1>3. ASSUME NEW i \in Instance, Scan(i) \/ Finish(i) \/ Crash(i) PROVE IInv'
  <2>1. UNCHANGED <<mission, escrow, hold, receiving, event>>
    BY <1>3 DEF Scan, Finish, Crash
  <2>2. PICK p \in PassType : /\ pass' = [pass EXCEPT ![i] = p]
                              /\ p.claimed = NoPass.claimed /\ p.step \notin {"write", "hopeless"}
    <3>1. CASE Scan(i)
      <4>. DEFINE step == IF mission = "IN_DISPUTE" /\ With("absent") = Event
                          THEN "insert" ELSE "claim"
                  p == [NoPass EXCEPT !.step = step]
      <4>1. step \in {"insert", "claim"}
        OBVIOUS
      <4>2. p \in PassType /\ p.claimed = NoPass.claimed /\ p.step = step
        BY <4>1, NoPassTyped DEF PassType, NoPass
      <4>3. pass' = [pass EXCEPT ![i] = p]
        BY <3>1 DEF Scan
      <4>. QED BY <4>1, <4>2, <4>3
    <3>2. CASE Finish(i) \/ Crash(i)
      BY <3>2, NoPassTyped DEF Finish, Crash, NoPass
    <3>. QED BY <1>3, <3>1, <3>2
  <2>3. /\ pass' \in [Instance -> PassType]
        /\ \A k \in Instance : pass'[k] = IF k = i THEN p ELSE pass[k]
    BY <1>0, <2>2, PassMoves
  <2>4. \A e \in Event : NoPass.claimed[e] = 0 /\ event[e].attempts >= 0
    BY <1>0, DisputeAssumption DEF NoPass, EventType
  <2>5. PassKnows' /\ ClaimsCounted'
    BY <2>1, <2>2, <2>3, <2>4 DEF PassKnows, ClaimsCounted
  <2>6. TypeOK'
    BY <2>1, <2>3 DEF TypeOK, PassType
  <2>. QED BY <2>1, <2>5, <2>6 DEF RefundIsReal, GivenUpIsJustified, With
<1>4. ASSUME NEW i \in Instance, Insert(i) PROVE IInv'
  <2>1. UNCHANGED <<mission, escrow, hold, receiving>>
    BY <1>4 DEF Insert
  <2>2. event' \in [Event -> EventType]
        /\ \A e \in Event : /\ event'[e].attempts = event[e].attempts
                            /\ event'[e].status \in {event[e].status, "PENDING"}
    BY <1>0, <1>4 DEF Insert, EventType, With
  <2>. DEFINE p == [pass[i] EXCEPT !.step = "claim"]
  <2>3. p \in PassType /\ p.claimed = pass[i].claimed /\ p.step = "claim"
    BY <1>0 DEF PassType
  <2>4. pass' = [pass EXCEPT ![i] = p]
    BY <1>4 DEF Insert
  <2>. HIDE DEF p
  <2>5. /\ pass' \in [Instance -> PassType]
        /\ \A k \in Instance : pass'[k] = IF k = i THEN p ELSE pass[k]
    BY <1>0, <2>3, <2>4, PassMoves
  <2>6. PassKnows' /\ ClaimsCounted'
    BY <2>1, <2>2, <2>3, <2>5 DEF PassKnows, ClaimsCounted
  <2>7. TypeOK'
    BY <2>1, <2>2, <2>5 DEF TypeOK, PassType, EventType
  <2>8. RefundIsReal' /\ GivenUpIsJustified'
    BY <2>1, <2>2 DEF RefundIsReal, GivenUpIsJustified, With
  <2>. QED BY <2>6, <2>7, <2>8
<1>5. ASSUME NEW i \in Instance, Claim(i) PROVE IInv'
  <2>. DEFINE counted(e) == IF e \in Claimable THEN event[e].attempts + 1 ELSE 0
              c == [e \in Event |-> counted(e)]
              p == [step |-> "next", claimed |-> c, event |-> None]
  <2>1. /\ UNCHANGED <<mission, escrow, hold, receiving>>
        /\ pass' = [pass EXCEPT ![i] = p]
        /\ event' = [e \in Event |->
             IF e \in Claimable THEN [event[e] EXCEPT !.attempts = counted(e)] ELSE event[e]]
    BY <1>5 DEF Claim
  <2>2. \A e \in Event : counted(e) \in 0..MaxAttempts
    BY <1>0, DisputeAssumption DEF Claimable, EventType, With
  <2>3. c \in [Event -> 0..MaxAttempts] /\ p \in PassType
    BY <2>2 DEF PassType
  <2>4. \A e \in Event : /\ event'[e] \in EventType
                         /\ event'[e].status = event[e].status
                         /\ event'[e].attempts >= event[e].attempts
                         /\ counted(e) <= event'[e].attempts
                         /\ event[e].status = "FAILED" => event'[e] = event[e]
    <3>. SUFFICES ASSUME NEW e \in Event
                  PROVE  /\ event'[e] \in EventType
                         /\ event'[e].status = event[e].status
                         /\ event'[e].attempts >= event[e].attempts
                         /\ counted(e) <= event'[e].attempts
                         /\ event[e].status = "FAILED" => event'[e] = event[e]
      OBVIOUS
    <3>1. event[e] \in EventType
      BY <1>0
    <3>2. CASE e \in Claimable
      <4>1. event'[e] = [event[e] EXCEPT !.attempts = event[e].attempts + 1]
        BY <2>1, <3>2
      <4>2. event[e].status = "PENDING" /\ counted(e) = event[e].attempts + 1
        BY <3>2 DEF Claimable, With
      <4>. QED BY <2>2, <3>1, <4>1, <4>2 DEF EventType
    <3>3. CASE e \notin Claimable
      BY <2>1, <3>1, <3>3 DEF EventType
    <3>. QED BY <3>2, <3>3
  <2>5. event' \in [Event -> EventType]
    BY <2>1, <2>4
  <2>6. /\ pass' \in [Instance -> PassType]
        /\ \A k \in Instance : pass'[k] = IF k = i THEN p ELSE pass[k]
    BY <1>0, <2>1, <2>3, PassMoves
  <2>7. PassKnows'
    BY <2>1, <2>6 DEF PassKnows
  <2>8. ClaimsCounted'
    <3>. SUFFICES ASSUME NEW k \in Instance, NEW e \in Event
                  PROVE  pass'[k].claimed[e] <= event'[e].attempts
      BY DEF ClaimsCounted
    <3>1. CASE k = i
      BY <2>4, <2>6, <3>1
    <3>2. CASE k # i
      <4>1. pass[k].claimed[e] \in Nat /\ event[e].attempts \in Nat /\ event'[e].attempts \in Nat
        BY <1>0, <2>5 DEF PassType, EventType
      <4>. QED BY <2>4, <2>6, <3>2, <4>1 DEF ClaimsCounted
    <3>. QED BY <3>1, <3>2
  <2>9. TypeOK'
    BY <2>1, <2>5, <2>6 DEF TypeOK, PassType, EventType
  <2>10. RefundIsReal' /\ GivenUpIsJustified'
    BY <2>1, <2>4 DEF RefundIsReal, GivenUpIsJustified, With
  <2>. QED BY <2>7, <2>8, <2>9, <2>10
<1>6. ASSUME NEW i \in Instance, NEW e \in Event, ReadEscrow(i, e) PROVE IInv'
  <2>1. UNCHANGED <<mission, escrow, hold, receiving, event>>
    BY <1>6 DEF ReadEscrow
  <2>2. PICK step \in {"cancel", "write", "hopeless"} :
           /\ Goes(i, step, e)
           /\ step = "write" => escrow = "CANCELLED"
           /\ step = "hopeless" => escrow = "RELEASED"
    BY <1>6 DEF ReadEscrow, TypeOK
  <2>3. /\ pass' \in [Instance -> PassType]
        /\ \A k \in Instance : pass'[k].claimed = pass[k].claimed
        /\ \A k \in Instance : pass'[k].step = IF k = i THEN step ELSE pass[k].step
    BY <1>0, <2>2, GoesTyped
  <2>4. PassKnows' /\ ClaimsCounted'
    BY <2>1, <2>2, <2>3 DEF PassKnows, ClaimsCounted, RefundIsReal
  <2>5. TypeOK'
    BY <2>1, <2>3 DEF TypeOK, PassType
  <2>. QED BY <2>1, <2>4, <2>5 DEF RefundIsReal, GivenUpIsJustified, With
<1>7. ASSUME NEW i \in Instance, NEW e \in Event, Cancel(i, e) PROVE IInv'
  <2>1. UNCHANGED <<mission, escrow, receiving, event>>
    BY <1>7 DEF Cancel
  <2>2. PICK step \in {"write", "failed"} :
           Goes(i, step, e) /\ (step = "write" => hold' = "canceled")
    BY <1>7 DEF Cancel
  <2>3. /\ hold' \in {"authorized", "captured", "canceled"}
        /\ hold = "canceled" => hold' = "canceled"
        /\ hold = "captured" => hold' = "captured"
    BY <1>7 DEF Cancel, TypeOK
  <2>4. /\ pass' \in [Instance -> PassType]
        /\ \A k \in Instance : pass'[k].claimed = pass[k].claimed
        /\ \A k \in Instance : pass'[k].step = IF k = i THEN step ELSE pass[k].step
    BY <1>0, <2>2, GoesTyped
  <2>5. PassKnows' /\ ClaimsCounted'
    BY <2>1, <2>2, <2>3, <2>4 DEF PassKnows, ClaimsCounted
  <2>6. TypeOK'
    BY <2>1, <2>3, <2>4 DEF TypeOK, PassType
  <2>. QED BY <2>1, <2>3, <2>5, <2>6 DEF RefundIsReal, GivenUpIsJustified, With
<1>8. ASSUME NEW i \in Instance, NEW e \in Event, Write(i, e) PROVE IInv'
  <2>1. pass[i].step = "write" /\ hold = "canceled" /\ escrow # "RELEASED"
        /\ UNCHANGED <<hold, receiving>>
    BY <1>8 DEF Write, PassKnows, RefundIsReal
  <2>2. CASE Goes(i, "failed", e) /\ UNCHANGED <<event, mission, escrow>>
    <3>1. /\ pass' \in [Instance -> PassType]
          /\ \A k \in Instance : pass'[k].claimed = pass[k].claimed
          /\ \A k \in Instance : pass'[k].step = IF k = i THEN "failed" ELSE pass[k].step
      BY <1>0, <2>2, GoesTyped
    <3>2. PassKnows' /\ ClaimsCounted'
      BY <2>1, <2>2, <3>1 DEF PassKnows, ClaimsCounted
    <3>3. TypeOK'
      BY <2>1, <2>2, <3>1 DEF TypeOK, PassType
    <3>. QED BY <2>1, <2>2, <3>2, <3>3 DEF RefundIsReal, GivenUpIsJustified, With
  <2>3. CASE /\ event' = [event EXCEPT ![e].status = "SETTLED"]
             /\ mission' = IF mission = "IN_DISPUTE" THEN "REFUNDED" ELSE mission
             /\ escrow' = IF escrow = "HELD" THEN "CANCELLED" ELSE escrow
             /\ Leave(i, e)
    <3>1. /\ pass' \in [Instance -> PassType]
          /\ \A k \in Instance, f \in Event :
               pass'[k].claimed[f] = pass[k].claimed[f] \/ pass'[k].claimed[f] = 0
          /\ \A k \in Instance : pass'[k].step = IF k = i THEN "next" ELSE pass[k].step
      BY <1>0, <2>3, LeaveTyped
    <3>2. \A f \in Event : /\ event'[f] \in EventType
                           /\ event'[f].attempts = event[f].attempts
                           /\ event'[f].status \in {event[f].status, "SETTLED"}
      BY <1>0, <2>3 DEF EventType
    <3>3. event' \in [Event -> EventType]
      BY <1>0, <2>3, <3>2
    <3>4. PassKnows'
      BY <2>1, <2>3, <3>1 DEF PassKnows
    <3>5. ClaimsCounted'
      BY <1>0, <3>1, <3>2 DEF ClaimsCounted, EventType
    <3>6. TypeOK'
      BY <2>1, <2>3, <3>1, <3>3 DEF TypeOK, PassType, EventType
    <3>7. RefundIsReal' /\ GivenUpIsJustified'
      BY <2>1, <2>3, <3>2 DEF RefundIsReal, GivenUpIsJustified, With
    <3>. QED BY <3>4, <3>5, <3>6, <3>7
  <2>. QED BY <1>8, <2>2, <2>3 DEF Write
<1>9. ASSUME NEW i \in Instance, NEW e \in Event, FailRefund(i, e) PROVE IInv'
  <2>. DEFINE status == IF pass[i].step = "hopeless" \/ pass[i].claimed[e] >= MaxAttempts
                        THEN "FAILED" ELSE "PENDING"
  <2>1. /\ UNCHANGED <<mission, escrow, hold, receiving>> /\ Leave(i, e)
        /\ event' = [event EXCEPT ![e].status = status]
    BY <1>9 DEF FailRefund
  <2>2. status = "FAILED" => event[e].attempts = MaxAttempts \/ escrow = "RELEASED"
    <3>1. pass[i].claimed[e] \in 0..MaxAttempts /\ event[e].attempts \in 0..MaxAttempts
      BY <1>0 DEF PassType, EventType
    <3>2. pass[i].claimed[e] <= event[e].attempts
      BY DEF ClaimsCounted
    <3>. QED BY <3>1, <3>2, DisputeAssumption DEF PassKnows
  <2>3. status \in {"FAILED", "PENDING"}
    OBVIOUS
  <2>. HIDE DEF status
  <2>4. \A f \in Event : /\ event'[f] \in EventType
                         /\ event'[f].attempts = event[f].attempts
                         /\ event'[f].status = IF f = e THEN status ELSE event[f].status
    BY <1>0, <2>1, <2>3 DEF EventType
  <2>5. event' \in [Event -> EventType]
    BY <1>0, <2>1, <2>4
  <2>6. /\ pass' \in [Instance -> PassType]
        /\ \A k \in Instance, f \in Event :
             pass'[k].claimed[f] = pass[k].claimed[f] \/ pass'[k].claimed[f] = 0
        /\ \A k \in Instance : pass'[k].step = IF k = i THEN "next" ELSE pass[k].step
    BY <1>0, <2>1, LeaveTyped
  <2>7. PassKnows'
    BY <2>1, <2>6 DEF PassKnows
  <2>8. ClaimsCounted'
    BY <1>0, <2>4, <2>6 DEF ClaimsCounted, EventType
  <2>9. TypeOK'
    BY <2>1, <2>5, <2>6 DEF TypeOK, PassType, EventType
  <2>10. RefundIsReal'
    BY <2>1, <2>3, <2>4 DEF RefundIsReal, With
  <2>11. GivenUpIsJustified'
    BY <2>1, <2>2, <2>4 DEF GivenUpIsJustified, With
  <2>. QED BY <2>7, <2>8, <2>9, <2>10, <2>11
<1>10. CASE UNCHANGED vars
  BY <1>10 DEF vars, TypeOK, RefundIsReal, GivenUpIsJustified, PassKnows, ClaimsCounted, With
<1>. QED BY <1>1, <1>2, <1>3, <1>4, <1>5, <1>6, <1>7, <1>8, <1>9, <1>10 DEF Next, Execute

LEMMA Invariance == Spec => []IInv
  BY InitIInv, StepIInv, PTL DEF Spec

\* Rows and passes of the refund worker always have their types.
THEOREM RefundTypeCorrect == Spec => []TypeOK
<1>1. IInv => TypeOK
  BY DEF IInv
<1>. QED BY <1>1, Invariance, PTL

\* Whatever passes overlap and answers are lost, nothing is called refunded whose
\* hold is not cancelled, nor released whose hold is not captured.
THEOREM RefundAlwaysReal == Spec => []RefundIsReal
<1>1. IInv => RefundIsReal
  BY DEF IInv
<1>. QED BY <1>1, Invariance, PTL

\* An event is given up at its last attempt, or because the money is gone.
THEOREM GivingUpIsJustified == Spec => []GivenUpIsJustified
<1>1. IInv => GivenUpIsJustified
  BY DEF IInv
<1>. QED BY <1>1, Invariance, PTL

-----------------------------------------------------------------------------
(* The fee of an abusive dispute.  A pass holds rows it read at its claim,   *)
(* while others may claim, charge and judge the same rows.                   *)

\* A held row is a past of the row: attempts only grow, and one held without a
\* payment method has been seen without one.
HeldTrue(r) == r.attempts <= penalty[r.id].attempts /\ (~r.payable => r.id \in cardless)

\* What a job may hold, and claim of the rows.
JobTrue(j) ==
    /\ j.step \in {"charge", "verdict"} => \A r \in j.todo : HeldTrue(r)
    /\ j.step = "verdict" =>
         /\ HeldTrue(j.row)
         /\ j.outcome = "no_card" => ~j.row.payable
         /\ j.outcome = "paid" => debits[j.row.id] # {}

HeldRowsTrue == \A w \in Worker : JobTrue(job[w])

FeeInv == FeeTypeOK /\ DebitsAreRight /\ SuspendedAtLast /\ HeldRowsTrue

LEMMA JobShape ==
    ASSUME FeeTypeOK, NEW w \in Worker
    PROVE  /\ job[w] \in Job
           /\ job[w].step = "swept" => job[w].rows \subseteq Penalty
           /\ job[w].step = "charge" => job[w].todo \subseteq HeldRow
           /\ job[w].step = "verdict" =>
                job[w].row \in HeldRow /\ job[w].todo \subseteq HeldRow
<1>1. job[w] \in Job
  BY DEF FeeTypeOK
<1>. QED BY <1>1 DEF Job

\* A job replaced by another of its type.
LEMMA JobMoves ==
    ASSUME FeeTypeOK, NEW w \in Worker, NEW j \in Job, Do(w, j)
    PROVE  /\ job' \in [Worker -> Job] /\ job'[w] = j
           /\ \A k \in Worker \ {w} : job'[k] = job[k]
BY DEF FeeTypeOK, Do

\* Nothing a job relies on is ever taken back.
Grows ==
    /\ \A p \in Penalty : penalty[p].attempts <= penalty'[p].attempts
    /\ \A p \in Penalty : debits[p] # {} => debits'[p] # {}
    /\ cardless \subseteq cardless'

LEMMA HeldStaysTrue ==
    ASSUME FeeTypeOK, FeeTypeOK', Grows, NEW r \in HeldRow, HeldTrue(r)
    PROVE  r.attempts <= penalty'[r.id].attempts /\ (~r.payable => r.id \in cardless')
<1>1. /\ r.id \in Penalty /\ r.attempts \in Nat
      /\ penalty[r.id].attempts \in Nat /\ penalty'[r.id].attempts \in Nat
  BY InstructionAssumption DEF FeeTypeOK, HeldRow
<1>. QED BY <1>1 DEF Grows, HeldTrue

LEMMA OtherJobsStayTrue ==
    ASSUME FeeTypeOK, FeeTypeOK', Grows, NEW w \in Worker, job'[w] = job[w], JobTrue(job[w])
    PROVE  JobTrue(job[w])'
<1>1. job[w].step \in {"charge", "verdict"} => \A r \in job[w].todo : r \in HeldRow /\ HeldTrue(r)
  BY JobShape DEF JobTrue
<1>2. job[w].step = "verdict" => job[w].row \in HeldRow /\ HeldTrue(job[w].row)
  BY JobShape DEF JobTrue
<1>3. job[w].step = "verdict" /\ job[w].outcome = "paid" => debits'[job[w].row.id] # {}
  BY <1>2 DEF Grows, JobTrue, HeldRow
<1>. QED BY <1>1, <1>2, <1>3, HeldStaysTrue DEF JobTrue, HeldTrue

\* What is to be shown of a step of one process.
LEMMA FeeInvKept ==
    ASSUME FeeInv, FeeTypeOK', Grows, NEW w \in Worker,
           \A k \in Worker \ {w} : job'[k] = job[k], JobTrue(job[w])', DebitedOnce',
           \A p \in Penalty : penalty'[p].status = "PAID" => debits'[p] # {},
           suspended' => suspended \/ SuspendedAtLast'
    PROVE  FeeInv'
<1>1. HeldRowsTrue'
  <2>. SUFFICES ASSUME NEW k \in Worker PROVE JobTrue(job[k])'
    BY DEF HeldRowsTrue
  <2>1. CASE k = w
    BY <2>1
  <2>2. CASE k # w
    BY <2>2, OtherJobsStayTrue DEF FeeInv, HeldRowsTrue
  <2>. QED BY <2>1, <2>2
<1>2. PaidIsDebited'
  BY <1>1 DEF PaidIsDebited, HeldRowsTrue, JobTrue
<1>3. SuspendedAtLast'
  <2>1. CASE suspended /\ suspended'
    <3>1. PICK p \in Penalty : p \in cardless \/ penalty[p].attempts = MaxFeeAttempts
      BY <2>1 DEF FeeInv, SuspendedAtLast
    <3>2. penalty'[p].attempts \in 0..MaxFeeAttempts /\ penalty[p].attempts <= penalty'[p].attempts
      BY DEF FeeTypeOK, Grows
    <3>3. p \in cardless' \/ penalty'[p].attempts = MaxFeeAttempts
      BY <3>1, <3>2, InstructionAssumption DEF Grows
    <3>. QED BY <3>3 DEF SuspendedAtLast
  <2>2. CASE ~suspended /\ suspended'
    BY <2>2
  <2>3. CASE ~suspended'
    BY <2>3 DEF SuspendedAtLast
  <2>. QED BY <2>1, <2>2, <2>3 DEF FeeTypeOK
<1>. QED BY <1>1, <1>2, <1>3 DEF FeeInv, DebitsAreRight

LEMMA FeeInitInv == FeeInit => FeeInv
<1>. SUFFICES ASSUME FeeInit PROVE FeeInv
  OBVIOUS
<1>1. FeeTypeOK
  <2>1. Idle \in Job /\ 0 \in 0..MaxFeeAttempts
    BY InstructionAssumption DEF Job, Idle
  <2>. HIDE DEF Idle
  <2>. QED BY <2>1 DEF FeeInit, FeeTypeOK, PenaltyStatus
<1>2. DebitsAreRight /\ SuspendedAtLast /\ HeldRowsTrue
  BY DEF FeeInit, Idle, DebitsAreRight, DebitedOnce, PaidIsDebited, SuspendedAtLast,
         HeldRowsTrue, JobTrue
<1>. QED BY <1>1, <1>2 DEF FeeInv

\* A pass that ends, is cut short or goes to the claim holds nothing.
LEMMA IdleTrue ==
    ASSUME NEW w \in Worker, job'[w].step \in {"idle", "claim", "swept"}
    PROVE  JobTrue(job[w])'
BY DEF JobTrue

\* The sweep only gives rows up.
LEMMA SweepKeeps == ASSUME FeeInv, NEW w \in Worker, Sweep(w) PROVE FeeInv'
<1>. DEFINE stuck == {p \in Penalty : Stuck(p)}
            j == IF stuck = {} THEN [step |-> "claim"] ELSE [step |-> "swept", rows |-> stuck]
<1>1. j \in Job /\ Do(w, j) /\ j.step \in {"claim", "swept"}
  BY DEF Sweep, Job
<1>2. /\ job' \in [Worker -> Job] /\ job'[w] = j
      /\ \A k \in Worker \ {w} : job'[k] = job[k]
  BY <1>1, JobMoves DEF FeeInv
<1>3. /\ penalty' \in [Penalty -> [status : PenaltyStatus, attempts : 0..MaxFeeAttempts]]
      /\ \A p \in Penalty : penalty'[p].attempts = penalty[p].attempts
      /\ \A p \in Penalty : penalty'[p].status \in {penalty[p].status, "FAILED"}
  BY DEF Sweep, FeeInv, FeeTypeOK, PenaltyStatus
<1>4. UNCHANGED <<suspended, debits, cardless, reported>>
  BY DEF Sweep
<1>5. FeeTypeOK'
  BY <1>2, <1>3, <1>4 DEF FeeInv, FeeTypeOK
<1>6. Grows
  BY <1>3, <1>4 DEF Grows, FeeInv, FeeTypeOK
<1>7. JobTrue(job[w])'
  BY <1>1, <1>2, IdleTrue
<1>8. DebitedOnce' /\ \A p \in Penalty : penalty'[p].status = "PAID" => debits'[p] # {}
  BY <1>3, <1>4 DEF FeeInv, DebitsAreRight, DebitedOnce, PaidIsDebited
<1>. QED BY <1>2, <1>4, <1>5, <1>6, <1>7, <1>8, FeeInvKept

\* The alert, the end of a pass and its death write no row.
LEMMA NoRowKeeps ==
    ASSUME FeeInv, NEW w \in Worker, Report(w) \/ NothingToClaim(w) \/ FeeCrash(w)
    PROVE  FeeInv'
<1>. DEFINE j == IF Report(w) THEN [step |-> "claim"] ELSE Idle
<1>1. j \in Job /\ Do(w, j) /\ j.step \in {"claim", "idle"}
  BY DEF Report, NothingToClaim, FeeCrash, Idle, Job
<1>2. /\ job' \in [Worker -> Job] /\ job'[w] = j
      /\ \A k \in Worker \ {w} : job'[k] = job[k]
  BY <1>1, JobMoves DEF FeeInv
<1>3. UNCHANGED <<penalty, suspended, debits, cardless>> /\ reported' \subseteq Penalty
  BY JobShape DEF Report, NothingToClaim, FeeCrash, FeeInv, FeeTypeOK
<1>4. FeeTypeOK'
  BY <1>2, <1>3 DEF FeeInv, FeeTypeOK
<1>5. Grows
  BY <1>3 DEF Grows, FeeInv, FeeTypeOK
<1>6. JobTrue(job[w])'
  BY <1>1, <1>2, IdleTrue
<1>7. DebitedOnce' /\ \A p \in Penalty : penalty'[p].status = "PAID" => debits'[p] # {}
  BY <1>3 DEF FeeInv, DebitsAreRight, DebitedOnce, PaidIsDebited
<1>. QED BY <1>2, <1>3, <1>4, <1>5, <1>6, <1>7, FeeInvKept

\* A claim holds of each row the attempts it has just counted.
LEMMA ClaimBatchKeeps == ASSUME FeeInv, NEW w \in Worker, ClaimBatch(w) PROVE FeeInv'
<1>1. PICK batch \in Batches, payable \in BOOLEAN :
        /\ penalty' = [p \in Penalty |-> IF p \in batch THEN Counted(p) ELSE penalty[p]]
        /\ Do(w, [step |-> "charge", todo |-> {Held(p, penalty'[p], payable) : p \in batch}])
        /\ cardless' = IF payable THEN cardless ELSE cardless \cup batch
  BY DEF ClaimBatch
<1>2. \A p \in batch : p \in Penalty /\ FeeClaimable(p)
  BY DEF Batches
<1>3. UNCHANGED <<suspended, debits, reported>>
  BY DEF ClaimBatch
<1>4. \A p \in Penalty : penalty[p] \in [status : PenaltyStatus, attempts : 0..MaxFeeAttempts]
  BY DEF FeeInv, FeeTypeOK
<1>5. \A p \in batch :
        /\ penalty'[p] = Counted(p) /\ penalty'[p].attempts \in 1..MaxFeeAttempts
        /\ penalty'[p].attempts = penalty[p].attempts + 1 /\ penalty'[p].status = penalty[p].status
  BY <1>1, <1>2, <1>4, InstructionAssumption DEF Counted, FeeClaimable
<1>6. \A p \in Penalty \ batch : penalty'[p] = penalty[p]
  BY <1>1
<1>7. /\ penalty' \in [Penalty -> [status : PenaltyStatus, attempts : 0..MaxFeeAttempts]]
      /\ \A p \in Penalty : penalty'[p].status = penalty[p].status
      /\ \A p \in Penalty : penalty[p].attempts <= penalty'[p].attempts
  <2>1. \A p \in batch : penalty'[p] \in [status : PenaltyStatus, attempts : 0..MaxFeeAttempts]
    <3>. SUFFICES ASSUME NEW p \in batch
                  PROVE  penalty'[p] \in [status : PenaltyStatus, attempts : 0..MaxFeeAttempts]
      OBVIOUS
    <3>1. penalty[p].attempts + 1 \in 0..MaxFeeAttempts
      BY <1>5, InstructionAssumption
    <3>2. penalty[p] \in [status : PenaltyStatus, attempts : 0..MaxFeeAttempts]
      BY <1>2, <1>4
    <3>. QED BY <1>5, <3>1, <3>2 DEF Counted
  <2>2. \A p \in Penalty : penalty'[p] \in [status : PenaltyStatus, attempts : 0..MaxFeeAttempts]
    BY <1>4, <1>6, <2>1
  <2>3. \A p \in Penalty :
          penalty'[p].status = penalty[p].status /\ penalty[p].attempts <= penalty'[p].attempts
    <3>. SUFFICES ASSUME NEW p \in Penalty
                  PROVE  /\ penalty'[p].status = penalty[p].status
                         /\ penalty[p].attempts <= penalty'[p].attempts
      OBVIOUS
    <3>1. penalty[p].attempts \in Nat
      BY <1>4
    <3>2. CASE p \in batch
      BY <1>5, <3>1, <3>2
    <3>3. CASE p \notin batch
      BY <1>6, <3>1, <3>3
    <3>. QED BY <3>2, <3>3
  <2>. QED BY <1>1, <2>2, <2>3
<1>. DEFINE todo == {Held(p, penalty'[p], payable) : p \in batch}
<1>8. \A r \in todo :
        /\ r \in HeldRow /\ r.attempts = penalty'[r.id].attempts
        /\ ~r.payable => r.id \in cardless'
  <2>. SUFFICES ASSUME NEW p \in batch, NEW r, r = Held(p, penalty'[p], payable)
                PROVE  /\ r \in HeldRow /\ r.attempts = penalty'[r.id].attempts
                       /\ ~r.payable => r.id \in cardless'
    OBVIOUS
  <2>1. r = [id |-> p, attempts |-> penalty'[p].attempts, payable |-> payable]
    BY DEF Held
  <2>. QED BY <1>1, <1>2, <1>5, <2>1 DEF HeldRow
<1>9. job'[w] = [step |-> "charge", todo |-> todo] /\ job' \in [Worker -> Job]
      /\ \A k \in Worker \ {w} : job'[k] = job[k]
  <2>1. [step |-> "charge", todo |-> todo] \in Job
    BY <1>8 DEF Job
  <2>. HIDE DEF todo
  <2>2. job' = [job EXCEPT ![w] = [step |-> "charge", todo |-> todo]]
    BY <1>1 DEF Do, todo
  <2>. QED BY <2>1, <2>2 DEF FeeInv, FeeTypeOK
<1>. HIDE DEF todo
<1>10. FeeTypeOK'
  BY <1>1, <1>2, <1>3, <1>7, <1>9 DEF FeeInv, FeeTypeOK
<1>11. Grows
  BY <1>1, <1>3, <1>7 DEF Grows
<1>12. JobTrue(job[w])'
  <2>1. \A r \in todo : r.attempts <= penalty'[r.id].attempts
    BY <1>7, <1>8 DEF HeldRow
  <2>. QED BY <1>8, <1>9, <2>1 DEF JobTrue, HeldTrue
<1>13. DebitedOnce' /\ \A p \in Penalty : penalty'[p].status = "PAID" => debits'[p] # {}
  BY <1>3, <1>7 DEF FeeInv, DebitsAreRight, DebitedOnce, PaidIsDebited
<1>. QED BY <1>3, <1>9, <1>10, <1>11, <1>12, <1>13, FeeInvKept

\* The one row a pass charges is debited under the one key of it, if at all.
LEMMA ChargeKeeps ==
    ASSUME FeeInv, NEW w \in Worker, job[w].step = "charge",
           NEW r \in job[w].todo, Charge(w, r) \/ NoCard(w, r)
    PROVE  FeeInv'
<1>1. job[w].todo \subseteq HeldRow /\ r \in HeldRow /\ r.id \in Penalty
  BY JobShape DEF FeeInv, HeldRow
<1>2. \A q \in job[w].todo : HeldTrue(q)
  BY DEF FeeInv, HeldRowsTrue, JobTrue
<1>3. PICK outcome \in {"paid", "failed", "no_card"} :
        /\ Answered(w, r, outcome)
        /\ outcome = "paid" => debits' = [debits EXCEPT ![r.id] = debits[r.id] \cup {0}]
        /\ outcome = "no_card" => ~r.payable
  BY DEF Charge, NoCard, Key
<1>4. /\ debits' \in {debits, [debits EXCEPT ![r.id] = debits[r.id] \cup {0}]}
      /\ UNCHANGED <<penalty, suspended, cardless, reported>>
  BY DEF Charge, NoCard, Key
<1>5. /\ debits' \in [Penalty -> SUBSET Nat] /\ DebitedOnce'
      /\ \A p \in Penalty : debits[p] \subseteq debits'[p]
      /\ outcome = "paid" => 0 \in debits'[r.id]
  BY <1>1, <1>3, <1>4 DEF FeeInv, FeeTypeOK, DebitsAreRight, DebitedOnce
<1>. DEFINE j == [step |-> "verdict", row |-> r, outcome |-> outcome, todo |-> job[w].todo \ {r}]
<1>6. /\ job' \in [Worker -> Job] /\ job'[w] = j
      /\ \A k \in Worker \ {w} : job'[k] = job[k]
  <2>1. j \in Job
    BY <1>1 DEF Job
  <2>2. job' = [job EXCEPT ![w] = j]
    BY <1>3 DEF Answered, Do
  <2>. HIDE DEF j
  <2>. QED BY <2>1, <2>2 DEF FeeInv, FeeTypeOK
<1>7. FeeTypeOK'
  BY <1>4, <1>5, <1>6 DEF FeeInv, FeeTypeOK
<1>8. Grows
  BY <1>4, <1>5 DEF Grows, FeeInv, FeeTypeOK
<1>9. JobTrue(job[w])'
  BY <1>2, <1>3, <1>4, <1>5, <1>6 DEF JobTrue, HeldTrue
<1>10. \A p \in Penalty : penalty'[p].status = "PAID" => debits'[p] # {}
  BY <1>4, <1>5 DEF FeeInv, DebitsAreRight, PaidIsDebited
<1>. QED BY <1>4, <1>5, <1>6, <1>7, <1>8, <1>9, <1>10, FeeInvKept

\* A verdict writes one status; what is left of the batch stays held.
LEMMA VerdictKeeps == ASSUME FeeInv, NEW w \in Worker, Verdicts(w) PROVE FeeInv'
<1>. DEFINE id == job[w].row.id
<1>1. job[w].step = "verdict" /\ UNCHANGED <<debits, cardless, reported>> /\ NextRow(w)
  BY DEF Verdicts, Paid, Retry, GiveUp
<1>2. /\ job[w].row \in HeldRow /\ job[w].todo \subseteq HeldRow /\ id \in Penalty
      /\ HeldTrue(job[w].row) /\ \A q \in job[w].todo : HeldTrue(q)
      /\ job[w].outcome = "paid" => debits[id] # {}
      /\ job[w].outcome = "no_card" => ~job[w].row.payable
  BY <1>1, JobShape DEF FeeInv, HeldRowsTrue, JobTrue, HeldRow
<1>3. PICK status \in PenaltyStatus :
        Verdict(w, status) /\ (status = "PAID" => job[w].outcome = "paid")
  BY DEF Verdicts, Paid, Retry, GiveUp, PenaltyStatus
<1>4. /\ penalty' \in [Penalty -> [status : PenaltyStatus, attempts : 0..MaxFeeAttempts]]
      /\ \A p \in Penalty : penalty'[p].attempts = penalty[p].attempts
      /\ \A p \in Penalty : penalty'[p].status = IF p = id THEN status ELSE penalty[p].status
  <2>. DEFINE q == [penalty[id] EXCEPT !.status = status]
  <2>1. /\ q \in [status : PenaltyStatus, attempts : 0..MaxFeeAttempts]
        /\ q.status = status /\ q.attempts = penalty[id].attempts
    BY <1>2 DEF FeeInv, FeeTypeOK
  <2>2. penalty' = [penalty EXCEPT ![id] = q]
    BY <1>3 DEF Verdict
  <2>. HIDE DEF q, id
  <2>. QED BY <1>2, <2>1, <2>2 DEF FeeInv, FeeTypeOK, id
<1>. DEFINE j == IF job[w].todo = {} THEN Idle ELSE [step |-> "charge", todo |-> job[w].todo]
<1>5. /\ job' \in [Worker -> Job] /\ job'[w] = j
      /\ \A k \in Worker \ {w} : job'[k] = job[k]
  <2>1. j \in Job
    BY <1>2 DEF Job, Idle
  <2>2. job' = [job EXCEPT ![w] = j]
    BY <1>1 DEF NextRow, Do
  <2>. HIDE DEF j
  <2>. QED BY <2>1, <2>2 DEF FeeInv, FeeTypeOK
<1>6. suspended' \in BOOLEAN /\ (suspended' => suspended \/ SuspendedAtLast')
  <2>1. CASE ~GiveUp(w)
    BY <2>1 DEF Verdicts, Paid, Retry, FeeInv, FeeTypeOK
  <2>2. CASE GiveUp(w)
    <3>1. id \in cardless \/ job[w].row.attempts >= MaxFeeAttempts
      BY <1>2, <2>2 DEF GiveUp, Terminal, HeldTrue
    <3>2. penalty[id].attempts \in 0..MaxFeeAttempts /\ job[w].row.attempts \in Nat
      BY <1>2 DEF FeeInv, FeeTypeOK, HeldRow
    <3>3. id \in cardless' \/ penalty'[id].attempts = MaxFeeAttempts
      BY <1>1, <1>2, <1>4, <3>1, <3>2, InstructionAssumption DEF HeldTrue
    <3>. QED BY <1>2, <2>2, <3>3 DEF GiveUp, SuspendedAtLast
  <2>. QED BY <2>1, <2>2
<1>7. FeeTypeOK'
  BY <1>1, <1>4, <1>5, <1>6 DEF FeeInv, FeeTypeOK
<1>8. Grows
  BY <1>1, <1>4 DEF Grows, FeeInv, FeeTypeOK
<1>9. JobTrue(job[w])'
  <2>1. CASE job[w].todo = {}
    BY <1>5, <2>1, IdleTrue DEF Idle
  <2>2. CASE job[w].todo # {}
    BY <1>1, <1>2, <1>4, <1>5, <2>2 DEF JobTrue, HeldTrue, HeldRow
  <2>. QED BY <2>1, <2>2
<1>10. DebitedOnce' /\ \A p \in Penalty : penalty'[p].status = "PAID" => debits'[p] # {}
  BY <1>1, <1>2, <1>3, <1>4 DEF FeeInv, DebitsAreRight, DebitedOnce, PaidIsDebited
<1>. QED BY <1>5, <1>6, <1>7, <1>8, <1>9, <1>10, FeeInvKept

LEMMA FeeStepInv == FeeInv /\ [FeeNext]_feeVars => FeeInv'
<1>. SUFFICES ASSUME FeeInv, [FeeNext]_feeVars PROVE FeeInv'
  OBVIOUS
<1>1. CASE Reap \/ UNCHANGED feeVars
  <2>1. UNCHANGED <<penalty, suspended, job, debits, cardless>> /\ reported' \subseteq Penalty
    BY <1>1 DEF Reap, feeVars, FeeInv, FeeTypeOK
  <2>. QED BY <2>1 DEF FeeInv, FeeTypeOK, DebitsAreRight, DebitedOnce, PaidIsDebited,
                   SuspendedAtLast, HeldRowsTrue, JobTrue, HeldTrue
<1>2. ASSUME NEW w \in Worker, Sweep(w) PROVE FeeInv'
  BY <1>2, SweepKeeps
<1>3. ASSUME NEW w \in Worker, Report(w) \/ NothingToClaim(w) \/ FeeCrash(w) PROVE FeeInv'
  BY <1>3, NoRowKeeps
<1>4. ASSUME NEW w \in Worker, ClaimBatch(w) PROVE FeeInv'
  BY <1>4, ClaimBatchKeeps
<1>5. ASSUME NEW w \in Worker, Charges(w) PROVE FeeInv'
  BY <1>5, ChargeKeeps DEF Charges
<1>6. ASSUME NEW w \in Worker, Verdicts(w) PROVE FeeInv'
  BY <1>6, VerdictKeeps
<1>. QED BY <1>1, <1>2, <1>3, <1>4, <1>5, <1>6 DEF FeeNext

LEMMA FeeInvariant == FeeSpec => []FeeInv
BY FeeInitInv, FeeStepInv, PTL DEF FeeSpec

\* The rows and the passes always have the shape the schema and the code give them.
THEOREM FeeTypeCorrect == FeeSpec => []FeeTypeOK
<1>1. FeeInv => FeeTypeOK
  BY DEF FeeInv
<1>. QED BY <1>1, FeeInvariant, PTL

\* For any number of processes and of attempts, an author is debited at most once
\* for a penalty, and no row is PAID for a card that was not debited.
THEOREM FeeDebitsAlwaysRight == FeeSpec => []DebitsAreRight
<1>1. FeeInv => DebitsAreRight
  BY DEF FeeInv
<1>. QED BY <1>1, FeeInvariant, PTL

\* Nobody is suspended before a penalty was tried for the last time, but for want
\* of a payment method.
THEOREM FeeSuspendsAtLast == FeeSpec => []SuspendedAtLast
<1>1. FeeInv => SuspendedAtLast
  BY DEF FeeInv
<1>. QED BY <1>1, FeeInvariant, PTL

-----------------------------------------------------------------------------
(* The fees keep the promise of an outbox whose workers may be slow.          *)

\* What the status of a row says to whoever reads the promise.
FeeEndOf(status) == IF status = "PAID" THEN "settled"
                    ELSE IF status = "FAILED" THEN "given_up"
                    ELSE "open"

LEMMA FeeStepKeepsPromise ==
    ASSUME FeeInv, FeeInv', [FeeNext]_feeVars
    PROVE  [FeeOutbox!Next]_(FeeOutbox!promise)
<1>. DEFINE e == [p \in Penalty |-> Cardinality(debits[p])]
            v == [p \in Penalty |-> FeeEndOf(penalty[p].status)]
<1>1. \A p \in Penalty :
        /\ e[p] = IF debits[p] = {} THEN 0 ELSE 1
        /\ e'[p] = IF debits'[p] = {} THEN 0 ELSE 1
  <2>1. \A p \in Penalty : debits[p] \in {{}, {0}} /\ debits'[p] \in {{}, {0}}
    BY DEF FeeInv, DebitsAreRight, DebitedOnce
  <2>. QED BY <2>1, FS_EmptySet, FS_Singleton
<1>2. \A p \in Penalty :
        v[p] = FeeEndOf(penalty[p].status) /\ v'[p] = FeeEndOf(penalty'[p].status)
  OBVIOUS
<1>3. /\ e = [p \in Penalty |-> e[p]] /\ e' = [p \in Penalty |-> e'[p]]
      /\ v = [p \in Penalty |-> v[p]] /\ v' = [p \in Penalty |-> v'[p]]
  OBVIOUS
<1>4. FeeOutbox!promise = <<e, v>> /\ (FeeOutbox!promise)' = <<e', v'>>
  BY DEF FeeOutbox!promise, FeeEndOf
<1>5. (debits' = debits => e' = e) /\ (penalty' = penalty => v' = v)
  OBVIOUS
<1>. HIDE DEF e, v
<1>6. ASSUME Reap \/ UNCHANGED feeVars PROVE e' = e /\ v' = v
  BY <1>5, <1>6 DEF Reap, feeVars
<1>7. ASSUME NEW w \in Worker, Report(w) \/ NothingToClaim(w) \/ FeeCrash(w)
      PROVE  e' = e /\ v' = v
  BY <1>5, <1>7 DEF Report, NothingToClaim, FeeCrash
<1>8. ASSUME NEW w \in Worker, ClaimBatch(w) PROVE e' = e /\ v' = v
  <2>1. \A p \in Penalty : penalty'[p].status = penalty[p].status
    BY <1>8 DEF ClaimBatch, Counted, FeeInv, FeeTypeOK
  <2>2. \A p \in Penalty : v'[p] = v[p]
    BY <1>2, <2>1
  <2>. QED BY <1>3, <1>5, <1>8, <2>2 DEF ClaimBatch
<1>9. ASSUME NEW w \in Worker, Sweep(w)
      PROVE  \E items \in SUBSET Penalty : FeeOutbox!GiveUp(items)
  <2>1. PICK stuck \in SUBSET Penalty : stuck = {p \in Penalty : Stuck(p)}
    OBVIOUS
  <2>2. \A p \in Penalty :
          penalty'[p].status = IF p \in stuck THEN "FAILED" ELSE penalty[p].status
    BY <1>9, <2>1 DEF Sweep, FeeInv, FeeTypeOK
  <2>3. \A p \in Penalty : v'[p] = IF p \in stuck THEN "given_up" ELSE v[p]
    BY <1>2, <2>2 DEF FeeEndOf
  <2>4. v' = [p \in Penalty |-> IF p \in stuck THEN "given_up" ELSE v[p]] /\ e' = e
    BY <1>3, <1>5, <1>9, <2>3 DEF Sweep
  <2>5. FeeOutbox!GiveUp(stuck)
    BY <2>4 DEF FeeOutbox!GiveUp, FeeOutbox!InHand, e, v, FeeEndOf
  <2>. QED BY <2>5
<1>10. ASSUME NEW w \in Worker, Charges(w)
       PROVE  v' = v /\ (e' = e \/ \E p \in Penalty : FeeOutbox!TakeEffect(p))
  <2>1. PICK r \in job[w].todo : Charge(w, r) \/ NoCard(w, r)
    BY <1>10 DEF Charges
  <2>2. job[w].step = "charge" /\ penalty' = penalty
    BY <2>1 DEF Charge, NoCard
  <2>3. r.id \in Penalty
    BY <2>2, JobShape DEF FeeInv, HeldRow
  <2>4. PICK q \in Penalty : q = r.id
    BY <2>3
  <2>5. \/ debits' = debits
        \/ debits' = [debits EXCEPT ![q] = debits[q] \cup {0}]
    BY <2>1, <2>4 DEF Charge, NoCard, Key
  <2>6. \A p \in Penalty \ {q} : debits'[p] = debits[p]
    BY <2>5 DEF FeeInv, FeeTypeOK
  <2>7. debits[q] \subseteq debits'[q]
    BY <2>5 DEF FeeInv, FeeTypeOK
  <2>8. CASE e'[q] = e[q]
    BY <1>1, <1>3, <1>5, <2>2, <2>6, <2>8
  <2>9. CASE e'[q] # e[q]
    <3>1. e[q] = 0 /\ e'[q] = 1
      BY <1>1, <2>7, <2>9
    <3>2. \A p \in Penalty : e'[p] = IF p = q THEN 1 ELSE e[p]
      BY <1>1, <2>6, <3>1
    <3>3. e' = [e EXCEPT ![q] = 1]
      BY <1>3, <3>2
    <3>4. FeeOutbox!TakeEffect(q)
      BY <1>5, <2>2, <3>1, <3>3 DEF FeeOutbox!TakeEffect, FeeOutbox!InHand, e, v, FeeEndOf
    <3>. QED BY <1>5, <2>2, <3>4
  <2>. QED BY <2>8, <2>9
<1>11. ASSUME NEW w \in Worker, Verdicts(w)
       PROVE  \/ \E p \in Penalty : FeeOutbox!Settle(p) \/ FeeOutbox!Reopen(p)
              \/ \E items \in SUBSET Penalty : FeeOutbox!GiveUp(items)
  <2>1. job[w].step = "verdict" /\ e' = e
    BY <1>5, <1>11 DEF Verdicts, Paid, Retry, GiveUp
  <2>2. job[w].row.id \in Penalty /\ (job[w].outcome = "paid" => debits[job[w].row.id] # {})
    BY <2>1, JobShape DEF FeeInv, HeldRow, DebitsAreRight, PaidIsDebited
  <2>3. PICK q \in Penalty : q = job[w].row.id
    BY <2>2
  <2>4. ASSUME NEW status, Verdict(w, status)
        PROVE  \A p \in Penalty : v'[p] = IF p = q THEN FeeEndOf(status) ELSE v[p]
    BY <1>2, <2>3, <2>4 DEF Verdict, FeeInv, FeeTypeOK
  <2>5. CASE Paid(w)
    <3>1. Verdict(w, "PAID") /\ e[q] = 1
      BY <1>1, <2>2, <2>3, <2>5 DEF Paid
    <3>2. \A p \in Penalty : v'[p] = IF p = q THEN "settled" ELSE v[p]
      BY <2>4, <3>1 DEF FeeEndOf
    <3>3. v' = [v EXCEPT ![q] = "settled"]
      BY <1>3, <3>2
    <3>4. FeeOutbox!Settle(q)
      BY <2>1, <3>1, <3>3 DEF FeeOutbox!Settle, FeeOutbox!InHand, e, v, FeeEndOf
    <3>. QED BY <3>4
  <2>6. CASE Retry(w)
    <3>1. \A p \in Penalty : v'[p] = IF p = q THEN "open" ELSE v[p]
      BY <2>4, <2>6 DEF Retry, FeeEndOf
    <3>2. v' = [v EXCEPT ![q] = "open"]
      BY <1>3, <3>1
    <3>3. FeeOutbox!Reopen(q)
      BY <2>1, <3>2 DEF FeeOutbox!Reopen, e, v, FeeEndOf
    <3>. QED BY <3>3
  <2>7. CASE GiveUp(w)
    <3>1. \A p \in Penalty : v'[p] = IF p \in {q} THEN "given_up" ELSE v[p]
      BY <2>4, <2>7 DEF GiveUp, FeeEndOf
    <3>2. v' = [p \in Penalty |-> IF p \in {q} THEN "given_up" ELSE v[p]]
      BY <1>3, <3>1
    <3>3. FeeOutbox!GiveUp({q})
      BY <2>1, <3>2 DEF FeeOutbox!GiveUp, FeeOutbox!InHand, e, v, FeeEndOf
    <3>. QED BY <3>3
  <2>. QED BY <1>11, <2>5, <2>6, <2>7 DEF Verdicts
<1>. QED BY <1>4, <1>6, <1>7, <1>8, <1>9, <1>10, <1>11 DEF FeeNext, FeeOutbox!Next

\* The fees implement OutboxPromise: whatever crashes and overlaps, a fee takes
\* effect at most once and a row is settled only after it, though a slow pass may
\* end, or reopen, a row that another has ended.
THEOREM FeesKeepPromise == FeeSpec => FeePromise
<1>1. FeeInit => FeeOutbox!Init
  BY FS_EmptySet DEF FeeInit, FeeOutbox!Init
<1>2. FeeInv /\ FeeInv' /\ [FeeNext]_feeVars => [FeeOutbox!Next]_(FeeOutbox!promise)
  BY FeeStepKeepsPromise
<1>. QED BY <1>1, <1>2, FeeInvariant, PTL DEF FeeSpec, FeePromise, FeeOutbox!Spec
=============================================================================
