---------------------------- MODULE FraudProofs ----------------------------
(***************************************************************************)
(* What the penalty worker guarantees for any number of passes and attempts, *)
(* slow workers and lost answers included: one debit, no release of the      *)
(* buyer's hold before it, and nothing left open by a settled penalty.       *)
(* Then the other outbox that the arbitration of a fraud fills, that of      *)
(* BuyerCompensation.                                                       *)
(***************************************************************************)
EXTENDS FraudPenalty, BuyerCompensation, FiniteSetTheorems, TLAPS

\* One key was ever used, and a hold that was released followed a debit.
DebitOK ==
    /\ debits \subseteq {0}
    /\ hold = "released" => debits # {}

\* A closed escrow says what became of the hold.
ClosedOK ==
    /\ escrow = "CANCELLED" => hold = "released"
    /\ escrow = "RELEASED" => hold = "captured"

\* What a pass knows: the escrow it found closed is closed for good, a pass that
\* has debited left the debit at Stripe, and one that has released the hold did.
PassOK ==
    \A w \in Worker :
        /\ claim[w].step # "idle" /\ ~claim[w].held => escrow # "HELD"
        /\ claim[w].step \in {"charged", "released"} => debits # {}
        /\ claim[w].step = "released" /\ claim[w].held => hold = "released"

PInv == TypeOK /\ DebitOK /\ ClosedOK /\ PassOK /\ SettledIsComplete

Working == [step: {"claimed", "charged", "released", "failed"}, attempts: Nat, held: BOOLEAN]

LEMMA PassTyped ==
    ASSUME TypeOK, NEW w \in Worker, claim[w].step # "idle"
    PROVE  claim[w] \in Working
  BY DEF TypeOK, Idle, Working

LEMMA InitPInv == Init => PInv
<1>. SUFFICES ASSUME Init PROVE PInv
  OBVIOUS
<1>1. TypeOK
  BY DEF Init, TypeOK, PenaltyStatus
<1>2. DebitOK /\ ClosedOK /\ SettledIsComplete
  BY DEF Init, DebitOK, ClosedOK, SettledIsComplete
<1>3. PassOK
  BY DEF Init, PassOK, Idle
<1>. QED BY <1>1, <1>2, <1>3 DEF PInv

LEMMA ChargeSafe ==
    ASSUME PInv, NEW w \in Worker, Charge(w)
    PROVE  PInv'
<1>. USE DEF PInv
<1>1. claim[w] \in Working /\ claim[w].step = "claimed"
  BY PassTyped DEF Charge
<1>2. /\ debits' = debits \/ debits' = debits \cup {0}
      /\ UNCHANGED <<row, due, hold, escrow>>
      /\ \/ claim' = [claim EXCEPT ![w].step = "charged"] /\ debits' = debits \cup {0}
         \/ claim' = [claim EXCEPT ![w].step = "failed"]
  BY DEF Charge, Goto, Key
<1>3. debits \subseteq debits'
  BY <1>2
<1>4. TypeOK'
  BY <1>1, <1>2 DEF TypeOK, Working, Idle
<1>5. DebitOK' /\ ClosedOK' /\ SettledIsComplete'
  BY <1>2, <1>3 DEF DebitOK, ClosedOK, SettledIsComplete
<1>6. PassOK'
  <2>. SUFFICES ASSUME NEW v \in Worker
                PROVE  /\ claim'[v].step # "idle" /\ ~claim'[v].held => escrow' # "HELD"
                       /\ claim'[v].step \in {"charged", "released"} => debits' # {}
                       /\ claim'[v].step = "released" /\ claim'[v].held => hold' = "released"
    BY DEF PassOK
  <2>1. CASE v # w
    BY <1>2, <1>3, <2>1 DEF PassOK, TypeOK
  <2>2. CASE v = w
    BY <1>1, <1>2, <2>2 DEF PassOK, TypeOK, Working
  <2>. QED BY <2>1, <2>2
<1>. QED BY <1>4, <1>5, <1>6

LEMMA ReleaseSafe ==
    ASSUME PInv, NEW w \in Worker, Release(w)
    PROVE  PInv'
<1>. USE DEF PInv
<1>1. claim[w] \in Working /\ claim[w].step = "charged"
  BY PassTyped DEF Release
<1>2. debits # {}
  BY <1>1 DEF PassOK
<1>3. /\ UNCHANGED <<row, due, debits, escrow>>
      /\ hold' = hold \/ (hold \in {"authorized", "released"} /\ hold' = "released")
      /\ \/ /\ claim' = [claim EXCEPT ![w].step = "released"]
            /\ claim[w].held => hold' = "released"
         \/ claim' = [claim EXCEPT ![w].step = "failed"]
  BY DEF Release, Goto, Cancelled, TypeOK
<1>4. TypeOK'
  BY <1>1, <1>3 DEF TypeOK, Working, Idle
<1>5. DebitOK' /\ ClosedOK' /\ SettledIsComplete'
  BY <1>2, <1>3 DEF DebitOK, ClosedOK, SettledIsComplete
<1>6. PassOK'
  <2>. SUFFICES ASSUME NEW v \in Worker
                PROVE  /\ claim'[v].step # "idle" /\ ~claim'[v].held => escrow' # "HELD"
                       /\ claim'[v].step \in {"charged", "released"} => debits' # {}
                       /\ claim'[v].step = "released" /\ claim'[v].held => hold' = "released"
    BY DEF PassOK
  <2>1. CASE v # w
    BY <1>3, <2>1 DEF PassOK, TypeOK
  <2>2. CASE v = w
    BY <1>1, <1>2, <1>3, <2>2 DEF PassOK, TypeOK, Working
  <2>. QED BY <2>1, <2>2
<1>. QED BY <1>4, <1>5, <1>6

LEMMA SettleSafe ==
    ASSUME PInv, NEW w \in Worker, Settle(w)
    PROVE  PInv'
<1>. USE DEF PInv
<1>1. claim[w] \in Working /\ claim[w].step = "released"
  BY PassTyped DEF Settle
<1>2. debits # {} /\ (escrow = "HELD" => hold = "released")
  BY <1>1 DEF PassOK, Working
<1>3. /\ UNCHANGED <<debits, hold>>
      /\ row' = [row EXCEPT !.status = "SETTLED"] /\ due' = FALSE
      /\ claim' = [claim EXCEPT ![w] = Idle]
      /\ escrow' = IF escrow = "HELD" THEN "CANCELLED" ELSE escrow
  BY DEF Settle
<1>4. TypeOK'
  BY <1>3 DEF TypeOK, PenaltyStatus
<1>5. DebitOK' /\ ClosedOK'
  BY <1>2, <1>3 DEF DebitOK, ClosedOK
<1>6. SettledIsComplete'
  BY <1>2, <1>3 DEF SettledIsComplete, ClosedOK, TypeOK
<1>7. PassOK'
  BY <1>3 DEF PassOK, TypeOK, Idle
<1>. QED BY <1>4, <1>5, <1>6, <1>7

LEMMA FailSafe ==
    ASSUME PInv, NEW w \in Worker, Fail(w)
    PROVE  PInv'
<1>. USE DEF PInv
<1>1. claim[w] \in Working
  BY PassTyped DEF Fail
<1>2. PICK status \in {"ABANDONED", "FAILED"} :
        row' = [status |-> status, attempts |-> row.attempts + 1]
  <2>1. CASE claim[w].attempts + 1 >= MaxAttempts
    BY <2>1 DEF Fail
  <2>2. CASE ~(claim[w].attempts + 1 >= MaxAttempts)
    BY <2>2 DEF Fail
  <2>. QED BY <2>1, <2>2
<1>3. UNCHANGED <<debits, hold, escrow>> /\ due' = FALSE /\ claim' = [claim EXCEPT ![w] = Idle]
  BY DEF Fail
<1>4. TypeOK'
  <2>1. row.attempts + 1 \in Nat
    BY DEF TypeOK
  <2>2. row' \in [status: PenaltyStatus, attempts: Nat]
    BY <1>2, <2>1 DEF PenaltyStatus
  <2>. QED BY <1>3, <2>2 DEF TypeOK
<1>5. DebitOK' /\ ClosedOK' /\ SettledIsComplete'
  BY <1>2, <1>3 DEF DebitOK, ClosedOK, SettledIsComplete
<1>6. PassOK'
  BY <1>3 DEF PassOK, TypeOK, Idle
<1>. QED BY <1>4, <1>5, <1>6

LEMMA ClaimSafe ==
    ASSUME PInv, NEW w \in Worker, ClaimNext(w)
    PROVE  PInv'
<1>. USE DEF PInv
<1>1. /\ UNCHANGED <<debits, hold, escrow>> /\ due' = FALSE
      /\ row' = [row EXCEPT !.status = "SUBMITTED"]
      /\ claim' = [claim EXCEPT ![w] =
                     [step |-> "claimed", attempts |-> row.attempts, held |-> escrow = "HELD"]]
  BY DEF ClaimNext
<1>2. TypeOK'
  BY <1>1 DEF TypeOK, PenaltyStatus
<1>3. DebitOK' /\ ClosedOK' /\ SettledIsComplete'
  BY <1>1 DEF DebitOK, ClosedOK, SettledIsComplete, TypeOK
<1>4. PassOK'
  BY <1>1 DEF PassOK, TypeOK
<1>. QED BY <1>2, <1>3, <1>4

LEMMA StepPInv == PInv /\ [Next]_vars => PInv'
<1>. SUFFICES ASSUME PInv, [Next]_vars PROVE PInv'
  OBVIOUS
<1>1. CASE TimePasses
  BY <1>1 DEF TimePasses, PInv, TypeOK, DebitOK, ClosedOK, PassOK, SettledIsComplete
<1>2. CASE HoldMoves
  BY <1>2 DEF HoldMoves, PInv, TypeOK, DebitOK, ClosedOK, PassOK, SettledIsComplete
<1>3. CASE HandleCapture
  BY <1>3 DEF HandleCapture, PInv, TypeOK, DebitOK, ClosedOK, PassOK, SettledIsComplete
<1>4. ASSUME NEW w \in Worker, Crash(w) PROVE PInv'
  BY <1>4 DEF Crash, PInv, TypeOK, DebitOK, ClosedOK, PassOK, SettledIsComplete, Idle
<1>5. CASE UNCHANGED vars
  BY <1>5 DEF vars, PInv, TypeOK, DebitOK, ClosedOK, PassOK, SettledIsComplete
<1>. QED
  BY <1>1, <1>2, <1>3, <1>4, <1>5, ChargeSafe, ReleaseSafe, SettleSafe, FailSafe, ClaimSafe
  DEF Next, Pass

LEMMA Invariant == Spec => []PInv
  BY InitPInv, StepPInv, PTL DEF Spec

\* The row, the passes, the hold and the escrow always have their types.
THEOREM PenaltyTypeCorrect == Spec => []TypeOK
<1>1. PInv => TypeOK
  BY DEF PInv
<1>. QED BY <1>1, Invariant, PTL

\* The traveler is debited at most once.
THEOREM DebitedAtMostOnce == Spec => []DebitedOnce
<1>1. PInv => DebitedOnce
  <2>. SUFFICES ASSUME PInv PROVE Cardinality(debits) <= 1
    BY DEF DebitedOnce
  <2>1. debits = {} \/ debits = {0}
    BY DEF PInv, DebitOK
  <2>2. Cardinality(debits) = 0 \/ Cardinality(debits) = 1
    BY <2>1, FS_EmptySet, FS_Singleton
  <2>. QED BY <2>2
<1>. QED BY <1>1, Invariant, PTL

\* The buyer's hold is never released before the debit, nor the escrow closed
\* before the release.
THEOREM BuyerAlwaysWaitsForDebit == Spec => []BuyerWaitsForDebit
<1>1. PInv => BuyerWaitsForDebit
  BY DEF PInv, DebitOK, ClosedOK, BuyerWaitsForDebit
<1>. QED BY <1>1, Invariant, PTL

\* A settled penalty leaves nothing open.
THEOREM SettledIsAlwaysComplete == Spec => []SettledIsComplete
<1>1. PInv => SettledIsComplete
  BY DEF PInv
<1>. QED BY <1>1, Invariant, PTL

-----------------------------------------------------------------------------
(* The promise of an outbox.                                                *)

\* Without slow workers one pass at a time holds the row, which is not due.
LoneInv ==
    \A w \in Worker : claim[w].step # "idle" =>
        /\ row.status = "SUBMITTED" /\ ~due
        /\ \A v \in Worker : claim[v].step # "idle" => v = w

LEMMA InitLone == Init => LoneInv
BY DEF Init, LoneInv, Idle

LEMMA StepLone == ASSUME ~Overlap PROVE PInv /\ LoneInv /\ [Next]_vars => LoneInv'
<1>. SUFFICES ASSUME PInv, LoneInv, [Next]_vars PROVE LoneInv'
  OBVIOUS
<1>. USE DEF LoneInv, Idle
<1>0. claim \in [Worker -> {Idle} \cup Working]
  BY DEF PInv, TypeOK, Working
<1>1. CASE TimePasses
  BY <1>1 DEF TimePasses
<1>2. ASSUME NEW w \in Worker, ClaimNext(w) PROVE LoneInv'
  <2>1. row.status # "SUBMITTED" \/ due
    BY <1>2 DEF ClaimNext, Claimable
  <2>2. \A v \in Worker : claim[v].step = "idle"
    BY <2>1
  <2>3. row'.status = "SUBMITTED" /\ ~due' /\ \A v \in Worker \ {w} : claim'[v] = claim[v]
    BY <1>2 DEF ClaimNext, PInv, TypeOK
  <2>. QED BY <2>2, <2>3
<1>3. ASSUME NEW w \in Worker, Charge(w) \/ Release(w) PROVE LoneInv'
  <2>1. /\ claim[w].step # "idle" /\ row' = row /\ due' = due
        /\ \A v \in Worker \ {w} : claim'[v] = claim[v]
    BY <1>0, <1>3 DEF Charge, Release, Goto
  <2>. QED BY <2>1
<1>4. ASSUME NEW w \in Worker, Settle(w) \/ Fail(w) \/ Crash(w) PROVE LoneInv'
  <2>1. /\ claim[w].step # "idle"
        /\ claim' = [claim EXCEPT ![w] = Idle]
    BY <1>0, <1>4 DEF Settle, Fail, Crash, Working
  <2>2. \A v \in Worker : claim[v].step # "idle" => v = w
    BY <2>1
  <2>3. \A v \in Worker : claim'[v].step = "idle"
    BY <1>0, <2>1, <2>2
  <2>. QED BY <2>3
<1>5. CASE HoldMoves \/ HandleCapture \/ UNCHANGED vars
  BY <1>5 DEF HoldMoves, HandleCapture, vars
<1>. QED BY <1>1, <1>2, <1>3, <1>4, <1>5 DEF Next, Pass

\* What the row's status says to whoever reads the promise.
EndOf(status) == IF status = "SETTLED" THEN "settled"
                 ELSE IF status = "ABANDONED" THEN "given_up"
                 ELSE "open"

LEMMA StepKeepsPromise ==
    ASSUME PInv, PInv', Overlap \/ LoneInv, [Next]_vars
    PROVE  [Promise!Next]_(Promise!promise)
<1>. DEFINE Held == {"penalty"}
            e == [i \in Held |-> Cardinality(debits)]
            v == [i \in Held |-> EndOf(row.status)]
            p == "penalty"
<1>0. /\ e[p] = IF debits = {} THEN 0 ELSE 1
      /\ e'[p] = IF debits' = {} THEN 0 ELSE 1
  <2>1. debits \in {{}, {0}} /\ debits' \in {{}, {0}}
    BY DEF PInv, DebitOK
  <2>. QED BY <2>1, FS_EmptySet, FS_Singleton
<1>1. v[p] = EndOf(row.status) /\ v'[p] = EndOf(row'.status)
  OBVIOUS
<1>2. /\ e = [i \in Held |-> e[p]] /\ e' = [i \in Held |-> e'[p]]
      /\ v = [i \in Held |-> v[p]] /\ v' = [i \in Held |-> v'[p]]
  OBVIOUS
<1>3. Promise!promise = <<e, v>> /\ (Promise!promise)' = <<e', v'>>
  BY DEF Promise!promise, EndOf
<1>. HIDE DEF e, v
<1>4. ASSUME TimePasses \/ HoldMoves \/ HandleCapture \/ UNCHANGED vars
      PROVE  e' = e /\ v' = v
  BY <1>0, <1>1, <1>2, <1>4 DEF TimePasses, HoldMoves, HandleCapture, vars
<1>5. ASSUME NEW w \in Worker, ClaimNext(w) PROVE e' = e /\ v' = v
  <2>1. debits' = debits /\ EndOf(row'.status) = EndOf(row.status)
    BY <1>5 DEF ClaimNext, Claimable, EndOf, PInv, TypeOK
  <2>. QED BY <1>0, <1>1, <1>2, <2>1
<1>6. ASSUME NEW w \in Worker, claim[w].step # "idle" PROVE Overlap \/ v[p] = "open"
  BY <1>1, <1>6 DEF LoneInv, EndOf
<1>7. ASSUME NEW w \in Worker, Charge(w) PROVE v' = v /\ (e' = e \/ Promise!TakeEffect(p))
  <2>1. /\ row' = row /\ claim[w].step # "idle"
        /\ debits \subseteq debits'
    BY <1>7 DEF Charge, Key
  <2>2. v' = v /\ (Overlap \/ v[p] = "open")
    BY <1>1, <1>2, <1>6, <2>1
  <2>3. CASE e'[p] = e[p]
    BY <1>2, <2>2, <2>3
  <2>4. CASE e'[p] # e[p]
    <3>1. e[p] = 0 /\ e'[p] = 1
      BY <1>0, <2>1, <2>4
    <3>2. e' = [e EXCEPT ![p] = 1]
      BY <1>2, <3>1
    <3>. QED BY <2>2, <3>1, <3>2 DEF Promise!TakeEffect, Promise!InHand, e, v, EndOf
  <2>. QED BY <2>3, <2>4
<1>8. ASSUME NEW w \in Worker, Release(w) \/ Crash(w) PROVE e' = e /\ v' = v
  BY <1>0, <1>1, <1>2, <1>8 DEF Release, Crash
<1>9. ASSUME NEW w \in Worker, Settle(w) PROVE Promise!Settle(p)
  <2>1. /\ debits' = debits /\ debits # {} /\ row'.status = "SETTLED"
        /\ claim[w].step # "idle"
    BY <1>9 DEF Settle, PInv, PassOK, TypeOK
  <2>2. e' = e /\ e[p] = 1 /\ v'[p] = "settled" /\ (Overlap \/ v[p] = "open")
    BY <1>0, <1>1, <1>2, <1>6, <2>1 DEF EndOf
  <2>3. v' = [v EXCEPT ![p] = "settled"]
    BY <1>2, <2>2
  <2>. QED BY <2>2, <2>3 DEF Promise!Settle, Promise!InHand, e, v, EndOf
<1>10. ASSUME NEW w \in Worker, Fail(w)
       PROVE  \/ e' = e /\ v' = v
              \/ Promise!Reopen(p) \/ Promise!GiveUp({p})
  <2>1. /\ debits' = debits /\ row'.status \in {"ABANDONED", "FAILED"}
        /\ claim[w].step # "idle"
    BY <1>10 DEF Fail
  <2>2. e' = e /\ (Overlap \/ v[p] = "open")
    BY <1>0, <1>2, <1>6, <2>1
  <2>3. CASE row'.status = "ABANDONED"
    <3>1. v' = [i \in Held |-> IF i \in {p} THEN "given_up" ELSE v[i]]
      BY <1>1, <1>2, <2>3 DEF EndOf
    <3>. QED BY <2>2, <3>1 DEF Promise!GiveUp, Promise!InHand, e, v, EndOf
  <2>4. CASE row'.status = "FAILED"
    <3>1. v'[p] = "open" /\ v' = [v EXCEPT ![p] = "open"]
      BY <1>1, <1>2, <2>4 DEF EndOf
    <3>2. CASE Overlap
      BY <2>2, <3>1, <3>2 DEF Promise!Reopen, e, v, EndOf
    <3>3. CASE v[p] = "open"
      BY <1>2, <2>2, <3>1, <3>3
    <3>. QED BY <2>2, <3>2, <3>3
  <2>. QED BY <2>1, <2>3, <2>4
<1>. QED BY <1>3, <1>4, <1>5, <1>7, <1>8, <1>9, <1>10 DEF Next, Pass, Promise!Next

\* The penalty implements OutboxPromise: each step of a pass, of the clock or of the
\* hold is a step of the promise or none, whatever crashes and overlaps.
THEOREM PenaltyKeepsPromise == Spec => DebitPromise
<1>1. Init => Promise!Init
  BY FS_EmptySet DEF Init, Promise!Init
<1>2. CASE Overlap
  <2>1. PInv /\ PInv' /\ [Next]_vars => [Promise!Next]_(Promise!promise)
    BY <1>2, StepKeepsPromise
  <2>. QED BY <1>1, <2>1, Invariant, PTL DEF Spec, DebitPromise, Promise!Spec
<1>3. CASE ~Overlap
  <2>1. PInv /\ PInv' /\ LoneInv /\ [Next]_vars => [Promise!Next]_(Promise!promise)
    BY StepKeepsPromise
  <2>2. PInv /\ LoneInv /\ [Next]_vars => LoneInv'
    BY <1>3, StepLone
  <2>. QED BY <1>1, <2>1, <2>2, InitLone, Invariant, PTL
           DEF Spec, DebitPromise, Promise!Spec
<1>. QED BY <1>2, <1>3

-----------------------------------------------------------------------------
(* The compensation of the buyer, for any number of rows.  With any processes *)
(* and faults, a settled row was credited and a row is given up at its last   *)
(* attempt.  With one process and no lost answer a row is credited just when  *)
(* it is settled: the rows a pass has listed are then still pending when it   *)
(* comes to them.                                                            *)

GInv == CompTypeOK /\ GivenUpAfterMax /\ SettledIsCredited

LEMMA InitGInv == CompInit => GInv
<1>. SUFFICES ASSUME CompInit PROVE GInv
  OBVIOUS
<1>1. NoPass \in [todo: SUBSET Row, seen: [Row -> 0..MaxCompAttempts - 1], failed: Row \cup {None}]
  BY DEF NoPass, MaxCompAttempts
<1>2. CompTypeOK
  BY <1>1 DEF CompInit, CompTypeOK, MaxCompAttempts
<1>3. GivenUpAfterMax /\ SettledIsCredited
  BY DEF CompInit, GivenUpAfterMax, SettledIsCredited, MaxCompAttempts
<1>. QED BY <1>2, <1>3 DEF GInv

\* A verdict is of the type of a row, settles nothing, and gives up at the limit.
LEMMA VerdictTyped ==
    ASSUME NEW n \in 0..MaxCompAttempts - 1
    PROVE  /\ Verdict(n + 1) \in [status: {"PENDING", "FAILED"}, attempts: 0..MaxCompAttempts]
           /\ Verdict(n + 1).status = "FAILED" <=> Verdict(n + 1).attempts = MaxCompAttempts
<1>1. n + 1 \in 0..MaxCompAttempts
  BY DEF MaxCompAttempts
<1>2. CASE n + 1 >= MaxCompAttempts
  BY <1>1, <1>2 DEF Verdict, MaxCompAttempts
<1>3. CASE ~(n + 1 >= MaxCompAttempts)
  BY <1>1, <1>3 DEF Verdict, MaxCompAttempts
<1>. QED BY <1>2, <1>3

\* The steps of a pass over its list keep its type.
LEMMA LeaveTyped ==
    ASSUME CompTypeOK, NEW i \in Instance, NEW r \in Row, Leave(i, r) \/ FailOn(i, r)
    PROVE  pass' \in [Instance -> [todo: SUBSET Row, seen: [Row -> 0..MaxCompAttempts - 1],
                                   failed: Row \cup {None}]]
<1>1. pass[i] \in [todo: SUBSET Row, seen: [Row -> 0..MaxCompAttempts - 1], failed: Row \cup {None}]
  BY DEF CompTypeOK
<1>2. CASE Leave(i, r)
  <2>1. [pass[i].seen EXCEPT ![r] = 0] \in [Row -> 0..MaxCompAttempts - 1]
    BY <1>1 DEF MaxCompAttempts
  <2>. DEFINE p == [todo |-> pass[i].todo \ {r}, failed |-> None,
                    seen |-> [pass[i].seen EXCEPT ![r] = 0]]
  <2>2. p \in [todo: SUBSET Row, seen: [Row -> 0..MaxCompAttempts - 1], failed: Row \cup {None}]
    BY <1>1, <2>1
  <2>3. pass' = [pass EXCEPT ![i] = p]
    BY <1>2 DEF Leave
  <2>. HIDE DEF p
  <2>. QED BY <2>2, <2>3 DEF CompTypeOK
<1>3. CASE FailOn(i, r)
  BY <1>1, <1>3 DEF FailOn, CompTypeOK
<1>. QED BY <1>2, <1>3

LEMMA StepGInv == GInv /\ [CompNext]_compVars => GInv'
<1>. SUFFICES ASSUME GInv, [CompNext]_compVars PROVE GInv'
  OBVIOUS
<1>. USE DEF GInv
<1>1. ASSUME NEW i \in Instance, List(i) PROVE GInv'
  <2>1. \A r \in Pending : compensation[r].attempts \in 0..MaxCompAttempts - 1
    BY DEF Pending, CompTypeOK, GivenUpAfterMax, MaxCompAttempts
  <2>2. [r \in Row |-> IF r \in Pending THEN compensation[r].attempts ELSE 0]
          \in [Row -> 0..MaxCompAttempts - 1]
    BY <2>1 DEF MaxCompAttempts
  <2>3. Pending \subseteq Row
    BY DEF Pending
  <2>4. CompTypeOK'
    BY <1>1, <2>2, <2>3 DEF List, CompTypeOK
  <2>. QED BY <1>1, <2>4 DEF List, GivenUpAfterMax, SettledIsCredited
<1>2. ASSUME NEW i \in Instance, Catch(i) PROVE GInv'
  <2>. DEFINE r == pass[i].failed
              v == Verdict(pass[i].seen[r] + 1)
  <2>1. r \in Row /\ pass[i].seen[r] \in 0..MaxCompAttempts - 1
    BY <1>2 DEF Catch, CompTypeOK
  <2>2. /\ v \in [status: {"PENDING", "FAILED"}, attempts: 0..MaxCompAttempts]
        /\ v.status = "FAILED" <=> v.attempts = MaxCompAttempts
    BY <2>1, VerdictTyped
  <2>3. compensation' = [compensation EXCEPT ![r] = v] /\ Leave(i, r) /\ UNCHANGED credits
    BY <1>2 DEF Catch
  <2>. HIDE DEF v
  <2>4. CompTypeOK'
    BY <2>1, <2>2, <2>3, LeaveTyped DEF CompTypeOK
  <2>5. \A q \in Row : compensation'[q] = IF q = r THEN v ELSE compensation[q]
    BY <2>3 DEF CompTypeOK
  <2>. QED BY <2>1, <2>2, <2>3, <2>4, <2>5 DEF GivenUpAfterMax, SettledIsCredited
<1>3. ASSUME NEW i \in Instance, CompCrash(i) PROVE GInv'
  <2>1. NoPass \in [todo: SUBSET Row, seen: [Row -> 0..MaxCompAttempts - 1],
                    failed: Row \cup {None}]
    BY DEF NoPass, MaxCompAttempts
  <2>. QED BY <1>3, <2>1 DEF CompCrash, CompTypeOK, GivenUpAfterMax, SettledIsCredited
<1>4. ASSUME NEW i \in Instance, NEW r \in Row, Process(i, r) PROVE GInv'
  <2>1. Leave(i, r) \/ FailOn(i, r)
    BY <1>4 DEF Process
  <2>2. CASE UNCHANGED <<compensation, credits>>
    BY <2>1, <2>2, LeaveTyped DEF CompTypeOK, GivenUpAfterMax, SettledIsCredited
  <2>3. CASE /\ compensation' = [compensation EXCEPT
                                     ![r] = [status |-> "SETTLED", attempts |-> pass[i].seen[r] + 1]]
             /\ credits' = [credits EXCEPT ![r] = @ + 1]
    <3>1. pass[i].seen[r] + 1 \in 0..MaxCompAttempts
      BY DEF CompTypeOK, MaxCompAttempts
    <3>2. CompTypeOK'
      BY <2>1, <2>3, <3>1, LeaveTyped DEF CompTypeOK
    <3>. QED BY <2>3, <3>2 DEF CompTypeOK, GivenUpAfterMax, SettledIsCredited
  <2>. QED BY <1>4, <2>2, <2>3 DEF Process
<1>5. CASE UNCHANGED compVars
  BY <1>5 DEF compVars, CompTypeOK, GivenUpAfterMax, SettledIsCredited
<1>. QED BY <1>1, <1>2, <1>3, <1>4, <1>5 DEF CompNext

LEMMA GInvariant == CompSpec => []GInv
  BY InitGInv, StepGInv, PTL DEF CompSpec

\* Rows, credits and passes always have their types.
THEOREM CompensationTypeCorrect == CompSpec => []CompTypeOK
<1>1. GInv => CompTypeOK
  BY DEF GInv
<1>. QED BY <1>1, GInvariant, PTL

\* A row that is not settled is given up exactly at its last attempt, whatever
\* processes overlap.
THEOREM AlwaysGivenUpAfterMax == CompSpec => []GivenUpAfterMax
<1>1. GInv => GivenUpAfterMax
  BY DEF GInv
<1>. QED BY <1>1, GInvariant, PTL

\* A settled row was credited, whatever processes overlap.
THEOREM SettledIsAlwaysCredited == CompSpec => []SettledIsCredited
<1>1. GInv => SettledIsCredited
  BY DEF GInv
<1>. QED BY <1>1, GInvariant, PTL

-----------------------------------------------------------------------------
\* One process, whose answers are never lost.
Alone == Faults = {} /\ \A i, j \in Instance : i = j

\* What a pass has listed, and the row it has failed on, are still pending.
ListIsPending ==
    \A i \in Instance :
        /\ pass[i].todo \subseteq Pending
        /\ pass[i].failed # None => pass[i].failed \in Pending

SInv == GInv /\ CreditedIffSettled /\ ListIsPending

LEMMA StepSInv == ASSUME Alone, SInv, [CompNext]_compVars PROVE SInv'
<1>. USE DEF SInv
<1>1. GInv' /\ CompTypeOK
  BY StepGInv DEF GInv
<1>2. ASSUME NEW i \in Instance, List(i) PROVE CreditedIffSettled' /\ ListIsPending'
  BY <1>1, <1>2 DEF List, CreditedIffSettled, ListIsPending, Pending, CompTypeOK
<1>3. ASSUME NEW i \in Instance, Catch(i) PROVE CreditedIffSettled' /\ ListIsPending'
  <2>. DEFINE r == pass[i].failed
              v == Verdict(pass[i].seen[r] + 1)
  <2>1. r \in Row /\ compensation[r].status = "PENDING" /\ v.status # "SETTLED"
    <3>1. r \in Pending /\ r # None
      BY <1>3 DEF Catch, ListIsPending
    <3>2. r \in Row /\ compensation[r].status = "PENDING"
      BY <3>1 DEF Pending
    <3>3. pass[i].seen[r] \in 0..MaxCompAttempts - 1
      BY <1>1, <3>2 DEF CompTypeOK
    <3>. QED BY <3>2, <3>3, VerdictTyped
  <2>2. compensation' = [compensation EXCEPT ![r] = v] /\ Leave(i, r) /\ UNCHANGED credits
    BY <1>3 DEF Catch
  <2>. HIDE DEF v
  <2>3. \A q \in Row : compensation'[q] = IF q = r THEN v ELSE compensation[q]
    BY <1>1, <2>2 DEF CompTypeOK
  <2>4. CreditedIffSettled'
    BY <2>1, <2>2, <2>3 DEF CreditedIffSettled
  <2>5. pass'[i].todo = pass[i].todo \ {r} /\ pass'[i].failed = None
    BY <1>1, <2>2 DEF Leave, CompTypeOK
  <2>6. ListIsPending'
    BY <2>3, <2>5 DEF ListIsPending, Pending, Alone
  <2>. QED BY <2>4, <2>6
<1>4. ASSUME NEW i \in Instance, CompCrash(i) PROVE CreditedIffSettled' /\ ListIsPending'
  BY <1>1, <1>4 DEF CompCrash, NoPass, CreditedIffSettled, ListIsPending, Pending, CompTypeOK
<1>5. ASSUME NEW i \in Instance, NEW r \in Row, Process(i, r)
      PROVE  CreditedIffSettled' /\ ListIsPending'
  <2>1. r \in pass[i].todo /\ compensation[r].status = "PENDING"
    BY <1>5 DEF Process, ListIsPending, Pending
  <2>2. CASE UNCHANGED <<compensation, credits>> /\ FailOn(i, r)
    BY <1>1, <2>1, <2>2 DEF FailOn, CreditedIffSettled, ListIsPending, Pending, CompTypeOK
  <2>3. CASE /\ compensation' = [compensation EXCEPT
                                     ![r] = [status |-> "SETTLED", attempts |-> pass[i].seen[r] + 1]]
             /\ credits' = [credits EXCEPT ![r] = @ + 1]
             /\ Leave(i, r)
    <3>1. \A q \in Row \ {r} : compensation'[q] = compensation[q] /\ credits'[q] = credits[q]
      BY <1>1, <2>3 DEF CompTypeOK
    <3>2. compensation'[r].status = "SETTLED" /\ credits'[r] = 1
      BY <1>1, <2>1, <2>3 DEF CompTypeOK, CreditedIffSettled
    <3>3. CreditedIffSettled'
      BY <3>1, <3>2 DEF CreditedIffSettled
    <3>4. pass'[i].todo = pass[i].todo \ {r} /\ pass'[i].failed = None
      BY <1>1, <2>3 DEF Leave, CompTypeOK
    <3>5. ListIsPending'
      BY <3>1, <3>4 DEF ListIsPending, Pending, Alone
    <3>. QED BY <3>3, <3>5
  <2>. QED BY <1>5, <2>1, <2>2, <2>3 DEF Process, Alone
<1>6. CASE UNCHANGED compVars
  <2>1. compensation' = compensation /\ credits' = credits /\ pass' = pass
    BY <1>6 DEF compVars
  <2>2. Pending' = Pending
    BY <2>1 DEF Pending
  <2>. QED BY <1>1, <2>1, <2>2 DEF CreditedIffSettled, ListIsPending
<1>. QED BY <1>1, <1>2, <1>3, <1>4, <1>5, <1>6 DEF CompNext

\* One process and no lost answer: a row is credited once if it is settled, and
\* never while it is pending or when it was given up.
THEOREM AloneCreditsOnce == ASSUME Alone PROVE CompSpec => []CreditedIffSettled
<1>1. CompInit => SInv
  <2>. SUFFICES ASSUME CompInit PROVE CreditedIffSettled /\ ListIsPending
    BY InitGInv DEF SInv
  <2>. QED BY DEF CompInit, NoPass, CreditedIffSettled, ListIsPending
<1>2. SInv /\ [CompNext]_compVars => SInv'
  BY StepSInv
<1>3. SInv => CreditedIffSettled
  BY DEF SInv
<1>. QED BY <1>1, <1>2, <1>3, PTL DEF CompSpec
=============================================================================
