------------------------ MODULE TransferOutboxProofs ------------------------
(***************************************************************************)
(* What the transfer worker guarantees for every number of rows, of passes  *)
(* and of attempts.  A traveler is paid at most once even if slow workers   *)
(* overlap; the bound on attempts and the finality of a verdict need that   *)
(* a worker taken for dead is dead.                                         *)
(***************************************************************************)
EXTENDS TransferOutbox, FiniteSetTheorems, TLAPS

\* Type correctness, with the keys Stripe has seen and what a paid pass knows.
PaidOK ==
    /\ \A k \in transfers : k.attempt = 0
    /\ \A w \in Worker : claim[w].step = "paid" => Key(claim[w]) \in transfers
    /\ \A r \in Row : row[r].status = "SETTLED" => \E k \in transfers : k.row = r

PInv == TypeOK /\ PaidOK

LEMMA InitPInv == Init => PInv
BY OutboxAssumption DEF Init, PInv, TypeOK, PaidOK, Claim, Idle, TransferStatus

\* The row and the attempts of a pass that is under way.
LEMMA ClaimTyped ==
    ASSUME TypeOK, NEW w \in Worker, claim[w].step # "idle"
    PROVE  claim[w].row \in Row /\ claim[w].attempts \in Nat
BY DEF TypeOK, Claim, Idle

\* No step loses a transfer, settles a row without one, or uses another key.
LEMMA StepPInv == PInv /\ [Next]_vars => PInv'
<1> SUFFICES ASSUME PInv, [Next]_vars PROVE PInv'
  OBVIOUS
<1> USE DEF PInv, TypeOK, PaidOK, Claim, Idle, TransferStatus, KeySpace
<1>1. ASSUME NEW r \in Row, TimePasses(r) PROVE PInv'
  BY <1>1 DEF TimePasses
<1>2. ASSUME NEW r \in Row, RequeueFailedTransfer(r) PROVE PInv'
  BY <1>2 DEF RequeueFailedTransfer, Requeued
<1>3. ASSUME NEW w \in Worker, CreateTransfer(w) PROVE PInv'
  <2>1. claim[w].row \in Row
    BY <1>3, ClaimTyped DEF CreateTransfer
  <2>2. Key(claim[w]) \in KeySpace
    BY <2>1 DEF Key
  <2>3. PICK answer \in {"paid", "error"} :
          /\ claim' = [claim EXCEPT ![w].step = answer]
          /\ \/ transfers' = transfers \cup {Key(claim[w])}
             \/ answer = "error" /\ UNCHANGED transfers
    BY <1>3 DEF CreateTransfer
  <2>4. transfers \subseteq transfers' /\ transfers' \subseteq KeySpace
    BY <2>2, <2>3
  <2>5. claim' \in [Worker -> Claim] /\ Key(claim'[w]) = Key(claim[w])
    BY <1>3, <2>1, <2>3, ClaimTyped DEF CreateTransfer, Key
  <2>6. \A k \in transfers' : k.attempt = 0
    BY <2>3 DEF Key
  <2>7. \A v \in Worker : claim'[v].step = "paid" => Key(claim'[v]) \in transfers'
    BY <2>3, <2>4, <2>5
  <2>8. QED
    BY <1>3, <2>4, <2>5, <2>6, <2>7 DEF CreateTransfer
<1>4. ASSUME NEW w \in Worker, Settle(w) PROVE PInv'
  <2>1. claim[w].row \in Row /\ Key(claim[w]) \in transfers
    BY <1>4, ClaimTyped DEF Settle
  <2>2. Key(claim[w]).row = claim[w].row
    BY DEF Key
  <2>3. QED
    BY <1>4, <2>1, <2>2 DEF Settle
<1>5. ASSUME NEW w \in Worker, Fail(w) PROVE PInv'
  <2>1. claim[w].row \in Row /\ claim[w].attempts \in Nat
    BY <1>5, ClaimTyped DEF Fail
  <2>2. Verdict(claim[w]).status \in {"ABANDONED", "FAILED"}
    BY <2>1 DEF Verdict
  <2>3. Verdict(claim[w]) \in [status: TransferStatus, attempts: Nat]
    BY <2>1 DEF Verdict
  <2> DEFINE v == Verdict(claim[w])
             q == claim[w].row
  <2> HIDE DEF v
  <2>4. row' = [row EXCEPT ![q] = v] /\ UNCHANGED transfers
    BY <1>5 DEF Fail, v
  <2>5. \A r \in Row : row'[r] = IF r = q THEN v ELSE row[r]
    BY <2>4
  <2>6. row' \in [Row -> [status: TransferStatus, attempts: Nat]]
    BY <2>3, <2>4 DEF v
  <2>7. due' \subseteq Row /\ claim' \in [Worker -> Claim]
    BY <1>5 DEF Fail
  <2>8. \A u \in Worker : claim'[u].step = "paid" => claim'[u] = claim[u]
    BY <1>5 DEF Fail
  <2>9. QED
    BY <2>1, <2>2, <2>4, <2>5, <2>6, <2>7, <2>8 DEF v
<1>6. ASSUME NEW w \in Worker, Crash(w) PROVE PInv'
  BY <1>6 DEF Crash
<1>7. ASSUME NEW w \in Worker, NEW r \in Row, ClaimNext(w, r) PROVE PInv'
  BY <1>7 DEF ClaimNext
<1>8. CASE UNCHANGED vars
  BY <1>8 DEF vars
<1>9. QED
  BY <1>1, <1>2, <1>3, <1>4, <1>5, <1>6, <1>7, <1>8 DEF Next, Pass

LEMMA PaidInvariant == Spec => []PInv
BY InitPInv, StepPInv, PTL DEF Spec

\* The rows, the claims and the keys always have their types.
THEOREM OutboxTypeCorrect == Spec => []TypeOK
<1>1. PInv => TypeOK
  BY DEF PInv
<1>2. QED
  BY <1>1, PaidInvariant, PTL

\* At most one transfer per row, slow workers and lost answers included.
THEOREM PaidAtMostOnce == Spec => []PaidOnce
<1>1. PInv => PaidOnce
  <2> SUFFICES ASSUME PInv, NEW r \in Row
               PROVE  Cardinality({k \in transfers : k.row = r}) <= 1
    BY DEF PaidOnce
  <2> DEFINE paid == {k \in transfers : k.row = r}
  <2>1. paid \subseteq {[row |-> r, attempt |-> 0]}
    BY DEF PInv, TypeOK, PaidOK, KeySpace
  <2> HIDE DEF paid
  <2>2. paid = {} \/ paid = {[row |-> r, attempt |-> 0]}
    BY <2>1
  <2>3. Cardinality(paid) = 0 \/ Cardinality(paid) = 1
    BY <2>2, FS_EmptySet, FS_Singleton
  <2>4. QED
    BY <2>3 DEF paid
<1>2. QED
  BY <1>1, PaidInvariant, PTL

\* A row called settled has its transfer at Stripe.
THEOREM SettledIsAlwaysPaid == Spec => []SettledIsPaid
<1>1. PInv => SettledIsPaid
  BY DEF PInv, PaidOK, SettledIsPaid
<1>2. QED
  BY <1>1, PaidInvariant, PTL

-----------------------------------------------------------------------------
(* Without slow workers a row is held by one pass, which knows its attempts. *)

HeldOK ==
    /\ \A w \in Worker : claim[w] # Idle =>
         LET r == claim[w].row
         IN  row[r].status = "SUBMITTED" /\ row[r].attempts = claim[w].attempts /\ r \notin due
    /\ \A v, w \in Worker :
         claim[v] # Idle /\ claim[w] # Idle /\ claim[v].row = claim[w].row => v = w

AttemptsOK ==
    \A r \in Row :
        /\ row[r].status = "ABANDONED" => row[r].attempts = MaxAttempts
        /\ row[r].status # "ABANDONED" => row[r].attempts < MaxAttempts

HInv == TypeOK /\ HeldOK /\ AttemptsOK

LEMMA InitHInv == Init => HInv
BY OutboxAssumption DEF Init, HInv, TypeOK, HeldOK, AttemptsOK, Claim, Idle, TransferStatus

\* A verdict counts the failure, and abandons the row exactly at the M-th.
LEMMA VerdictCounts ==
    ASSUME HInv, NEW w \in Worker, claim[w] # Idle
    PROVE  LET r == claim[w].row
           IN  /\ r \in Row
               /\ Verdict(claim[w]) \in [status: TransferStatus, attempts: Nat]
               /\ Verdict(claim[w]).status \in {"ABANDONED", "FAILED"}
               /\ Verdict(claim[w]).attempts <= MaxAttempts
               /\ Verdict(claim[w]).status = "ABANDONED" <=> Verdict(claim[w]).attempts = MaxAttempts
<1>1. /\ claim[w].row \in Row /\ claim[w].attempts \in Nat
      /\ row[claim[w].row] \in [status: TransferStatus, attempts: Nat]
      /\ row[claim[w].row].attempts = claim[w].attempts
      /\ row[claim[w].row].attempts < MaxAttempts
  BY DEF HInv, TypeOK, HeldOK, AttemptsOK, Claim, Idle
<1>2. QED
  BY <1>1, OutboxAssumption DEF Verdict, TransferStatus

LEMMA StepHInv == ASSUME ~Overlap PROVE HInv /\ [Next]_vars => HInv'
<1> SUFFICES ASSUME HInv, [Next]_vars PROVE HInv'
  OBVIOUS
<1> USE DEF HInv, TypeOK, HeldOK, AttemptsOK, Claim, Idle, TransferStatus, KeySpace
<1>1. ASSUME NEW r \in Row, TimePasses(r) PROVE HInv'
  BY <1>1 DEF TimePasses, Holds
<1>2. ASSUME NEW r \in Row, RequeueFailedTransfer(r) PROVE HInv'
  BY <1>2 DEF RequeueFailedTransfer, Requeued
<1>3. ASSUME NEW w \in Worker, CreateTransfer(w) PROVE HInv'
  <2>1. claim[w].row \in Row /\ Key(claim[w]) \in KeySpace
    BY <1>3, ClaimTyped DEF CreateTransfer, Key
  <2>2. PICK answer \in {"paid", "error"} :
          /\ claim' = [claim EXCEPT ![w].step = answer]
          /\ \/ transfers' = transfers \cup {Key(claim[w])}
             \/ answer = "error" /\ UNCHANGED transfers
    BY <1>3 DEF CreateTransfer
  <2>3. transfers' \subseteq KeySpace
    BY <2>1, <2>2
  <2>4. /\ claim' \in [Worker -> Claim]
        /\ claim[w] # Idle /\ claim'[w].row = claim[w].row
        /\ claim'[w].attempts = claim[w].attempts
        /\ \A v \in Worker \ {w} : claim'[v] = claim[v]
    BY <1>3, <2>1, <2>2, ClaimTyped DEF CreateTransfer
  <2> HIDE DEF Claim, KeySpace
  <2>5. QED
    BY <1>3, <2>3, <2>4, SMTT(30) DEF CreateTransfer
<1>4. ASSUME NEW w \in Worker, Settle(w) PROVE HInv'
  <2>1. claim[w] # Idle /\ claim[w].row \in Row
    BY <1>4, ClaimTyped DEF Settle
  <2>2. QED
    BY <1>4, <2>1 DEF Settle
<1>5. ASSUME NEW w \in Worker, Fail(w) PROVE HInv'
  <2> DEFINE v == Verdict(claim[w])
             q == claim[w].row
  <2>1. claim[w] # Idle
    BY <1>5 DEF Fail
  <2>2. /\ q \in Row /\ v \in [status: TransferStatus, attempts: Nat]
        /\ v.attempts <= MaxAttempts
        /\ v.status = "ABANDONED" <=> v.attempts = MaxAttempts
    BY <2>1, VerdictCounts
  <2> HIDE DEF v
  <2>3. row' = [row EXCEPT ![q] = v] /\ UNCHANGED transfers
    BY <1>5 DEF Fail, v
  <2>4. \A r \in Row : row'[r] = IF r = q THEN v ELSE row[r]
    BY <2>3
  <2>5. row' \in [Row -> [status: TransferStatus, attempts: Nat]]
    BY <2>2, <2>3
  <2>6. /\ claim' \in [Worker -> Claim] /\ claim'[w] = Idle
        /\ \A u \in Worker \ {w} : claim'[u] = claim[u]
        /\ due' \subseteq due
    BY <1>5 DEF Fail
  <2>7. AttemptsOK'
    <3>1. /\ v.status = "ABANDONED" => v.attempts = MaxAttempts
          /\ v.status # "ABANDONED" => v.attempts < MaxAttempts
      BY <2>2, OutboxAssumption
    <3>2. \A r \in Row : row'[r] = v \/ row'[r] = row[r]
      BY <2>4
    <3>3. QED
      BY <3>1, <3>2
  <2>8. HeldOK'
    BY <2>1, <2>4, <2>6
  <2>9. QED
    BY <2>3, <2>5, <2>6, <2>7, <2>8
<1>6. ASSUME NEW w \in Worker, Crash(w) PROVE HInv'
  BY <1>6 DEF Crash
<1>7. ASSUME NEW w \in Worker, NEW r \in Row, ClaimNext(w, r) PROVE HInv'
  <2>1. \A v \in Worker : claim[v] # Idle => claim[v].row # r
    BY <1>7 DEF ClaimNext, Claimable
  <2>2. row[r].attempts < MaxAttempts
    BY <1>7 DEF ClaimNext, Claimable
  <2>3. QED
    BY <1>7, <2>1, <2>2 DEF ClaimNext
<1>8. CASE UNCHANGED vars
  BY <1>8 DEF vars
<1>9. QED
  BY <1>1, <1>2, <1>3, <1>4, <1>5, <1>6, <1>7, <1>8 DEF Next, Pass

LEMMA HeldInvariant == ASSUME ~Overlap PROVE Spec => []HInv
<1>1. HInv /\ [Next]_vars => HInv'
  BY StepHInv
<1>2. QED
  BY <1>1, InitHInv, PTL DEF Spec

\* If a worker taken for dead is dead, a row is given up at its M-th failure,
\* whoever puts it back in the queue and however often passes crash.
THEOREM AlwaysGivenUpAfterM == ASSUME ~Overlap PROVE Spec => []GivenUpAfterM
<1>1. HInv => GivenUpAfterM
  BY OutboxAssumption DEF HInv, TypeOK, AttemptsOK, GivenUpAfterM
<1>2. QED
  BY <1>1, HeldInvariant, PTL

\* If a worker taken for dead is dead, a settled or abandoned row never changes.
THEOREM FinalRowsNeverChange == ASSUME ~Overlap PROVE Spec => FinalIsFinal
<1> DEFINE Kept(r) == row[r].status \in Final => row'[r] = row[r]
<1>1. ASSUME HInv, NEW r \in Row, Next PROVE Kept(r)
  <2> USE DEF HInv, TypeOK, HeldOK, Claim, Idle, Final
  <2>1. CASE row' = row
    BY <2>1
  <2>2. CASE \E q \in Row : RequeueFailedTransfer(q)
    BY <2>2 DEF RequeueFailedTransfer
  <2>3. CASE \E w \in Worker, q \in Row : ClaimNext(w, q)
    BY <2>3 DEF ClaimNext, Claimable
  <2>4. CASE \E w \in Worker : Settle(w) \/ Fail(w)
    <3>1. PICK w \in Worker : Settle(w) \/ Fail(w)
      BY <2>4
    <3>2. claim[w] # Idle /\ row[claim[w].row].status = "SUBMITTED"
      BY <1>1, <3>1 DEF Settle, Fail
    <3>3. r # claim[w].row => row'[r] = row[r]
      BY <1>1, <3>1 DEF Settle, Fail
    <3>. QED BY <3>2, <3>3
  <2>. QED
    BY <1>1, <2>1, <2>2, <2>3, <2>4 DEF Next, Pass, TimePasses, CreateTransfer, Crash
<1>2. HInv /\ [Next]_vars => [\A r \in Row : Kept(r)]_vars
  BY <1>1
<1>. QED BY <1>2, HeldInvariant, PTL DEF Spec, FinalIsFinal

-----------------------------------------------------------------------------
(* The promise of an outbox.                                                *)

\* The key of a row, and how often the row was paid: with one key, once or never.
KeyOf(r) == [row |-> r, attempt |-> 0]

Times(T, r) == Cardinality({k \in T : k.row = r})

LEMMA OnceOrNever ==
    ASSUME NEW T \in SUBSET KeySpace, \A k \in T : k.attempt = 0, NEW r \in Row
    PROVE  Times(T, r) = IF KeyOf(r) \in T THEN 1 ELSE 0
<1>1. {k \in T : k.row = r} = IF KeyOf(r) \in T THEN {KeyOf(r)} ELSE {}
  BY DEF KeySpace, KeyOf
<1>. QED BY <1>1, FS_EmptySet, FS_Singleton DEF Times

\* What a row's status says to whoever reads the promise.
EndOf(status) == IF status = "SETTLED" THEN "settled"
                 ELSE IF status = "ABANDONED" THEN "given_up"
                 ELSE "open"

\* A pass that holds a row finds it open, if no slow worker is about.
LEMMA HeldIsOpen ==
    ASSUME Overlap \/ HInv, NEW w \in Worker, claim[w].step # "idle"
    PROVE  Overlap \/ row[claim[w].row].status = "SUBMITTED"
BY DEF HInv, HeldOK, Idle

LEMMA StepKeepsPromise ==
    ASSUME PInv, PInv', Overlap \/ HInv, [Next]_vars
    PROVE  [Promise!Next]_(Promise!promise)
<1>. DEFINE e == [r \in Row |-> Times(transfers, r)]
            v == [r \in Row |-> EndOf(row[r].status)]
<1>0. /\ \A r \in Row : e[r] = IF KeyOf(r) \in transfers THEN 1 ELSE 0
      /\ \A r \in Row : e'[r] = IF KeyOf(r) \in transfers' THEN 1 ELSE 0
  BY OnceOrNever DEF PInv, TypeOK, PaidOK
<1>1. \A r \in Row : v[r] = EndOf(row[r].status) /\ v'[r] = EndOf(row'[r].status)
  OBVIOUS
<1>2. /\ e = [r \in Row |-> e[r]] /\ e' = [r \in Row |-> e'[r]]
      /\ v = [r \in Row |-> v[r]] /\ v' = [r \in Row |-> v'[r]]
  OBVIOUS
<1>3. Promise!promise = <<e, v>> /\ (Promise!promise)' = <<e', v'>>
  BY DEF Promise!promise, Times, EndOf
<1>. HIDE DEF e, v
<1>4. ASSUME NEW r \in Row, TimePasses(r) \/ RequeueFailedTransfer(r)
      PROVE  e' = e /\ v' = v
  <2>1. transfers' = transfers /\ \A q \in Row : EndOf(row'[q].status) = EndOf(row[q].status)
    BY <1>4 DEF TimePasses, RequeueFailedTransfer, Requeued, EndOf, PInv, TypeOK
  <2>. QED BY <1>0, <1>1, <1>2, <2>1
<1>5. ASSUME NEW w \in Worker, NEW r \in Row, ClaimNext(w, r) PROVE e' = e /\ v' = v
  <2>1. transfers' = transfers /\ \A q \in Row : EndOf(row'[q].status) = EndOf(row[q].status)
    BY <1>5 DEF ClaimNext, Claimable, EndOf, PInv, TypeOK
  <2>. QED BY <1>0, <1>1, <1>2, <2>1
<1>6. ASSUME NEW w \in Worker, CreateTransfer(w)
      PROVE  v' = v /\ (e' = e \/ \E i \in Row : Promise!TakeEffect(i))
  <2>0. PICK q \in Row : q = claim[w].row
    BY <1>6, ClaimTyped DEF CreateTransfer, PInv
  <2>1. /\ row' = row
        /\ Overlap \/ row[q].status = "SUBMITTED"
        /\ transfers' = transfers \/ transfers' = transfers \cup {KeyOf(q)}
    BY <1>6, <2>0, HeldIsOpen DEF CreateTransfer, Key, KeyOf, PInv
  <2>2. v' = v
    BY <1>1, <1>2, <2>1
  <2>3. CASE transfers' = transfers
    BY <1>0, <1>2, <2>2, <2>3
  <2>4. CASE transfers' # transfers
    <3>1. \A r \in Row : KeyOf(r) = KeyOf(q) => r = q
      BY DEF KeyOf
    <3>2. e[q] = 0 /\ \A r \in Row : e'[r] = IF r = q THEN 1 ELSE e[r]
      BY <1>0, <2>1, <2>4, <3>1
    <3>3. e' = [e EXCEPT ![q] = 1]
      BY <1>2, <3>2
    <3>4. Overlap \/ v[q] = "open"
      BY <1>1, <2>1 DEF EndOf
    <3>5. Promise!TakeEffect(q)
      BY <2>2, <3>2, <3>3, <3>4 DEF Promise!TakeEffect, Promise!InHand, e, v, Times, EndOf
    <3>. QED BY <2>2, <3>5
  <2>. QED BY <2>3, <2>4
<1>7. ASSUME NEW w \in Worker, Settle(w) PROVE \E i \in Row : Promise!Settle(i)
  <2>0. PICK q \in Row : q = claim[w].row
    BY <1>7, ClaimTyped DEF Settle, PInv
  <2>1. /\ transfers' = transfers /\ KeyOf(q) \in transfers
        /\ Overlap \/ row[q].status = "SUBMITTED"
        /\ \A r \in Row : row'[r].status = IF r = q THEN "SETTLED" ELSE row[r].status
    BY <1>7, <2>0, HeldIsOpen DEF Settle, Key, KeyOf, PInv, PaidOK, TypeOK
  <2>2. e' = e /\ e[q] = 1
    BY <1>0, <1>2, <2>1
  <2>3. \A r \in Row : v'[r] = IF r = q THEN "settled" ELSE v[r]
    BY <1>1, <2>1 DEF EndOf
  <2>4. v' = [v EXCEPT ![q] = "settled"]
    BY <1>2, <2>3
  <2>5. Overlap \/ v[q] = "open"
    BY <1>1, <2>1 DEF EndOf
  <2>6. Promise!Settle(q)
    BY <2>2, <2>4, <2>5 DEF Promise!Settle, Promise!InHand, e, v, Times, EndOf
  <2>. QED BY <2>6
<1>8. ASSUME NEW w \in Worker, Fail(w)
      PROVE  \/ e' = e /\ v' = v
             \/ \E i \in Row : Promise!Reopen(i)
             \/ \E items \in SUBSET Row : Promise!GiveUp(items)
  <2>0. PICK q \in Row : q = claim[w].row
    BY <1>8, ClaimTyped DEF Fail, PInv
  <2>1. PICK s \in {"ABANDONED", "FAILED"} :
          \A r \in Row : row'[r].status = IF r = q THEN s ELSE row[r].status
    <3>1. Verdict(claim[w]).status \in {"ABANDONED", "FAILED"}
      BY DEF Verdict
    <3>2. \A r \in Row : row'[r] = IF r = q THEN Verdict(claim[w]) ELSE row[r]
      BY <1>8, <2>0 DEF Fail, PInv, TypeOK
    <3>. QED BY <3>1, <3>2
  <2>2. /\ transfers' = transfers
        /\ Overlap \/ row[q].status = "SUBMITTED"
    BY <1>8, <2>0, HeldIsOpen DEF Fail, PInv
  <2>3. e' = e
    BY <1>0, <1>2, <2>2
  <2>4. Overlap \/ v[q] = "open"
    BY <1>1, <2>2 DEF EndOf
  <2>5. \A r \in Row : v'[r] = IF r = q THEN EndOf(s) ELSE v[r]
    BY <1>1, <2>1
  <2>6. CASE s = "ABANDONED"
    <3>1. v' = [r \in Row |-> IF r \in {q} THEN "given_up" ELSE v[r]]
      BY <1>2, <2>5, <2>6 DEF EndOf
    <3>2. Promise!GiveUp({q})
      BY <2>3, <2>4, <3>1 DEF Promise!GiveUp, Promise!InHand, e, v, Times, EndOf
    <3>. QED BY <3>2
  <2>7. CASE s = "FAILED"
    <3>1. v' = [v EXCEPT ![q] = "open"]
      BY <1>2, <2>5, <2>7 DEF EndOf
    <3>2. CASE Overlap
      <4>1. Promise!Reopen(q)
        BY <2>3, <3>1, <3>2 DEF Promise!Reopen, e, v, Times, EndOf
      <4>. QED BY <4>1
    <3>3. CASE v[q] = "open"
      BY <1>2, <2>2, <2>3, <3>1, <3>3
    <3>. QED BY <2>4, <3>2, <3>3
  <2>. QED BY <2>6, <2>7
<1>9. ASSUME NEW w \in Worker, Crash(w) PROVE e' = e /\ v' = v
  BY <1>0, <1>1, <1>2, <1>9 DEF Crash
<1>10. CASE UNCHANGED vars
  BY <1>0, <1>1, <1>2, <1>3, <1>10 DEF vars
<1>. QED BY <1>3, <1>4, <1>5, <1>6, <1>7, <1>8, <1>9, <1>10 DEF Next, Pass, Promise!Next

\* The payouts implement OutboxPromise: for any number of rows and passes each step of
\* a worker, of the clock or of operations is a step of the promise or none.
THEOREM TransfersKeepPromise == Spec => TransferPromise
<1>1. Init => Promise!Init
  <2>. SUFFICES ASSUME Init PROVE Promise!Init
    OBVIOUS
  <2>1. \A r \in Row : Times(transfers, r) = 0
    <3>1. \A r \in Row : {k \in transfers : k.row = r} = {}
      BY DEF Init
    <3>. QED BY <3>1, FS_EmptySet DEF Times
  <2>. QED BY <2>1 DEF Init, Promise!Init, Times
<1>2. CASE Overlap
  <2>1. PInv /\ PInv' /\ [Next]_vars => [Promise!Next]_(Promise!promise)
    BY <1>2, StepKeepsPromise
  <2>. QED BY <1>1, <2>1, PaidInvariant, PTL DEF Spec, TransferPromise, Promise!Spec
<1>3. CASE ~Overlap
  <2>1. PInv /\ PInv' /\ HInv /\ [Next]_vars => [Promise!Next]_(Promise!promise)
    BY StepKeepsPromise
  <2>2. Spec => []HInv
    BY <1>3, HeldInvariant
  <2>. QED BY <1>1, <2>1, <2>2, PaidInvariant, PTL DEF Spec, TransferPromise, Promise!Spec
<1>. QED BY <1>2, <1>3
=============================================================================
