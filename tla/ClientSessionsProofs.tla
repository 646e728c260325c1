------------------------ MODULE ClientSessionsProofs ------------------------
(***************************************************************************)
(* What the clients guarantee for any number of requests, verifications,     *)
(* tokens and moves.  They share no state, so each has an invariant of its    *)
(* own, and a step of one leaves those of the others alone.                   *)
(***************************************************************************)
EXTENDS ClientSessions, FiniteSetTheorems, TLAPS

-----------------------------------------------------------------------------
(* The limiter.                                                             *)

\* How many of the requests that were let in belong to the window that is open.
Present == IF counter = NoRow THEN 0
           ELSE IF counter.count > MaxHits THEN MaxHits ELSE counter.count

\* The first request of the open window tells how old the window is; those of the
\* window before the last are out of sight, and so is the first of the last one
\* when its row was purged.
RateInv ==
    /\ RateTypeOK
    /\ \A j, k \in Places : j <= k => entered[j] <= entered[k]
    /\ counter = NoRow => entered[MaxHits] = Horizon
    /\ counter # NoRow =>
         /\ counter.count > 0
         /\ entered[Present] = Horizon \/ entered[Present] + counter.left >= Horizon - 1
         /\ \A k \in Places : k >= Present + MaxHits => entered[k] = Horizon

LEMMA Bounds ==
  /\ MaxHits \in Nat /\ MaxHits >= 1
  /\ Window \in Nat /\ MaxLag \in Nat
  /\ Horizon \in Nat /\ Horizon >= 1 /\ Horizon = Window - MaxLag + 1
  /\ 1 \in Places /\ MaxHits \in Places /\ MaxHits + 1 \in Places /\ 2 * MaxHits \in Places
  /\ Places \subseteq Nat
BY RateAssumption DEF Horizon, Places

LEMMA RateInitInv == RateInit => RateInv
BY RateAssumption
   DEF RateInit, RateInv, RateTypeOK, NoRow, Idle, Places, Horizon, Present

LEMMA CountKeeps ==
  ASSUME RateInv, NEW h \in Hit, CountHit(h)
  PROVE  RateInv'
<1>. USE Bounds DEF Idle
<1>. DEFINE lag == hit[h]
            Shifted == [k \in Places |-> IF k = 1 THEN 0 ELSE entered[k - 1]]
<1>1. /\ lag \in 0..MaxLag
      /\ hit' \in [Hit -> {Idle} \cup 0..MaxLag]
      /\ counter' = Counted(lag)
      /\ counter \in [count: 0..MaxHits + 1, left: Int]
  BY DEF CountHit, RateInv, RateTypeOK
<1>2. /\ Shifted \in [Places -> 0..Horizon]
      /\ \A j, k \in Places : j <= k => Shifted[j] <= Shifted[k]
  <2>1. \A k \in Places : k = 1 \/ (k - 1 \in Places /\ k - 1 >= 1 /\ k > 1)
    BY DEF Places
  <2>2. /\ entered \in [Places -> 0..Horizon]
        /\ \A j, k \in Places : j <= k => entered[j] <= entered[k]
    BY DEF RateInv, RateTypeOK
  <2>3. Shifted \in [Places -> 0..Horizon]
    BY <2>1, <2>2
  <2>4. ASSUME NEW j \in Places, NEW k \in Places, j <= k PROVE Shifted[j] <= Shifted[k]
    <3>1. CASE j = 1
      BY <2>3, <3>1
    <3>2. CASE j # 1
      BY <2>1, <2>2, <2>4, <3>2
    <3>. QED BY <3>1, <3>2
  <2>. QED BY <2>3, <2>4
<1>3. CASE counter = NoRow \/ counter.left < -lag
  <2>1. /\ counter' = [count |-> 1, left |-> Window - lag]
        /\ counter'.count = 1 /\ counter'.left = Window - lag
        /\ counter' # NoRow
    BY <1>1, <1>3 DEF Counted, NoRow
  <2>2. entered' = Shifted
    BY <2>1 DEF CountHit
  <2>3. \A k \in Places : k >= MaxHits => entered[k] = Horizon
    <3>1. CASE counter = NoRow
      BY <3>1 DEF RateInv, RateTypeOK
    <3>2. CASE counter # NoRow
      <4>1. Present \in 1..MaxHits
        BY <3>2, <1>1 DEF Present, RateInv
      <4>2. counter.left <= -1 /\ counter.left \in Int
        BY <1>1, <1>3, <3>2
      <4>3. entered[Present] = Horizon
        <5>1. entered[Present] \in 0..Horizon
          BY <4>1 DEF RateInv, RateTypeOK, Places
        <5>2. entered[Present] = Horizon \/ entered[Present] + counter.left >= Horizon - 1
          BY <3>2 DEF RateInv
        <5>. QED BY <4>2, <5>1, <5>2
      <4>4. /\ entered \in [Places -> 0..Horizon]
            /\ \A j, k \in Places : j <= k => entered[j] <= entered[k]
        BY DEF RateInv, RateTypeOK
      <4>5. Present \in Places
        BY <4>1 DEF Places
      <4>. QED BY <4>1, <4>3, <4>4, <4>5
    <3>. QED BY <3>1, <3>2
  <2>4. Present' = 1
    BY <2>1 DEF Present
  <2>5. /\ Shifted[1] = 0
        /\ \A k \in Places : k >= 1 + MaxHits => Shifted[k] = Horizon
    BY <2>3 DEF Places
  <2>6. RateTypeOK'
    BY <1>1, <1>2, <2>1, <2>2 DEF RateTypeOK
  <2>. HIDE DEF Shifted
  <2>. QED BY <1>1, <1>2, <2>1, <2>2, <2>4, <2>5, <2>6 DEF RateInv
<1>4. CASE ~(counter = NoRow \/ counter.left < -lag)
  <2>. DEFINE n == IF counter.count > MaxHits THEN counter.count ELSE counter.count + 1
  <2>1. /\ counter' = [count |-> n, left |-> counter.left]
        /\ counter'.count = n /\ counter'.left = counter.left
        /\ counter.count > 0
        /\ n \in 1..MaxHits + 1
        /\ counter' # NoRow
    BY <1>1, <1>4 DEF Counted, NoRow, RateInv
  <2>2. RateTypeOK'
    BY <1>1, <1>2, <2>1 DEF RateTypeOK, CountHit, RateInv
  <2>3. CASE n > MaxHits
    <3>1. entered' = entered /\ Present' = Present
      BY <1>1, <1>4, <2>1, <2>3 DEF CountHit, Present
    <3>. QED BY <1>4, <2>1, <2>2, <3>1 DEF RateInv
  <2>4. CASE n <= MaxHits
    <3>1. /\ entered' = Shifted
          /\ Present' = n /\ n = Present + 1 /\ Present \in 1..MaxHits - 1
      BY <1>1, <1>4, <2>1, <2>4 DEF CountHit, Present
    <3>2. Shifted[n] = entered[Present]
      BY <2>4, <3>1 DEF Places
    <3>3. \A k \in Places : k >= n + MaxHits =>
            Shifted[k] = entered[k - 1] /\ entered[k - 1] = Horizon
      <4>. HIDE DEF n
      <4>. TAKE k \in Places
      <4>. HAVE k >= n + MaxHits
      <4>1. k - 1 \in Places /\ k - 1 >= Present + MaxHits /\ k # 1
        BY <3>1 DEF Places
      <4>2. entered[k - 1] = Horizon
        BY <1>4, <4>1 DEF RateInv
      <4>. QED BY <4>1, <4>2
    <3>. HIDE DEF Shifted, n
    <3>. QED BY <1>2, <1>4, <2>1, <2>2, <3>1, <3>2, <3>3 DEF RateInv
  <2>. QED BY <2>1, <2>3, <2>4
<1>. QED BY <1>3, <1>4

LEMMA TickKeeps == RateInv /\ Tick => RateInv'
<1>. SUFFICES ASSUME RateInv, Tick PROVE RateInv'
  OBVIOUS
<1>. USE Bounds DEF Idle
<1>. DEFINE Older(t) == IF t < Horizon THEN t + 1 ELSE Horizon
<1>1. /\ entered \in [Places -> 0..Horizon]
      /\ \A j, k \in Places : j <= k => entered[j] <= entered[k]
      /\ entered' = [k \in Places |-> Older(entered[k])]
  BY DEF RateInv, RateTypeOK, Tick
<1>2. /\ entered' \in [Places -> 0..Horizon]
      /\ \A j, k \in Places : j <= k => entered'[j] <= entered'[k]
      /\ \A k \in Places : entered[k] = Horizon => entered'[k] = Horizon
  <2>1. \A k \in Places : entered[k] \in 0..Horizon /\ entered'[k] = Older(entered[k])
    BY <1>1
  <2>2. \A t \in 0..Horizon : Older(t) \in 0..Horizon
    OBVIOUS
  <2>3. \A t, u \in 0..Horizon : t <= u => Older(t) <= Older(u)
    OBVIOUS
  <2>4. Older(Horizon) = Horizon
    OBVIOUS
  <2>. HIDE DEF Older
  <2>. QED BY <1>1, <2>1, <2>2, <2>3, <2>4
<1>3. hit' \in [Hit -> {Idle} \cup 0..MaxLag]
  BY DEF RateInv, RateTypeOK, Tick
<1>4. CASE counter = NoRow
  <2>1. counter' = counter
    BY <1>4 DEF Tick
  <2>. QED BY <1>2, <1>3, <1>4, <2>1 DEF RateInv, RateTypeOK
<1>5. CASE counter # NoRow
  <2>1. /\ counter \in [count: 0..MaxHits + 1, left: Int]
        /\ counter.count > 0 /\ counter.left \in Int
    BY <1>5 DEF RateInv, RateTypeOK
  <2>2. PICK rest \in {counter.left, counter.left - 1} :
          counter' = [count |-> counter.count, left |-> rest]
    BY <1>5, <2>1 DEF Tick
  <2>3. /\ counter'.count = counter.count /\ counter'.left = rest /\ rest \in Int
        /\ counter' # NoRow /\ counter' \in [count: 0..MaxHits + 1, left: Int]
    BY <2>1, <2>2 DEF NoRow
  <2>4. Present' = Present /\ Present \in 1..MaxHits
    BY <1>5, <2>1, <2>3 DEF Present
  <2>5. entered'[Present] = Horizon \/ entered'[Present] = entered[Present] + 1
    <3>1. \A k \in Places : entered'[k] = Horizon \/ entered'[k] = entered[k] + 1
      BY <1>1
    <3>2. Present \in Places
      BY <2>4 DEF Places
    <3>. QED BY <3>1, <3>2
  <2>6. entered'[Present] = Horizon \/ entered'[Present] + rest >= Horizon - 1
    <3>1. Present \in Places
      BY <2>4 DEF Places
    <3>2. entered[Present] \in 0..Horizon
      BY <1>1, <3>1
    <3>3. entered[Present] = Horizon \/ entered[Present] + counter.left >= Horizon - 1
      BY <1>5 DEF RateInv
    <3>4. rest >= counter.left - 1 /\ rest \in Int
      BY <2>1, <2>2
    <3>5. entered[Present] = Horizon => entered'[Present] = Horizon
      BY <1>2, <3>1
    <3>. QED BY <2>1, <2>5, <3>2, <3>3, <3>4, <3>5
  <2>. QED BY <1>2, <1>3, <1>5, <2>3, <2>4, <2>6 DEF RateInv, RateTypeOK
<1>. QED BY <1>4, <1>5

LEMMA RateStep == RateInv /\ [RateNext]_rate => RateInv'
<1>. SUFFICES ASSUME RateInv, [RateNext]_rate PROVE RateInv'
  OBVIOUS
<1>1. CASE Tick
  BY <1>1, TickKeeps
<1>2. CASE PurgeExpired
  <2>1. /\ entered' = entered /\ hit' = hit /\ counter' = NoRow
        /\ counter # NoRow /\ counter.left \in Int /\ counter.left < 0
        /\ entered \in [Places -> 0..Horizon]
        /\ \A j, k \in Places : j <= k => entered[j] <= entered[k]
    BY <1>2 DEF PurgeExpired, RateInv, RateTypeOK
  <2>2. Present \in Places /\ Present <= MaxHits
    BY <2>1, Bounds DEF Present, RateInv, RateTypeOK, Places
  <2>3. entered[Present] = Horizon
    BY <2>1, <2>2, Bounds DEF RateInv
  <2>4. entered[MaxHits] = Horizon
    BY <2>1, <2>2, <2>3, Bounds
  <2>5. NoRow \in [count: 0..MaxHits + 1, left: Int]
    BY Bounds DEF NoRow, Idle
  <2>. QED BY <2>1, <2>4, <2>5 DEF RateInv, RateTypeOK
<1>3. ASSUME NEW h \in Hit, Arrive(h) PROVE RateInv'
  BY <1>3, RateAssumption DEF Arrive, RateInv, RateTypeOK, Present
<1>4. ASSUME NEW h \in Hit, CountHit(h) PROVE RateInv'
  BY <1>4, CountKeeps
<1>5. ASSUME NEW h \in Hit, CountFails(h) PROVE RateInv'
  BY <1>5 DEF CountFails, RateInv, RateTypeOK, Present
<1>6. CASE UNCHANGED rate
  BY <1>6 DEF rate, RateInv, RateTypeOK, Present
<1>. QED BY <1>1, <1>2, <1>3, <1>4, <1>5, <1>6 DEF RateNext

-----------------------------------------------------------------------------
(* The codes.                                                               *)

\* The verifications that have found code c wrong and not counted it yet.
Uncounted(c) == {v \in Verifier : verifier[v].step = "wrong" /\ verifier[v].code = c}

\* The row in force has counted each failure of its code that is not to be counted
\* yet; a row that is there has opened no session.
LinkInv ==
    /\ LinkTypeOK
    /\ \A v \in Verifier : verifier[v].step # "idle" => verifier[v].code > 0
    /\ \A c \in Codes : c > codes => tried[c] = 0
    /\ link # NoLink => tried[link.code] <= link.attempts + Cardinality(Uncounted(link.code))
    /\ TriesAreBounded
    /\ Len(opened) + (IF link = NoLink THEN 0 ELSE 1) <= codes

LEMMA LinkInitInv == LinkInit => LinkInv
<1>. SUFFICES ASSUME LinkInit PROVE LinkInv
  OBVIOUS
<1>1. Cardinality(Verifier) \in Nat
  BY FS_CardinalityType, LinkAssumption
<1>2. LinkTypeOK
  BY LinkAssumption DEF LinkInit, LinkTypeOK, NoLink, AtRest, Codes
<1>3. TriesAreBounded
  BY <1>1, LinkAssumption DEF LinkInit, TriesAreBounded
<1>4. \A v \in Verifier : verifier[v].step = "idle"
  BY DEF LinkInit, AtRest
<1>. QED BY <1>2, <1>3, <1>4 DEF LinkInit, LinkInv

LEMMA UncountedFinite ==
  ASSUME NEW c
  PROVE  /\ IsFiniteSet(Uncounted(c)) /\ Cardinality(Uncounted(c)) \in Nat
         /\ Cardinality(Verifier) \in Nat
         /\ \A v \in Verifier : v \notin Uncounted(c) =>
              Cardinality(Uncounted(c)) < Cardinality(Verifier)
<1>1. IsFiniteSet(Verifier) /\ Cardinality(Verifier) \in Nat
  BY FS_CardinalityType, LinkAssumption
<1>2. Uncounted(c) \subseteq Verifier
  BY DEF Uncounted
<1>3. IsFiniteSet(Uncounted(c)) /\ Cardinality(Uncounted(c)) \in Nat
  BY <1>1, <1>2, FS_Subset, FS_CardinalityType
<1>4. ASSUME NEW v \in Verifier, v \notin Uncounted(c)
      PROVE  Cardinality(Uncounted(c)) < Cardinality(Verifier)
  <2>1. Uncounted(c) \in SUBSET Verifier /\ Uncounted(c) # Verifier
    BY <1>2, <1>4
  <2>2. /\ Cardinality(Uncounted(c)) <= Cardinality(Verifier)
        /\ Cardinality(Uncounted(c)) # Cardinality(Verifier)
    BY <1>1, <2>1, FS_Subset
  <2>. QED BY <1>1, <1>3, <2>2
<1>. QED BY <1>1, <1>3, <1>4

LEMMA FindKeeps ==
  ASSUME LinkInv, NEW v \in Verifier, Find(v)
  PROVE  LinkInv'
<1>. DEFINE c == link.code
            read(step) == [step |-> step, code |-> link.code, attempts |-> link.attempts]
<1>1. /\ link' = link /\ codes' = codes /\ opened' = opened
      /\ link # NoLink /\ c \in 1..codes /\ c \in Codes
      /\ link.attempts \in Nat /\ link.attempts < MaxAttempts
      /\ codes \in Nat
  BY LinkAssumption DEF Find, LinkInv, LinkTypeOK, Codes
<1>2. v \notin Uncounted(c) /\ verifier[v].step = "idle"
  BY DEF Find, Uncounted, AtRest
<1>3. tried[c] \in Nat /\ tried[c] <= link.attempts + Cardinality(Uncounted(c))
  BY <1>1 DEF LinkInv, LinkTypeOK
<1>4. PICK step \in {"right", "wrong"} :
        /\ verifier' = [verifier EXCEPT ![v] = read(step)]
        /\ step = "right" => tried' = tried
        /\ step = "wrong" => tried' = [tried EXCEPT ![c] = @ + 1]
  BY DEF Find
<1>5. LinkTypeOK' /\ (\A w \in Verifier : verifier[w].step # "idle" => verifier[w].code > 0)'
  BY <1>1, <1>3, <1>4 DEF LinkInv, LinkTypeOK
<1>6. CASE step = "right"
  <2>1. Uncounted(c)' = Uncounted(c)
    BY <1>1, <1>2, <1>4, <1>6 DEF Uncounted, LinkInv, LinkTypeOK
  <2>. QED BY <1>1, <1>4, <1>5, <1>6, <2>1 DEF LinkInv, TriesAreBounded
<1>7. CASE step = "wrong"
  <2>1. Uncounted(c)' = Uncounted(c) \cup {v}
    BY <1>1, <1>4, <1>7 DEF Uncounted, LinkInv, LinkTypeOK
  <2>2. Cardinality(Uncounted(c)') = Cardinality(Uncounted(c)) + 1
    BY <1>2, <2>1, UncountedFinite, FS_AddElement
  <2>3. /\ tried'[c] = tried[c] + 1
        /\ \A d \in Codes : d # c => tried'[d] = tried[d]
    BY <1>1, <1>4, <1>7 DEF LinkInv, LinkTypeOK
  <2>4. tried'[c] < MaxAttempts + Cardinality(Verifier)
    BY <1>1, <1>2, <1>3, <2>3, UncountedFinite, LinkAssumption
  <2>5. TriesAreBounded'
    BY <2>3, <2>4 DEF TriesAreBounded, LinkInv
  <2>6. tried'[c] <= link.attempts + Cardinality(Uncounted(c)')
    BY <1>1, <1>3, <2>2, <2>3, UncountedFinite
  <2>7. \A d \in Codes : d > codes => tried'[d] = 0
    BY <1>1, <2>3 DEF LinkInv
  <2>. QED BY <1>1, <1>5, <2>5, <2>6, <2>7 DEF LinkInv
<1>. QED BY <1>6, <1>7

LEMMA CountKeepsLink ==
  ASSUME LinkInv, NEW v \in Verifier, Count(v)
  PROVE  LinkInv'
<1>1. /\ codes' = codes /\ opened' = opened /\ tried' = tried
      /\ link' = IF link = NoLink THEN link ELSE [link EXCEPT !.attempts = @ + 1]
      /\ verifier' = [verifier EXCEPT ![v] = AtRest]
      /\ codes \in Nat
  BY LinkAssumption DEF Count, LinkInv, LinkTypeOK
<1>2. LinkTypeOK'
  <2>1. /\ link' \in [code: 0..codes, attempts: Nat, old: BOOLEAN]
        /\ link'.code = link.code
        /\ link' = NoLink <=> link = NoLink
    <3>1. /\ link \in [code: 0..codes, attempts: Nat, old: BOOLEAN]
          /\ link.code = 0 <=> link = NoLink
          /\ NoLink.code = 0
      BY DEF LinkInv, LinkTypeOK, NoLink
    <3>2. CASE link = NoLink
      BY <1>1, <3>1, <3>2
    <3>3. CASE link # NoLink
      <4>1. link' = [link EXCEPT !.attempts = link.attempts + 1]
        BY <1>1, <3>3
      <4>. QED BY <3>1, <3>3, <4>1
    <3>. QED BY <3>2, <3>3
  <2>2. AtRest \in [step: {"idle", "right", "wrong"}, code: 0..codes, attempts: Nat]
    BY <1>1 DEF AtRest
  <2>. QED BY <1>1, <2>1, <2>2 DEF LinkInv, LinkTypeOK
<1>3. (\A w \in Verifier : verifier[w].step # "idle" => verifier[w].code > 0)'
  BY <1>1 DEF LinkInv, LinkTypeOK, AtRest
<1>4. CASE link = NoLink
  BY <1>1, <1>2, <1>3, <1>4 DEF LinkInv, TriesAreBounded
<1>5. CASE link # NoLink
  <2>. DEFINE c == link.code
  <2>1. /\ link'.code = c /\ link'.attempts = link.attempts + 1
        /\ link' # NoLink /\ c \in Codes /\ link.attempts \in Nat
    <3>1. /\ link \in [code: 0..codes, attempts: Nat, old: BOOLEAN]
          /\ link.code # 0 /\ codes \in 0..MaxCodes
      BY <1>5 DEF LinkInv, LinkTypeOK
    <3>2. link' = [link EXCEPT !.attempts = link.attempts + 1]
      BY <1>1, <1>5
    <3>. QED BY <3>1, <3>2, LinkAssumption DEF NoLink, Codes
  <2>2. Uncounted(c)' = Uncounted(c) \ {v}
    BY <1>1, <2>1 DEF Uncounted, LinkInv, LinkTypeOK, AtRest
  <2>3. Cardinality(Uncounted(c)') >= Cardinality(Uncounted(c)) - 1
    <3>1. CASE v \in Uncounted(c)
      <4>1. IsFiniteSet(Uncounted(c)) /\ Cardinality(Uncounted(c)) \in Nat
        BY UncountedFinite
      <4>2. Cardinality(Uncounted(c) \ {v}) = Cardinality(Uncounted(c)) - 1
        BY <3>1, <4>1, FS_RemoveElement
      <4>. QED BY <2>2, <4>1, <4>2
    <3>2. CASE v \notin Uncounted(c)
      <4>1. Uncounted(c)' = Uncounted(c)
        BY <2>2, <3>2
      <4>2. Cardinality(Uncounted(c)) \in Nat
        BY UncountedFinite
      <4>. QED BY <4>1, <4>2
    <3>. QED BY <3>1, <3>2
  <2>4. tried[c] \in Nat /\ tried[c] <= link.attempts + Cardinality(Uncounted(c))
    BY <1>5, <2>1 DEF LinkInv, LinkTypeOK
  <2>5. Cardinality(Uncounted(c)') \in Nat /\ Cardinality(Uncounted(c)) \in Nat
    <3>1. Uncounted(c)' \in SUBSET Uncounted(c)
      BY <2>2
    <3>. QED BY <3>1, UncountedFinite, FS_Subset, FS_CardinalityType
  <2>6. tried'[link'.code] <= link'.attempts + Cardinality(Uncounted(c)')
    <3>1. tried'[link'.code] = tried[c]
      BY <1>1, <2>1
    <3>. QED BY <2>1, <2>3, <2>4, <2>5, <3>1
  <2>7. Uncounted(c)' = Uncounted(link.code)'
    BY <2>1 DEF Uncounted
  <2>. QED BY <1>1, <1>2, <1>3, <1>5, <2>1, <2>6, <2>7 DEF LinkInv, TriesAreBounded
<1>. QED BY <1>4, <1>5

LEMMA LinkStep == LinkInv /\ [LinkNext]_magic => LinkInv'
<1>. SUFFICES ASSUME LinkInv, [LinkNext]_magic PROVE LinkInv'
  OBVIOUS
<1>1. CASE RequestLink
  <2>1. /\ codes \in Nat /\ codes' = codes + 1 /\ codes' \in Codes
        /\ link' = [code |-> codes + 1, attempts |-> 0, old |-> FALSE]
        /\ link' # NoLink /\ link'.code = codes + 1 /\ link'.attempts = 0
        /\ verifier' = verifier /\ opened' = opened /\ tried' = tried
    BY <1>1, LinkAssumption DEF RequestLink, LinkInv, LinkTypeOK, NoLink, Codes
  <2>2. LinkTypeOK'
    BY <1>1, <2>1, LinkAssumption DEF LinkInv, LinkTypeOK, RequestLink
  <2>3. tried'[codes + 1] = 0
    BY <2>1 DEF LinkInv
  <2>4. tried'[link'.code] <= link'.attempts + Cardinality(Uncounted(link.code)')
    <3>1. PICK c : c = codes + 1
      OBVIOUS
    <3>2. Uncounted(c)' = Uncounted(c)
      BY <2>1 DEF Uncounted
    <3>3. Uncounted(link.code)' = Uncounted(c)'
      BY <2>1, <3>1 DEF Uncounted
    <3>. QED BY <2>1, <2>3, <3>2, <3>3, UncountedFinite
  <2>. QED BY <2>1, <2>2, <2>4 DEF LinkInv, TriesAreBounded
<1>2. CASE GrowsOld
  <2>1. /\ link'.code = link.code /\ link'.attempts = link.attempts
        /\ link' = NoLink <=> link = NoLink
        /\ UNCHANGED <<codes, verifier, opened, tried>>
    BY <1>2 DEF GrowsOld, LinkInv, LinkTypeOK, NoLink
  <2>2. LinkTypeOK'
    BY <1>2, <2>1 DEF GrowsOld, LinkInv, LinkTypeOK, NoLink
  <2>. QED BY <2>1, <2>2 DEF LinkInv, TriesAreBounded, Uncounted
<1>3. ASSUME NEW v \in Verifier, Find(v) PROVE LinkInv'
  BY <1>3, FindKeeps
<1>4. ASSUME NEW v \in Verifier, Count(v) PROVE LinkInv'
  BY <1>4, CountKeepsLink
<1>5. ASSUME NEW v \in Verifier, Consume(v) PROVE LinkInv'
  <2>1. /\ codes' = codes /\ tried' = tried /\ link' = NoLink
        /\ verifier' = [verifier EXCEPT ![v] = AtRest]
        /\ opened' = IF link = NoLink THEN opened ELSE Append(opened, verifier[v].code)
        /\ codes \in Nat /\ opened \in Seq(Codes)
    BY <1>5, LinkAssumption DEF Consume, LinkInv, LinkTypeOK
  <2>2. verifier[v].code \in Codes
    BY <1>5, <2>1, LinkAssumption DEF Consume, LinkInv, LinkTypeOK, Codes
  <2>3. opened' \in Seq(Codes) /\ Len(opened') <= codes
    BY <2>1, <2>2 DEF LinkInv
  <2>. QED BY <2>1, <2>3 DEF LinkInv, LinkTypeOK, TriesAreBounded, AtRest, NoLink
<1>6. CASE UNCHANGED magic
  BY <1>6 DEF magic, LinkInv, LinkTypeOK, TriesAreBounded, Uncounted
<1>. QED BY <1>1, <1>2, <1>3, <1>4, <1>5, <1>6 DEF LinkNext

-----------------------------------------------------------------------------
(* The pages.                                                               *)

\* A page has one request under way, and none that it could press a button beside.
OneRequest ==
    \A u \in User, i \in Fetch : fetch[i].user = u =>
      /\ page[u].at # "away"
      /\ \A j \in Fetch : fetch[j].user = u => i = j
      /\ page[u].pressed = "none" => page[u].shown = Nothing

\* A button that is dark, and whose action is not known to be done, has a request that
\* the server has not done.
DarkHasRequest ==
    \A u \in User : page[u].pressed # "none" /\ u \notin granted =>
      \E i \in Fetch : /\ fetch[i].user = u /\ fetch[i].what = page[u].pressed
                       /\ fetch[i].step \in {"sent", "refused", "taken"}

\* The mission of an answer is not older than that of the page it is for, nor newer
\* than that of the server.
AnswersAreNewer ==
    /\ \A u \in User : page[u].shown.move <= row.move
    /\ \A u \in User, i \in Fetch : fetch[i].user = u /\ fetch[i].answer # Nothing =>
         page[u].shown.move <= fetch[i].answer.move
    /\ \A i \in Fetch : fetch[i].answer.move <= row.move

PagesInv == PagesTypeOK /\ OneRequest /\ DarkHasRequest /\ AnswersAreNewer

LEMMA ActionNames ==
  Actions = {"accept", "ship", "customs", "validate", "receive", "start", "submit", "match",
             "intent"}
BY DEF Actions, Buttons, Button, Accept, Ship, Customs, Validate, Receive, Start, Deposit,
       Take, Intent

LEMMA NothingSeen ==
  /\ Nothing \in Versions /\ Nothing.move = 0
  /\ \A v \in Versions : v.move \in 0..MaxMoves /\ v.move \in Nat
  /\ NoFetch \in Fetches /\ NoFetch.user = "none" /\ NoFetch.answer = Nothing
  /\ Away \in Views /\ Away.shown = Nothing /\ Away.pressed = "none"
BY PagesAssumption DEF Nothing, Seen, Versions, NoFetch, Fetches, Away, Views, User

LEMMA PagesInitInv == PagesInit => PagesInv
<1>. SUFFICES ASSUME PagesInit PROVE PagesInv
  OBVIOUS
<1>1. row \in Versions /\ row.move = 1
  BY PagesAssumption DEF PagesInit, Seen, Versions
<1>2. /\ \A u \in User : page[u] = Away
      /\ \A i \in Fetch : fetch[i] = NoFetch
      /\ page \in [User -> Views] /\ fetch \in [Fetch -> Fetches] /\ granted = {}
  BY NothingSeen DEF PagesInit
<1>3. "none" \notin User
  BY DEF User
<1>. QED BY <1>1, <1>2, <1>3, NothingSeen
       DEF PagesInv, PagesTypeOK, OneRequest, DarkHasRequest, AnswersAreNewer

\* The server changes one request, and the mission at most advances.
LEMMA RequestGoes ==
  ASSUME PagesInv, NEW i \in Fetch, NEW f \in Fetches,
         fetch' = [fetch EXCEPT ![i] = f],
         page' = page,
         row' \in Versions, row'.move >= row.move,
         granted \subseteq granted', granted' \subseteq User,
         f.user \in {fetch[i].user, "none"},
         f.answer \in {Nothing, fetch[i].answer, row},
         fetch[i].user \in User \ granted' /\ fetch[i].what # "load"
           /\ fetch[i].step \in {"sent", "refused", "taken"}
           => /\ f.user = fetch[i].user /\ f.what = fetch[i].what
              /\ f.step \in {"sent", "refused", "taken"}
  PROVE  PagesInv'
<1>. USE NothingSeen
<1>1. PagesTypeOK'
  BY DEF PagesInv, PagesTypeOK
<1>2. /\ fetch'[i] = f
      /\ \A j \in Fetch : j # i => fetch'[j] = fetch[j]
      /\ \A j \in Fetch : fetch'[j].user \in {fetch[j].user, "none"}
  BY DEF PagesInv, PagesTypeOK
<1>3. "none" \notin User
  BY DEF User
<1>4. OneRequest'
  BY <1>2, <1>3 DEF PagesInv, OneRequest
<1>5. DarkHasRequest'
  <2>. SUFFICES ASSUME NEW u \in User, page[u].pressed # "none", u \notin granted'
                PROVE  \E j \in Fetch : /\ fetch'[j].user = u
                                        /\ fetch'[j].what = page[u].pressed
                                        /\ fetch'[j].step \in {"sent", "refused", "taken"}
    BY DEF DarkHasRequest
  <2>1. PICK j \in Fetch : /\ fetch[j].user = u /\ fetch[j].what = page[u].pressed
                           /\ fetch[j].step \in {"sent", "refused", "taken"}
    BY DEF PagesInv, DarkHasRequest
  <2>2. page[u].pressed # "load"
    BY ActionNames DEF PagesInv, PagesTypeOK, Views
  <2>. QED BY <1>2, <2>1, <2>2
<1>6. AnswersAreNewer'
  <2>1. row.move \in Nat /\ row'.move \in Nat
    BY DEF PagesInv, PagesTypeOK
  <2>2. \A u \in User : page[u].shown.move \in Nat
    BY DEF PagesInv, PagesTypeOK, Views
  <2>3. \A j \in Fetch : fetch[j].answer.move \in Nat /\ fetch'[j].answer.move \in Nat
    BY <1>1 DEF PagesInv, PagesTypeOK, Fetches
  <2>4. \A u \in User : page[u].shown.move <= row'.move
    BY <2>1, <2>2 DEF PagesInv, AnswersAreNewer
  <2>5. f.answer.move <= row'.move
    BY <2>1, <2>3 DEF PagesInv, AnswersAreNewer
  <2>6. \A j \in Fetch : fetch'[j].answer.move <= row'.move
    BY <1>2, <2>1, <2>3, <2>5 DEF PagesInv, AnswersAreNewer
  <2>7. \A u \in User : f.user = u /\ f.answer # Nothing => page[u].shown.move <= f.answer.move
    BY <1>3 DEF PagesInv, AnswersAreNewer
  <2>8. \A u \in User, j \in Fetch :
          fetch'[j].user = u /\ fetch'[j].answer # Nothing
            => page[u].shown.move <= fetch'[j].answer.move
    BY <1>2, <2>7 DEF PagesInv, AnswersAreNewer
  <2>. QED BY <2>4, <2>6, <2>8 DEF AnswersAreNewer
<1>. QED BY <1>1, <1>4, <1>5, <1>6 DEF PagesInv

\* One user's page becomes p, with the requests of that user: those under way are
\* not answered, and one is for the button that is dark.
Turns(u, p) ==
  /\ \A j \in Fetch : fetch[j].user \in User \ {u} \/ fetch'[j].user \in User \ {u}
                        => fetch'[j] = fetch[j]
  /\ \A j \in Fetch : fetch'[j].user = u =>
        /\ p.at # "away"
        /\ \A k \in Fetch : fetch'[k].user = u => j = k
        /\ p.pressed = "none" => p.shown = Nothing
        /\ fetch'[j].answer = Nothing
  /\ \A j \in Fetch : fetch'[j].answer \in {Nothing, fetch[j].answer}
  /\ p.pressed # "none" /\ u \notin granted' =>
        \E j \in Fetch : /\ fetch'[j].user = u /\ fetch'[j].what = p.pressed
                         /\ fetch'[j].step = "sent"

LEMMA PageTurns ==
  ASSUME PagesInv, NEW u \in User, NEW p \in Views,
         page' = [page EXCEPT ![u] = p], row' = row,
         fetch' \in [Fetch -> Fetches],
         granted' \subseteq User, granted' \cup {u} = granted \cup {u}, Turns(u, p),
         p.shown.move <= row.move
  PROVE  PagesInv'
<1>. USE NothingSeen DEF Turns
<1>1. /\ page'[u] = p
      /\ \A w \in User : w # u => page'[w] = page[w]
      /\ PagesTypeOK'
  BY DEF PagesInv, PagesTypeOK
<1>2. OneRequest'
  <2>. SUFFICES ASSUME NEW w \in User, NEW i \in Fetch, fetch'[i].user = w
                PROVE  /\ page'[w].at # "away"
                       /\ \A j \in Fetch : fetch'[j].user = w => i = j
                       /\ page'[w].pressed = "none" => page'[w].shown = Nothing
    BY DEF OneRequest
  <2>1. CASE w = u
    BY <1>1, <2>1
  <2>2. CASE w # u
    <3>1. \A j \in Fetch : fetch'[j].user = w => fetch[j].user = w
      BY <2>2
    <3>. QED BY <1>1, <2>2, <3>1 DEF PagesInv, OneRequest
  <2>. QED BY <2>1, <2>2
<1>3. DarkHasRequest'
  <2>. SUFFICES ASSUME NEW w \in User, page'[w].pressed # "none", w \notin granted'
                PROVE  \E j \in Fetch : /\ fetch'[j].user = w
                                        /\ fetch'[j].what = page'[w].pressed
                                        /\ fetch'[j].step \in {"sent", "refused", "taken"}
    BY DEF DarkHasRequest
  <2>1. CASE w = u
    BY <1>1, <2>1
  <2>2. CASE w # u
    <3>1. PICK j \in Fetch : /\ fetch[j].user = w /\ fetch[j].what = page[w].pressed
                             /\ fetch[j].step \in {"sent", "refused", "taken"}
      BY <1>1, <2>2 DEF PagesInv, DarkHasRequest
    <3>. QED BY <1>1, <2>2, <3>1
  <2>. QED BY <2>1, <2>2
<1>4. AnswersAreNewer'
  <2>1. \A w \in User : page'[w].shown.move <= row.move
    BY <1>1 DEF PagesInv, AnswersAreNewer
  <2>2. \A j \in Fetch : fetch'[j].answer.move <= row.move
    BY DEF PagesInv, PagesTypeOK, AnswersAreNewer
  <2>3. ASSUME NEW w \in User, NEW j \in Fetch, fetch'[j].user = w, fetch'[j].answer # Nothing
        PROVE  page'[w].shown.move <= fetch'[j].answer.move
    <3>1. w # u
      BY <2>3
    <3>. QED BY <1>1, <2>3, <3>1 DEF PagesInv, AnswersAreNewer
  <2>. QED BY <2>1, <2>2, <2>3 DEF AnswersAreNewer
<1>. QED BY <1>1, <1>2, <1>3, <1>4 DEF PagesInv

LEMMA OpenKeeps ==
  ASSUME PagesInv, NEW u \in User, NEW at \in Linked(u), NEW i \in Fetch, Open(u, at, i)
  PROVE  PagesInv'
<1>. DEFINE f == [user |-> u, what |-> "load", step |-> "sent", answer |-> Nothing]
            p == [Away EXCEPT !.at = at]
<1>1. f \in Fetches /\ f.user = u /\ f.answer = Nothing
  BY NothingSeen DEF Fetches
<1>2. p \in Views /\ p.at # "away" /\ p.shown = Nothing /\ p.pressed = "none"
  BY NothingSeen DEF Away, Views, Linked
<1>3. /\ fetch \in [Fetch -> Fetches] /\ granted \subseteq User
      /\ row \in Versions /\ row.move \in Nat
  BY NothingSeen DEF PagesInv, PagesTypeOK
<1>4. fetch[i] = NoFetch /\ fetch' = [fetch EXCEPT ![i] = f]
  BY DEF Open, Ask
<1>5. \A j \in Fetch : fetch[j].user # u
  BY DEF Open, Away, PagesInv, OneRequest
<1>6. "none" \notin User
  BY DEF User
<1>7. page' = [page EXCEPT ![u] = p] /\ row' = row /\ granted' = granted \ {u}
  BY DEF Open
<1>8. /\ fetch' \in [Fetch -> Fetches] /\ fetch'[i] = f
      /\ \A j \in Fetch : j # i => fetch'[j] = fetch[j]
  BY <1>1, <1>3, <1>4
<1>9. granted' \subseteq User /\ granted' \cup {u} = granted \cup {u}
  BY <1>3, <1>7
<1>10. p.shown.move <= row.move
  BY <1>2, <1>3, NothingSeen
<1>. HIDE DEF f, p
<1>11. \A j \in Fetch : fetch[j].user \in User \ {u} \/ fetch'[j].user \in User \ {u}
                          => fetch'[j] = fetch[j]
  BY <1>1, <1>4, <1>6, <1>8, NothingSeen
<1>12. \A j \in Fetch : fetch'[j].user = u =>
         /\ p.at # "away"
         /\ \A k \in Fetch : fetch'[k].user = u => j = k
         /\ p.pressed = "none" => p.shown = Nothing
         /\ fetch'[j].answer = Nothing
  BY <1>1, <1>2, <1>5, <1>8
<1>13. \A j \in Fetch : fetch'[j].answer \in {Nothing, fetch[j].answer}
  BY <1>1, <1>8
<1>14. p.pressed # "none" /\ u \notin granted' =>
         \E j \in Fetch : /\ fetch'[j].user = u /\ fetch'[j].what = p.pressed
                          /\ fetch'[j].step = "sent"
  BY <1>2
<1>15. Turns(u, p)
  BY <1>11, <1>12, <1>13, <1>14 DEF Turns
<1>. QED BY <1>2, <1>7, <1>8, <1>9, <1>10, <1>15, PageTurns

LEMMA PressKeeps ==
  ASSUME PagesInv, NEW u \in User, NEW i \in Fetch, Press(u, i)
  PROVE  PagesInv'
<1>1. PICK b \in Offered(u, page[u]) :
        /\ Ask(i, u, b.what)
        /\ page' = [page EXCEPT ![u].pressed = b.what]
  BY DEF Press
<1>. DEFINE f == [user |-> u, what |-> b.what, step |-> "sent", answer |-> Nothing]
            p == [page[u] EXCEPT !.pressed = b.what]
<1>2. /\ b.what \in Actions /\ b.what # "none"
      /\ page[u].shown # Nothing /\ page[u].at # "away"
  <2>1. b \in Buttons /\ b.status = page[u].shown.status /\ b.at = page[u].at
    BY DEF Offered
  <2>2. b.what \in Actions
    BY <2>1 DEF Actions
  <2>3. b.status # "none" /\ b.at # "away"
    BY <2>1 DEF Buttons, Button, Accept, Ship, Customs, Validate, Receive, Start, Deposit,
                Take, Intent
  <2>. QED BY <2>1, <2>2, <2>3, ActionNames DEF Nothing, Seen
<1>3. f \in Fetches /\ f.user = u /\ f.answer = Nothing /\ f.what = b.what /\ f.step = "sent"
  BY <1>2, NothingSeen DEF Fetches
<1>4. /\ fetch \in [Fetch -> Fetches] /\ granted \subseteq User
      /\ page \in [User -> Views] /\ page[u] \in Views
      /\ row \in Versions /\ row.move \in Nat
  BY NothingSeen DEF PagesInv, PagesTypeOK
<1>5. /\ p \in Views /\ p.at = page[u].at /\ p.shown = page[u].shown /\ p.pressed = b.what
      /\ page' = [page EXCEPT ![u] = p]
  BY <1>1, <1>2, <1>4 DEF Views
<1>6. fetch[i] = NoFetch /\ fetch' = [fetch EXCEPT ![i] = f]
  BY <1>1 DEF Ask
<1>7. \A j \in Fetch : fetch[j].user # u
  BY <1>2 DEF Press, PagesInv, OneRequest
<1>8. "none" \notin User
  BY DEF User
<1>9. row' = row /\ granted' = granted \ {u} /\ page[u].pressed = "none"
  BY DEF Press
<1>10. /\ fetch' \in [Fetch -> Fetches] /\ fetch'[i] = f
       /\ \A j \in Fetch : j # i => fetch'[j] = fetch[j]
  BY <1>3, <1>4, <1>6
<1>11. granted' \subseteq User /\ granted' \cup {u} = granted \cup {u}
  BY <1>4, <1>9
<1>12. p.shown.move <= row.move
  BY <1>5 DEF PagesInv, AnswersAreNewer
<1>. HIDE DEF f, p
<1>13. \A j \in Fetch : fetch[j].user \in User \ {u} \/ fetch'[j].user \in User \ {u}
                          => fetch'[j] = fetch[j]
  BY <1>3, <1>6, <1>8, <1>10, NothingSeen
<1>14. \A j \in Fetch : fetch'[j].user = u =>
         /\ p.at # "away"
         /\ \A k \in Fetch : fetch'[k].user = u => j = k
         /\ p.pressed = "none" => p.shown = Nothing
         /\ fetch'[j].answer = Nothing
  BY <1>2, <1>3, <1>5, <1>7, <1>10
<1>15. \A j \in Fetch : fetch'[j].answer \in {Nothing, fetch[j].answer}
  BY <1>3, <1>10
<1>16. p.pressed # "none" /\ u \notin granted' =>
         \E j \in Fetch : /\ fetch'[j].user = u /\ fetch'[j].what = p.pressed
                          /\ fetch'[j].step = "sent"
  BY <1>3, <1>5, <1>10
<1>17. Turns(u, p)
  BY <1>13, <1>14, <1>15, <1>16 DEF Turns
<1>. QED BY <1>5, <1>9, <1>10, <1>11, <1>12, <1>17, PageTurns

LEMMA LeaveKeeps == ASSUME PagesInv, NEW u \in User, Leave(u) PROVE PagesInv'
<1>. DEFINE rest(i) == IF fetch[i].user # u THEN fetch[i]
                       ELSE IF fetch[i].step = "sent" /\ fetch[i].what # "load"
                            THEN [fetch[i] EXCEPT !.user = "none"]
                       ELSE NoFetch
<1>1. /\ fetch' = [i \in Fetch |-> rest(i)]
      /\ page' = [page EXCEPT ![u] = Away]
      /\ row' = row /\ granted' = granted \ {u}
  BY DEF Leave
<1>2. "none" \notin User
  BY DEF User
<1>3. /\ fetch \in [Fetch -> Fetches] /\ granted \subseteq User
      /\ row \in Versions /\ row.move \in Nat
  BY NothingSeen DEF PagesInv, PagesTypeOK
<1>4. ASSUME NEW i \in Fetch
      PROVE  /\ rest(i) \in Fetches /\ rest(i).user # u
             /\ rest(i).answer \in {Nothing, fetch[i].answer}
             /\ rest(i).user \in User => rest(i) = fetch[i]
             /\ fetch[i].user # u => rest(i) = fetch[i]
  <2>1. CASE fetch[i].user # u
    BY <1>3, <2>1
  <2>2. CASE fetch[i].user = u /\ fetch[i].step = "sent" /\ fetch[i].what # "load"
    <3>1. rest(i) = [fetch[i] EXCEPT !.user = "none"]
      BY <2>2
    <3>. HIDE DEF rest
    <3>. QED BY <1>2, <1>3, <2>2, <3>1 DEF Fetches
  <2>3. CASE fetch[i].user = u /\ ~(fetch[i].step = "sent" /\ fetch[i].what # "load")
    BY <1>2, <2>3, NothingSeen
  <2>. QED BY <2>1, <2>2, <2>3
<1>. HIDE DEF rest
<1>5. /\ fetch' \in [Fetch -> Fetches]
      /\ \A j \in Fetch : fetch'[j] = rest(j)
  BY <1>1, <1>4
<1>6. \A j \in Fetch : fetch[j].user \in User \ {u} \/ fetch'[j].user \in User \ {u}
                         => fetch'[j] = fetch[j]
  BY <1>4, <1>5
<1>7. \A j \in Fetch : /\ fetch'[j].user # u
                       /\ fetch'[j].answer \in {Nothing, fetch[j].answer}
  BY <1>4, <1>5
<1>8. granted' \subseteq User /\ granted' \cup {u} = granted \cup {u}
  BY <1>1, <1>3
<1>9. Away.shown.move <= row.move
  BY <1>3, NothingSeen
<1>10. Turns(u, Away)
  BY <1>6, <1>7, NothingSeen DEF Turns
<1>. QED BY <1>1, <1>5, <1>8, <1>9, <1>10, NothingSeen, PageTurns

LEMMA Effects ==
  \A what \in DOMAIN Effect :
    Effect[what][2] \in {"MATCHED", "IN_PROGRESS", "AWAITING_VALIDATION",
                        "PENDING_CUSTOMS_REVIEW", "VALIDATED", "FUNDED"}
BY DEF Effect

LEMMA ServerKeeps == PagesInv /\ Server => PagesInv'
<1>. SUFFICES ASSUME PagesInv, NEW i \in Fetch,
                     Load(i) \/ Act(i) \/ Reread(i) \/ Refuse(i) \/ Taken(i)
              PROVE  PagesInv'
  BY DEF Server
<1>. USE NothingSeen
<1>1. /\ fetch \in [Fetch -> Fetches] /\ fetch[i] \in Fetches
      /\ granted \subseteq User
      /\ row \in Versions /\ row.move \in Nat /\ row.move >= row.move
  BY DEF PagesInv, PagesTypeOK
<1>2. "none" \notin User
  BY DEF User
<1>3. CASE Load(i)
  <2>1. PICK step \in {"answered", "refused"}, seen \in {row, Nothing} :
          fetch' = [fetch EXCEPT ![i].step = step, ![i].answer = seen]
    BY <1>3 DEF Load
  <2>2. PICK f \in Fetches :
          /\ fetch' = [fetch EXCEPT ![i] = f]
          /\ f.user = fetch[i].user /\ f.answer \in {row, Nothing}
    <3>. DEFINE f == [fetch[i] EXCEPT !.step = step, !.answer = seen]
    <3>1. /\ f \in Fetches /\ fetch' = [fetch EXCEPT ![i] = f]
          /\ f.user = fetch[i].user /\ f.answer \in {row, Nothing}
      BY <1>1, <2>1 DEF Fetches
    <3>. QED BY <3>1
  <2>3. page' = page /\ row' = row /\ granted' = granted /\ fetch[i].what = "load"
    BY <1>3 DEF Load
  <2>. QED BY <1>1, <2>2, <2>3, RequestGoes
<1>4. ASSUME NEW step \in {"done", "refused", "taken"}, Goes(i, step),
             page' = page, row' \in Versions, row'.move >= row.move,
             granted \subseteq granted', granted' \subseteq User,
             step = "done" => fetch[i].user \notin User \ granted'
      PROVE  PagesInv'
  <2>1. PICK f \in Fetches :
          /\ fetch' = [fetch EXCEPT ![i] = f]
          /\ f.user \in {fetch[i].user, "none"}
          /\ f.answer \in {Nothing, fetch[i].answer}
          /\ fetch[i].user \in User =>
               f.user = fetch[i].user /\ f.what = fetch[i].what /\ f.step = step
    <3>. DEFINE f == IF fetch[i].user = "none" THEN NoFetch ELSE [fetch[i] EXCEPT !.step = step]
    <3>1. fetch' = [fetch EXCEPT ![i] = f]
      BY <1>1, <1>4 DEF Goes
    <3>2. CASE fetch[i].user = "none"
      <4>1. f = NoFetch
        BY <3>2
      <4>. HIDE DEF f
      <4>. QED BY <1>2, <3>1, <3>2, <4>1
    <3>3. CASE fetch[i].user # "none"
      <4>1. f = [fetch[i] EXCEPT !.step = step]
        BY <3>3
      <4>. HIDE DEF f
      <4>2. /\ f \in Fetches /\ f.user = fetch[i].user /\ f.what = fetch[i].what
            /\ f.step = step /\ f.answer = fetch[i].answer
        BY <1>1, <4>1 DEF Fetches
      <4>. QED BY <3>1, <4>2
    <3>. QED BY <3>2, <3>3
  <2>. QED BY <1>4, <2>1, RequestGoes
<1>5. CASE Act(i)
  <2>. DEFINE what == fetch[i].what
  <2>1. /\ what \in DOMAIN Effect /\ row.move < MaxMoves
        /\ row' = Seen(Effect[what][2],
                       IF what \in {"accept", "match"} THEN "ours" ELSE row.traveler,
                       row.move + 1)
        /\ Goes(i, "done") /\ granted' = granted \cup ({fetch[i].user} \cap User)
        /\ page' = page
    BY <1>5 DEF Act
  <2>2. row' \in Versions /\ row'.move = row.move + 1
    BY <1>1, <2>1, Effects, PagesAssumption DEF Seen, Versions
  <2>. QED BY <1>1, <1>4, <2>1, <2>2
<1>6. CASE Reread(i)
  <2>1. PICK f \in Fetches :
          /\ fetch' = [fetch EXCEPT ![i] = f]
          /\ f.user = fetch[i].user /\ f.answer \in {row, Nothing}
    <3>1. PICK seen \in {row, Nothing} :
            fetch' = [fetch EXCEPT ![i].step = "answered", ![i].answer = seen]
      BY <1>6 DEF Reread
    <3>. DEFINE f == [fetch[i] EXCEPT !.step = "answered", !.answer = seen]
    <3>2. /\ f \in Fetches /\ fetch' = [fetch EXCEPT ![i] = f]
          /\ f.user = fetch[i].user /\ f.answer \in {row, Nothing}
      BY <1>1, <3>1 DEF Fetches
    <3>. QED BY <3>2
  <2>2. page' = page /\ row' = row /\ granted' = granted /\ fetch[i].step = "done"
    BY <1>6 DEF Reread
  <2>. QED BY <1>1, <2>1, <2>2, RequestGoes
<1>7. CASE Refuse(i)
  BY <1>1, <1>4, <1>7 DEF Refuse
<1>8. CASE Taken(i)
  BY <1>1, <1>4, <1>8 DEF Taken
<1>. QED BY <1>3, <1>5, <1>6, <1>7, <1>8

LEMMA MoveKeeps == PagesInv /\ MovedElsewhere => PagesInv'
<1>. SUFFICES ASSUME PagesInv, MovedElsewhere PROVE PagesInv'
  OBVIOUS
<1>1. PICK m \in Others :
        row' = Seen(m[2], IF m[1] = "FUNDED" /\ m[2] = "MATCHED" THEN "other" ELSE row.traveler,
                    row.move + 1)
  BY DEF MovedElsewhere
<1>2. m[2] \in {"EXPIRED", "CREATED", "MATCHED", "ESCROW_LOCKED_CUSTOMS",
                "AWAITING_VALIDATION", "VALIDATED", "RELEASED"}
  BY DEF Others
<1>3. /\ row \in Versions /\ row.move \in Nat /\ row.move < MaxMoves
      /\ page' = page /\ fetch' = fetch /\ granted' = granted
  BY NothingSeen DEF MovedElsewhere, PagesInv, PagesTypeOK
<1>4. row' \in Versions /\ row'.move = row.move + 1
  BY <1>1, <1>2, <1>3, PagesAssumption DEF Seen, Versions
<1>5. /\ \A u \in User : page[u].shown.move \in Nat
      /\ \A i \in Fetch : fetch[i].answer.move \in Nat
  BY NothingSeen DEF PagesInv, PagesTypeOK, Views, Fetches
<1>6. PagesTypeOK' /\ OneRequest' /\ DarkHasRequest'
  BY <1>3, <1>4 DEF PagesInv, PagesTypeOK, OneRequest, DarkHasRequest
<1>7. AnswersAreNewer'
  BY <1>3, <1>4, <1>5 DEF PagesInv, AnswersAreNewer
<1>. QED BY <1>6, <1>7 DEF PagesInv

\* The request of a page comes back to it, and ends or becomes a load.
LEMMA RequestComesBack ==
  ASSUME PagesInv, NEW u \in User, NEW i \in Fetch, fetch[i].user = u,
         NEW f \in Fetches, f.user \in {u, "none"}, f.answer = Nothing,
         NEW p \in Views,
         fetch' = [fetch EXCEPT ![i] = f], page' = [page EXCEPT ![u] = p],
         row' = row, granted' = granted,
         f.user = u => p.at # "away" /\ (p.pressed = "none" => p.shown = Nothing),
         p.pressed # "none" => u \in granted,
         p.shown.move <= row.move
  PROVE  PagesInv'
<1>1. "none" \notin User
  BY DEF User
<1>2. fetch \in [Fetch -> Fetches] /\ granted \subseteq User
  BY DEF PagesInv, PagesTypeOK
<1>3. /\ fetch' \in [Fetch -> Fetches] /\ fetch'[i] = f
      /\ \A j \in Fetch : j # i => fetch'[j] = fetch[j]
  BY <1>2
<1>4. \A j \in Fetch : j # i => fetch[j].user # u
  BY DEF PagesInv, OneRequest
<1>5. \A j \in Fetch : fetch[j].user \in User \ {u} \/ fetch'[j].user \in User \ {u}
                         => fetch'[j] = fetch[j]
  BY <1>1, <1>3
<1>6. \A j \in Fetch : fetch'[j].user = u =>
         /\ p.at # "away"
         /\ \A k \in Fetch : fetch'[k].user = u => j = k
         /\ p.pressed = "none" => p.shown = Nothing
         /\ fetch'[j].answer = Nothing
  BY <1>3, <1>4
<1>7. \A j \in Fetch : fetch'[j].answer \in {Nothing, fetch[j].answer}
  BY <1>3
<1>8. granted' \subseteq User /\ granted' \cup {u} = granted \cup {u}
  BY <1>2
<1>9. p.pressed # "none" /\ u \notin granted' =>
        \E j \in Fetch : /\ fetch'[j].user = u /\ fetch'[j].what = p.pressed
                         /\ fetch'[j].step = "sent"
  OBVIOUS
<1>10. Turns(u, p)
  BY <1>5, <1>6, <1>7, <1>9 DEF Turns
<1>. QED BY <1>3, <1>8, <1>10, PageTurns

\* When the request of a page is past the server, a dark button is one that was granted.
LEMMA DarkWasGranted ==
  ASSUME PagesInv, NEW u \in User, NEW i \in Fetch, fetch[i].user = u,
         fetch[i].step = "answered" \/ fetch[i].what = "load"
  PROVE  page[u].pressed # "none" => u \in granted
<1>. SUFFICES ASSUME page[u].pressed # "none", u \notin granted PROVE FALSE
  OBVIOUS
<1>1. PICK j \in Fetch : /\ fetch[j].user = u /\ fetch[j].what = page[u].pressed
                         /\ fetch[j].step \in {"sent", "refused", "taken"}
  BY DEF PagesInv, DarkHasRequest
<1>2. j = i
  BY <1>1 DEF PagesInv, OneRequest
<1>3. page[u].pressed # "load"
  BY ActionNames DEF PagesInv, PagesTypeOK, Views
<1>. QED BY <1>1, <1>2, <1>3

LEMMA ShowsWhat ==
  ASSUME PagesInv, NEW u \in User, NEW what, NEW answer \in Versions
  PROVE  /\ Shows(u, what, answer) \in Views
         /\ Shows(u, what, answer).at = page[u].at
         /\ Shows(u, what, answer).shown = answer
         /\ Shows(u, what, answer).pressed \in {page[u].pressed, "none"}
<1>1. page[u] \in Views
  BY DEF PagesInv, PagesTypeOK
<1>. DEFINE p == [page[u] EXCEPT !.shown = answer]
            kept == what # "start" /\ \E b \in Offered(u, p) : b.what = p.pressed
<1>2. p \in Views /\ p.at = page[u].at /\ p.shown = answer /\ p.pressed = page[u].pressed
  BY <1>1 DEF Views
<1>3. Shows(u, what, answer) = [p EXCEPT !.pressed = IF kept THEN p.pressed ELSE "none"]
  BY DEF Shows
<1>. HIDE DEF p, kept
<1>4. PICK x \in {p.pressed, "none"} : Shows(u, what, answer) = [p EXCEPT !.pressed = x]
  BY <1>3
<1>5. x \in Actions \cup {"none"}
  BY <1>2, <1>4 DEF Views
<1>. QED BY <1>2, <1>4, <1>5 DEF Views

LEMMA RepliedKeeps == ASSUME PagesInv, NEW i \in Fetch, Replied(i) PROVE PagesInv'
<1>. USE NothingSeen
<1>. DEFINE u == fetch[i].user
            again == [fetch[i] EXCEPT !.what = "load", !.step = "sent", !.answer = Nothing]
<1>1. /\ u \in User /\ fetch[i].step = "answered"
      /\ row' = row /\ granted' = granted
  BY DEF Replied
<1>2. /\ fetch[i] \in Fetches /\ fetch[i].answer \in Versions
      /\ page \in [User -> Views] /\ page[u] \in Views
      /\ row.move \in Nat
  BY <1>1 DEF PagesInv, PagesTypeOK, Fetches
<1>3. page[u].pressed # "none" => u \in granted
  BY <1>1, DarkWasGranted
<1>4. /\ page[u].shown.move <= row.move /\ fetch[i].answer.move <= row.move
      /\ page[u].at # "away" /\ (page[u].pressed = "none" => page[u].shown = Nothing)
  BY <1>1 DEF PagesInv, AnswersAreNewer, OneRequest
<1>5. again \in Fetches /\ again.user = u /\ again.answer = Nothing
  BY <1>2 DEF Fetches
<1>6. CASE fetch[i].what = "submit"
  <2>1. fetch' = [fetch EXCEPT ![i] = again] /\ page' = [page EXCEPT ![u] = page[u]]
    BY <1>2, <1>6 DEF Replied, Again, Onward
  <2>. HIDE DEF again
  <2>. QED BY <1>1, <1>2, <1>3, <1>4, <1>5, <2>1, RequestComesBack
<1>7. CASE fetch[i].what = "match"
  <2>. DEFINE p == [Away EXCEPT !.at = "dashboard"]
  <2>1. fetch' = [fetch EXCEPT ![i] = again] /\ page' = [page EXCEPT ![u] = p]
    BY <1>2, <1>7 DEF Replied, Again, Onward
  <2>2. p \in Views /\ p.at # "away" /\ p.shown = Nothing /\ p.pressed = "none"
    BY DEF Away, Views
  <2>3. p.shown.move <= row.move
    BY <1>2, <2>2
  <2>. HIDE DEF again, p
  <2>. QED BY <1>1, <1>5, <2>1, <2>2, <2>3, RequestComesBack
<1>8. CASE fetch[i].what = "intent"
  <2>. DEFINE p == [page[u] EXCEPT !.at = "card", !.pressed = "none"]
  <2>1. fetch' = [fetch EXCEPT ![i] = NoFetch] /\ page' = [page EXCEPT ![u] = p]
    BY <1>8 DEF Replied, Onward
  <2>2. p \in Views /\ p.shown = page[u].shown /\ p.pressed = "none"
    BY <1>2 DEF Views
  <2>. HIDE DEF p
  <2>. QED BY <1>1, <1>4, <2>1, <2>2, RequestComesBack DEF User
<1>9. CASE fetch[i].what \notin Onward
  <2>. DEFINE p == Shows(u, fetch[i].what, fetch[i].answer)
  <2>1. fetch' = [fetch EXCEPT ![i] = NoFetch] /\ page' = [page EXCEPT ![u] = p]
    BY <1>9 DEF Replied, Onward
  <2>2. /\ p \in Views /\ p.shown = fetch[i].answer
        /\ p.pressed \in {page[u].pressed, "none"}
    BY <1>1, <1>2, ShowsWhat
  <2>. HIDE DEF p
  <2>. QED BY <1>1, <1>3, <1>4, <2>1, <2>2, RequestComesBack DEF User
<1>. QED BY <1>6, <1>7, <1>8, <1>9 DEF Onward

LEMMA FailedKeeps == ASSUME PagesInv, NEW i \in Fetch, Failed(i) PROVE PagesInv'
<1>. USE NothingSeen
<1>. DEFINE u == fetch[i].user
            p == IF fetch[i].what = "load" THEN page[u]
                 ELSE [page[u] EXCEPT !.pressed = "none",
                                      !.shown = IF fetch[i].step = "taken" THEN Nothing ELSE @]
<1>1. /\ u \in User /\ fetch' = [fetch EXCEPT ![i] = NoFetch]
      /\ row' = row /\ granted' = granted
  BY DEF Failed
<1>2. page \in [User -> Views] /\ page[u] \in Views /\ row.move \in Nat
  BY <1>1 DEF PagesInv, PagesTypeOK
<1>3. page' = [page EXCEPT ![u] = p]
  BY <1>2 DEF Failed
<1>4. page[u].shown.move <= row.move
  BY <1>1 DEF PagesInv, AnswersAreNewer
<1>5. CASE fetch[i].what = "load"
  <2>1. p = page[u]
    BY <1>5
  <2>. HIDE DEF p
  <2>2. p.pressed # "none" => u \in granted
    BY <1>1, <1>5, <2>1, DarkWasGranted
  <2>. QED BY <1>1, <1>2, <1>3, <1>4, <2>1, <2>2, RequestComesBack DEF User
<1>6. CASE fetch[i].what # "load"
  <2>1. PICK seen \in {Nothing, page[u].shown} :
          p = [page[u] EXCEPT !.pressed = "none", !.shown = seen]
    BY <1>6
  <2>. HIDE DEF p
  <2>2. p \in Views /\ p.pressed = "none" /\ p.shown = seen
    BY <1>2, <2>1 DEF Views
  <2>3. p.shown.move <= row.move
    BY <1>2, <1>4, <2>1, <2>2
  <2>. QED BY <1>1, <1>3, <2>2, <2>3, RequestComesBack DEF User
<1>. QED BY <1>5, <1>6

LEMMA PagesStep == PagesInv /\ [PagesNext]_pages => PagesInv'
<1>. SUFFICES ASSUME PagesInv, [PagesNext]_pages PROVE PagesInv'
  OBVIOUS
<1>1. ASSUME NEW u \in User, NEW i \in Fetch, Press(u, i) PROVE PagesInv'
  BY <1>1, PressKeeps
<1>2. ASSUME NEW u \in User, NEW at \in Linked(u), NEW i \in Fetch, Open(u, at, i)
      PROVE  PagesInv'
  BY <1>2, OpenKeeps
<1>3. ASSUME NEW u \in User, Leave(u) PROVE PagesInv'
  BY <1>3, LeaveKeeps
<1>4. CASE Server
  BY <1>4, ServerKeeps
<1>5. CASE MovedElsewhere
  BY <1>5, MoveKeeps
<1>6. ASSUME NEW i \in Fetch, Replied(i) \/ Failed(i) PROVE PagesInv'
  BY <1>6, RepliedKeeps, FailedKeeps
<1>7. CASE UNCHANGED pages
  BY <1>7 DEF pages, PagesInv, PagesTypeOK, OneRequest, DarkHasRequest, AnswersAreNewer
<1>. QED BY <1>1, <1>2, <1>3, <1>4, <1>5, <1>6, <1>7 DEF PagesNext

-----------------------------------------------------------------------------
(* The phone.                                                               *)

\* Until the session has been read and the server was asked, nothing else happens.
Starting ==
    /\ status = "loading" /\ memory = "none"
    /\ form = "idle" /\ \A c \in Call : call[c] = NoCall

\* What the start has read is what the keychain keeps, until the server was asked.
BootKnows ==
    /\ boot = "reading" =>
         Starting /\ ops \in {<<>>, <<[op |-> "read", by |-> "boot", what |-> "none"]>>}
    /\ boot = "asking" => Starting /\ ops = <<>> /\ asking = stored /\ asking \in Token
    /\ boot # "reading" => \A i \in DOMAIN ops : ops[i].op = "read" => ops[i].by # "boot"

\* No token has expired and the user has not signed out.
Calm == expired = {} /\ ~left

\* In a calm life the server refuses nothing: what is to be deleted is not there,
\* what is to be written by the start is there, and one who signs in has no session.
CalmKeychain ==
    /\ boot = "ending" =>
         Starting /\ ops = <<[op |-> "write", by |-> "boot", what |-> stored]>>
    /\ boot = "over" => memory = stored /\ \A i \in DOMAIN ops : ops[i].by # "boot"
    /\ form # "idle" => boot = "over" /\ memory = "none"
    /\ \A i \in DOMAIN ops :
         /\ ops[i].op = "write" /\ ops[i].by = "form" => form = "writing"
         /\ ops[i].op = "write" =>
              \A j \in DOMAIN ops : j > i => ops[j].op \notin {"write", "delete"}
         /\ ops[i].op = "delete" => memory = "none" /\ stored = "none"

\* The list on the screen, in the keychain and in the answers is the server's of some
\* time; nothing is refreshed before the keychain's list was read.
ListsAreOld ==
    /\ shown <= served /\ cache <= served
    /\ \A c \in Call : call[c].list # Pending => call[c].list <= served
    /\ \A i \in DOMAIN ops : ops[i].op = "cache" => ops[i].list <= served
    /\ \A i \in DOMAIN ops : ops[i].by = "missions" =>
         ~ready /\ \A j \in DOMAIN ops : ops[j].by = "missions" => i = j
    /\ ~ready => shown = 0 /\ \A c \in Call : call[c] = NoCall

\* In a calm life there is one refresh at a time, and its list is not older than
\* what is shown.
CalmList ==
    \A c \in Call : call[c] # NoCall =>
      /\ call[c].token = memory /\ memory # "none"
      /\ \A d \in Call : call[d] # NoCall => c = d
      /\ call[c].list >= shown

MobileInv ==
    /\ MobileTypeOK
    /\ BootKnows
    /\ MemoryMatchesStore
    /\ form = "asking" => given \in Token
    /\ Calm => CalmKeychain /\ CalmList
    /\ ListsAreOld


LEMMA Appended ==
  ASSUME NEW S, NEW s \in Seq(S), NEW r \in S
  PROVE  /\ Append(s, r) \in Seq(S) /\ Append(s, r) # <<>>
         /\ \A i \in DOMAIN s : i \in DOMAIN Append(s, r) /\ Append(s, r)[i] = s[i]
         /\ \A i \in DOMAIN Append(s, r) :
              \/ i \in DOMAIN s /\ Append(s, r)[i] = s[i] /\ i < Len(s) + 1
              \/ i = Len(s) + 1 /\ Append(s, r)[i] = r
         /\ Len(s) + 1 \in DOMAIN Append(s, r) /\ Append(s, r)[Len(s) + 1] = r
OBVIOUS

LEMMA Popped ==
  ASSUME NEW S, NEW s \in Seq(S), s # <<>>
  PROVE  /\ Tail(s) \in Seq(S) /\ Head(s) \in S /\ Head(s) = s[1] /\ 1 \in DOMAIN s
         /\ \A i \in DOMAIN Tail(s) : i + 1 \in DOMAIN s /\ Tail(s)[i] = s[i + 1]
         /\ \A i \in DOMAIN Tail(s) : i \in Nat /\ i > 0
OBVIOUS

LEMMA BootRead ==
  /\ [op |-> "read", by |-> "boot", what |-> "none"] \in Requests
  /\ <<[op |-> "read", by |-> "boot", what |-> "none"]>> \in Seq(Requests)
<1>1. [op |-> "read", by |-> "boot", what |-> "none"] \in Requests
  BY DEF Requests
<1>2. \A r \in Requests : <<r>> \in Seq(Requests)
  OBVIOUS
<1>. QED BY <1>1, <1>2

LEMMA NoCalls ==
  /\ NoCall \in [token: Token \cup {"none"}, list: 0..Pending]
  /\ [c \in Call |-> NoCall] \in [Call -> [token: Token \cup {"none"}, list: 0..Pending]]
<1>1. NoCall \in [token: Token \cup {"none"}, list: 0..Pending]
  BY MobileAssumption DEF NoCall, Pending
<1>. QED BY <1>1

LEMMA PurgeAsked == [op |-> "delete", by |-> "purge", what |-> "none"] \in Requests
BY DEF Requests

\* A purge adds one request to the keychain's, and it is no write.
LEMMA PurgeAdds ==
  ASSUME ops \in Seq(Requests), ops' = ops \/ ops' = Purged
  PROVE  /\ ops' \in Seq(Requests)
         /\ \A i \in DOMAIN ops' :
              \/ i \in DOMAIN ops /\ ops'[i] = ops[i]
              \/ ops'[i] = [op |-> "delete", by |-> "purge", what |-> "none"]
BY Appended, PurgeAsked DEF Purged, Asked

\* Once the start has asked, a purge takes nothing from what it knows.
LEMMA PurgeKeepsBoot ==
  ASSUME MobileTypeOK, BootKnows, ~Starting, ops' = ops \/ ops' = Purged, boot' = boot
  PROVE  BootKnows'
<1>1. boot \notin {"reading", "asking"}
  BY DEF BootKnows
<1>2. ops \in Seq(Requests)
  BY DEF MobileTypeOK
<1>3. \A i \in DOMAIN ops' : ops'[i].op = "read" => ops'[i].by # "boot"
  BY <1>1, <1>2, PurgeAdds DEF BootKnows
<1>. QED BY <1>1, <1>3 DEF BootKnows

LEMMA MobileInitInv == MobileInit => MobileInv
<1>. SUFFICES ASSUME MobileInit PROVE MobileInv
  OBVIOUS
<1>. USE MobileAssumption DEF MobileInit
<1>1. MobileTypeOK
  <2>1. call \in [Call -> [token: Token \cup {"none"}, list: 0..Pending]]
    BY NoCalls
  <2>2. ops \in Seq(Requests)
    BY BootRead
  <2>3. cache \in 0..MaxLists /\ shown \in 0..MaxLists /\ served \in 1..MaxLists
    OBVIOUS
  <2>. QED BY <2>1, <2>2, <2>3 DEF MobileTypeOK
<1>2. BootKnows /\ MemoryMatchesStore /\ form # "asking"
  BY DEF BootKnows, Starting, MemoryMatchesStore
<1>3. CalmKeychain /\ CalmList
  BY DEF CalmKeychain, CalmList
<1>4. ListsAreOld
  BY DEF ListsAreOld, NoCall, Pending
<1>. QED BY <1>1, <1>2, <1>3, <1>4 DEF MobileInv

LEMMA AcceptedKeeps == ASSUME MobileInv, Accepted PROVE MobileInv'
<1>. USE MobileAssumption, Appended DEF MobileInv, MobileTypeOK, Accepted, Asked
<1>1. MobileTypeOK'
  <2>1. [op |-> "write", by |-> "boot", what |-> asking] \in Requests
    BY DEF BootKnows, Requests
  <2>. QED BY <2>1
<1>2. BootKnows' /\ (form = "asking" => given \in Token)'
  BY <1>1 DEF BootKnows, Starting, Requests, NoCall
<1>3. MemoryMatchesStore'
  BY DEF BootKnows, MemoryMatchesStore
<1>4. Calm' => CalmKeychain'
  BY <1>1 DEF BootKnows, Starting, Calm, CalmKeychain, Requests, NoCall
<1>5. Calm' => CalmList'
  BY <1>1 DEF BootKnows, Starting, Calm, CalmKeychain, CalmList, ListsAreOld,
             Requests, NoCall, Pending
<1>6. ListsAreOld'
  BY <1>1 DEF ListsAreOld, Requests, NoCall, Pending
<1>. QED BY <1>1, <1>2, <1>3, <1>4, <1>5, <1>6 DEF MobileInv

LEMMA RefusedKeeps == ASSUME MobileInv, Refused PROVE MobileInv'
<1>. USE MobileAssumption, Appended DEF MobileInv, MobileTypeOK, Refused, Asked, Purged
<1>1. MobileTypeOK'
  BY DEF Requests, NoCall, Pending
<1>2. BootKnows' /\ (form = "asking" => given \in Token)'
  BY <1>1 DEF BootKnows, Starting, Requests, NoCall
<1>3. MemoryMatchesStore'
  BY DEF BootKnows, MemoryMatchesStore
<1>4. Calm' => CalmKeychain'
  BY <1>1 DEF BootKnows, Starting, Calm, CalmKeychain, Requests, NoCall
<1>5. Calm' => CalmList'
  BY <1>1 DEF BootKnows, Starting, Calm, CalmKeychain, CalmList, ListsAreOld,
             Requests, NoCall, Pending
<1>6. ListsAreOld'
  BY <1>1 DEF ListsAreOld, Requests, NoCall, Pending
<1>. QED BY <1>1, <1>2, <1>3, <1>4, <1>5, <1>6 DEF MobileInv

LEMMA UnansweredKeeps == ASSUME MobileInv, Unanswered PROVE MobileInv'
<1>. USE MobileAssumption DEF MobileInv, MobileTypeOK, Unanswered, Set
<1>1. MobileTypeOK'
  BY DEF NoCall, Pending
<1>2. BootKnows' /\ (form = "asking" => given \in Token)'
  BY <1>1 DEF BootKnows, Starting, NoCall
<1>3. MemoryMatchesStore'
  BY DEF BootKnows, MemoryMatchesStore
<1>4. Calm' => CalmKeychain'
  BY <1>1 DEF BootKnows, Starting, Calm, CalmKeychain, NoCall
<1>5. Calm' => CalmList'
  BY <1>1 DEF BootKnows, Starting, Calm, CalmKeychain, CalmList, ListsAreOld,
             NoCall, Pending
<1>6. ListsAreOld'
  BY <1>1 DEF ListsAreOld, NoCall, Pending
<1>. QED BY <1>1, <1>2, <1>3, <1>4, <1>5, <1>6 DEF MobileInv

LEMMA ReadSessionKeeps == ASSUME MobileInv, ReadSession PROVE MobileInv'
<1>. USE MobileAssumption, Popped DEF MobileInv, MobileTypeOK, ReadSession, Answered, Request, Set
<1>1. MobileTypeOK'
  BY DEF Requests, NoCall, Pending
<1>2. BootKnows' /\ (form = "asking" => given \in Token)'
  BY <1>1 DEF BootKnows, Starting, Requests, NoCall
<1>3. MemoryMatchesStore'
  BY DEF BootKnows, MemoryMatchesStore
<1>4. Calm' => CalmKeychain'
  BY <1>1 DEF BootKnows, Starting, Calm, CalmKeychain, Requests, NoCall
<1>5. Calm' => CalmList'
  BY <1>1 DEF BootKnows, Starting, Calm, CalmKeychain, CalmList, ListsAreOld,
             Requests, NoCall, Pending
<1>6. ListsAreOld'
  BY <1>1 DEF ListsAreOld, Requests, NoCall, Pending
<1>. QED BY <1>1, <1>2, <1>3, <1>4, <1>5, <1>6 DEF MobileInv

LEMMA WriteSessionKeeps == ASSUME MobileInv, WriteSession PROVE MobileInv'
<1>. USE MobileAssumption, Popped DEF MobileInv, MobileTypeOK, WriteSession, Answered, Request, Set
<1>1. MobileTypeOK'
  BY DEF Requests, NoCall, Pending
<1>2. BootKnows' /\ (form = "asking" => given \in Token)'
  BY <1>1 DEF BootKnows, Starting, Requests, NoCall
<1>3. MemoryMatchesStore'
  BY DEF BootKnows, MemoryMatchesStore
<1>4. Calm' => CalmKeychain'
  BY <1>1 DEF BootKnows, Starting, Calm, CalmKeychain, Requests, NoCall
<1>5. Calm' => CalmList'
  BY <1>1 DEF BootKnows, Starting, Calm, CalmKeychain, CalmList, ListsAreOld,
             Requests, NoCall, Pending
<1>6. ListsAreOld'
  BY <1>1 DEF ListsAreOld, Requests, NoCall, Pending
<1>. QED BY <1>1, <1>2, <1>3, <1>4, <1>5, <1>6 DEF MobileInv

LEMMA DeleteSessionKeeps == ASSUME MobileInv, DeleteSession PROVE MobileInv'
<1>. USE MobileAssumption, Popped DEF MobileInv, MobileTypeOK, DeleteSession, Answered, Request, Set
<1>1. MobileTypeOK'
  BY DEF Requests, NoCall, Pending
<1>2. BootKnows' /\ (form = "asking" => given \in Token)'
  BY <1>1 DEF BootKnows, Starting, Requests, NoCall
<1>3. MemoryMatchesStore'
  BY DEF BootKnows, MemoryMatchesStore
<1>4. Calm' => CalmKeychain'
  BY <1>1 DEF BootKnows, Starting, Calm, CalmKeychain, Requests, NoCall
<1>5. Calm' => CalmList'
  BY <1>1 DEF BootKnows, Starting, Calm, CalmKeychain, CalmList, ListsAreOld,
             Requests, NoCall, Pending
<1>6. ListsAreOld'
  BY <1>1 DEF ListsAreOld, Requests, NoCall, Pending
<1>. QED BY <1>1, <1>2, <1>3, <1>4, <1>5, <1>6 DEF MobileInv

LEMMA ReadCacheKeeps == ASSUME MobileInv, ReadCache PROVE MobileInv'
<1>. USE MobileAssumption, Popped DEF MobileInv, MobileTypeOK, ReadCache, Answered, Request
<1>1. MobileTypeOK'
  BY DEF Requests, NoCall, Pending
<1>2. BootKnows' /\ (form = "asking" => given \in Token)'
  BY <1>1 DEF BootKnows, Starting, Requests, NoCall
<1>3. MemoryMatchesStore'
  BY DEF BootKnows, MemoryMatchesStore
<1>4. Calm' => CalmKeychain'
  BY <1>1 DEF BootKnows, Starting, Calm, CalmKeychain, Requests, NoCall
<1>5. Calm' => CalmList'
  BY <1>1 DEF BootKnows, Starting, Calm, CalmKeychain, CalmList, ListsAreOld,
             Requests, NoCall, Pending
<1>6. ListsAreOld'
  BY <1>1 DEF ListsAreOld, Requests, NoCall, Pending
<1>. QED BY <1>1, <1>2, <1>3, <1>4, <1>5, <1>6 DEF MobileInv

LEMMA WriteCacheKeeps == ASSUME MobileInv, WriteCache PROVE MobileInv'
<1>. USE MobileAssumption, Popped DEF MobileInv, MobileTypeOK, WriteCache, Answered, Request
<1>1. MobileTypeOK'
  BY DEF Requests, NoCall, Pending
<1>2. BootKnows' /\ (form = "asking" => given \in Token)'
  BY <1>1 DEF BootKnows, Starting, Requests, NoCall
<1>3. MemoryMatchesStore'
  BY DEF BootKnows, MemoryMatchesStore
<1>4. Calm' => CalmKeychain'
  BY <1>1 DEF BootKnows, Starting, Calm, CalmKeychain, Requests, NoCall
<1>5. Calm' => CalmList'
  BY <1>1 DEF BootKnows, Starting, Calm, CalmKeychain, CalmList, ListsAreOld,
             Requests, NoCall, Pending
<1>6. ListsAreOld'
  BY <1>1 DEF ListsAreOld, Requests, NoCall, Pending
<1>. QED BY <1>1, <1>2, <1>3, <1>4, <1>5, <1>6 DEF MobileInv

LEMMA KeychainFailsKeeps == ASSUME MobileInv, KeychainFails PROVE MobileInv'
<1>. USE MobileAssumption, Popped DEF MobileInv, MobileTypeOK, KeychainFails, Answered, Request, Set
<1>1. MobileTypeOK'
  BY DEF Requests, NoCall, Pending
<1>2. BootKnows' /\ (form = "asking" => given \in Token)'
  BY <1>1 DEF BootKnows, Starting, Requests, NoCall
<1>3. MemoryMatchesStore'
  BY DEF BootKnows, MemoryMatchesStore
<1>4. Calm' => CalmKeychain'
  BY <1>1 DEF BootKnows, Starting, Calm, CalmKeychain, Requests, NoCall
<1>5. Calm' => CalmList'
  BY <1>1 DEF BootKnows, Starting, Calm, CalmKeychain, CalmList, ListsAreOld,
             Requests, NoCall, Pending
<1>6. ListsAreOld'
  BY <1>1 DEF ListsAreOld, Requests, NoCall, Pending
<1>. QED BY <1>1, <1>2, <1>3, <1>4, <1>5, <1>6 DEF MobileInv

LEMMA SubmitKeeps == ASSUME MobileInv, Submit PROVE MobileInv'
<1>. USE MobileAssumption DEF MobileInv, MobileTypeOK, Submit, LoginShown
<1>1. MobileTypeOK'
  BY DEF NoCall, Pending
<1>2. BootKnows' /\ (form = "asking" => given \in Token)'
  BY <1>1 DEF BootKnows, Starting, NoCall
<1>3. MemoryMatchesStore'
  BY DEF BootKnows, MemoryMatchesStore
<1>4. Calm' => CalmKeychain'
  BY <1>1 DEF BootKnows, Starting, Calm, CalmKeychain, NoCall
<1>5. Calm' => CalmList'
  BY <1>1 DEF BootKnows, Starting, Calm, CalmKeychain, CalmList, ListsAreOld,
             NoCall, Pending
<1>6. ListsAreOld'
  BY <1>1 DEF ListsAreOld, NoCall, Pending
<1>. QED BY <1>1, <1>2, <1>3, <1>4, <1>5, <1>6 DEF MobileInv

LEMMA EntersKeeps == ASSUME MobileInv, Enters PROVE MobileInv'
<1>. USE MobileAssumption, Appended DEF MobileInv, MobileTypeOK, Enters, Asked
<1>1. MobileTypeOK'
  <2>1. CASE form = "posting" /\ form' = "asking" /\ ops' = ops
    BY <2>1 DEF Pending
  <2>2. CASE form = "asking" /\ form' = "writing" /\ given' = given
    <3>1. [op |-> "write", by |-> "form", what |-> given] \in Requests
      BY <2>2 DEF Requests
    <3>2. ops' \in Seq(Requests)
      BY <2>2, <3>1
    <3>. QED BY <2>2, <3>2 DEF Pending
  <2>. QED BY <2>1, <2>2
<1>2. BootKnows' /\ (form = "asking" => given \in Token)'
  BY <1>1 DEF BootKnows, Starting, Requests, NoCall
<1>3. MemoryMatchesStore'
  BY DEF BootKnows, MemoryMatchesStore
<1>4. Calm' => CalmKeychain'
  <2>. SUFFICES ASSUME Calm' PROVE CalmKeychain'
    OBVIOUS
  <2>0. Calm /\ CalmKeychain /\ boot = "over" /\ memory = "none" /\ stored = "none"
    BY DEF Calm, CalmKeychain
  <2>1. CASE form = "posting" /\ form' = "asking" /\ ops' = ops
    <3>1. \A i \in DOMAIN ops : ~(ops[i].op = "write" /\ ops[i].by = "form")
      BY <2>0, <2>1 DEF CalmKeychain
    <3>. QED BY <2>0, <2>1, <3>1 DEF CalmKeychain
  <2>2. CASE /\ form = "asking" /\ form' = "writing"
             /\ ops' = Append(ops, [op |-> "write", by |-> "form", what |-> given])
    <3>1. [op |-> "write", by |-> "form", what |-> given] \in Requests
      BY <2>2 DEF Requests
    <3>2. \A i \in DOMAIN ops : ops[i] \in Requests
      OBVIOUS
    <3>3. \A i \in DOMAIN ops : ops[i].by \in {"missions", "purge", "user", "sync", "form"}
      BY <2>0, <3>2 DEF CalmKeychain, Requests
    <3>4. \A i \in DOMAIN ops : ops[i].op # "write"
      <4>1. \A i \in DOMAIN ops : ~(ops[i].op = "write" /\ ops[i].by = "form")
        BY <2>0, <2>2 DEF CalmKeychain
      <4>. QED BY <3>2, <3>3, <4>1 DEF Requests
    <3>5. \A i \in DOMAIN ops' :
            \/ i \in DOMAIN ops /\ ops'[i] = ops[i] /\ i < Len(ops) + 1
            \/ i = Len(ops) + 1 /\ ops'[i] = [op |-> "write", by |-> "form", what |-> given]
      BY <2>2, <3>1
    <3>6. \A i \in DOMAIN ops' : i \in Nat /\ i <= Len(ops) + 1
      BY <2>2, <3>1
    <3>. QED BY <2>0, <2>2, <3>4, <3>5, <3>6 DEF CalmKeychain
  <2>. QED BY <2>1, <2>2
<1>5. Calm' => CalmList'
  BY <1>1 DEF BootKnows, Starting, Calm, CalmKeychain, CalmList, ListsAreOld,
             Requests, NoCall, Pending
<1>6. ListsAreOld'
  <2>1. \A i \in DOMAIN ops' : ops'[i].op = "cache" \/ ops'[i].by = "missions"
          => i \in DOMAIN ops /\ ops'[i] = ops[i]
    <3>1. CASE ops' = ops
      BY <3>1
    <3>2. CASE form = "asking" /\ ops' = Append(ops, [op |-> "write", by |-> "form", what |-> given])
      <4>1. [op |-> "write", by |-> "form", what |-> given] \in Requests
        BY <3>2 DEF Requests
      <4>. QED BY <3>2, <4>1
    <3>. QED BY <3>1, <3>2
  <2>. QED BY <1>1, <2>1 DEF ListsAreOld, NoCall, Pending
<1>. QED BY <1>1, <1>2, <1>3, <1>4, <1>5, <1>6 DEF MobileInv

LEMMA EntryFailsKeeps == ASSUME MobileInv, EntryFails PROVE MobileInv'
<1>. USE MobileAssumption, Appended DEF MobileInv, MobileTypeOK, EntryFails, Asked, Purged
<1>1. MobileTypeOK'
  <2>1. ops' \in Seq(Requests)
    BY PurgeAdds
  <2>. QED BY <2>1 DEF Pending
<1>2. BootKnows' /\ (form = "asking" => given \in Token)'
  <2>1. ~Starting
    BY DEF Starting
  <2>. QED BY <2>1, PurgeKeepsBoot DEF Purged, Asked
<1>3. MemoryMatchesStore'
  BY DEF BootKnows, MemoryMatchesStore
<1>4. Calm' => CalmKeychain'
  <2>. SUFFICES ASSUME Calm' PROVE CalmKeychain'
    OBVIOUS
  <2>0. /\ Calm /\ CalmKeychain /\ boot = "over" /\ memory = "none" /\ stored = "none"
        /\ form # "writing"
    BY DEF Calm, CalmKeychain
  <2>1. \A i \in DOMAIN ops : ~(ops[i].op = "write" /\ ops[i].by = "form")
    BY <2>0 DEF CalmKeychain
  <2>2. CASE ops' = ops
    BY <2>0, <2>1, <2>2 DEF CalmKeychain
  <2>3. CASE ops' = Append(ops, [op |-> "delete", by |-> "purge", what |-> "none"])
    <3>2. \A i \in DOMAIN ops : ops[i] \in Requests
      OBVIOUS
    <3>4. \A i \in DOMAIN ops : ops[i].op # "write"
      BY <2>0, <2>1, <3>2 DEF CalmKeychain, Requests
    <3>5. \A i \in DOMAIN ops' :
            \/ i \in DOMAIN ops /\ ops'[i] = ops[i]
            \/ ops'[i] = [op |-> "delete", by |-> "purge", what |-> "none"]
      BY <2>3, PurgeAsked
    <3>6. \A i \in DOMAIN ops' : ops'[i].op # "write"
      BY <3>4, <3>5
    <3>7. memory' = "none" /\ stored' = "none" /\ boot' = "over" /\ form' = "idle"
      BY <2>0
    <3>8. \A i \in DOMAIN ops' : ops'[i].by # "boot"
      BY <2>0, <3>5 DEF CalmKeychain
    <3>. QED BY <3>6, <3>7, <3>8 DEF CalmKeychain
  <2>. QED BY <2>2, <2>3
<1>5. Calm' => CalmList'
  BY <1>1 DEF BootKnows, Starting, Calm, CalmKeychain, CalmList, ListsAreOld,
             Requests, NoCall, Pending
<1>6. ListsAreOld'
  <2>1. CASE ops' = ops
    BY <1>1, <2>1 DEF ListsAreOld, NoCall, Pending
  <2>2. CASE ops' = Append(ops, [op |-> "delete", by |-> "purge", what |-> "none"])
    <3>1. \A i \in DOMAIN ops' : ops'[i].op = "cache" \/ ops'[i].by = "missions"
            => i \in DOMAIN ops /\ ops'[i] = ops[i]
      BY <2>2, PurgeAsked
    <3>. QED BY <1>1, <3>1 DEF ListsAreOld, NoCall, Pending
  <2>. QED BY <2>1, <2>2
<1>. QED BY <1>1, <1>2, <1>3, <1>4, <1>5, <1>6 DEF MobileInv

LEMMA SignOutKeeps == ASSUME MobileInv, SignOut PROVE MobileInv'
<1>. USE MobileAssumption, Appended DEF MobileInv, MobileTypeOK, SignOut, DashboardShown, Asked
<1>1. MobileTypeOK'
  BY DEF Requests, NoCall, Pending
<1>2. BootKnows' /\ (form = "asking" => given \in Token)'
  BY <1>1 DEF BootKnows, Starting, Requests, NoCall
<1>3. MemoryMatchesStore'
  BY DEF BootKnows, MemoryMatchesStore
<1>4. Calm' => CalmKeychain'
  BY <1>1 DEF BootKnows, Starting, Calm, CalmKeychain, Requests, NoCall
<1>5. Calm' => CalmList'
  BY <1>1 DEF BootKnows, Starting, Calm, CalmKeychain, CalmList, ListsAreOld,
             Requests, NoCall, Pending
<1>6. ListsAreOld'
  BY <1>1 DEF ListsAreOld, Requests, NoCall, Pending
<1>. QED BY <1>1, <1>2, <1>3, <1>4, <1>5, <1>6 DEF MobileInv

LEMMA AskCacheKeeps == ASSUME MobileInv, AskCache PROVE MobileInv'
<1>. USE MobileAssumption, Appended DEF MobileInv, MobileTypeOK, AskCache, DashboardShown, Asked
<1>1. MobileTypeOK'
  BY DEF Requests, NoCall, Pending
<1>2. BootKnows' /\ (form = "asking" => given \in Token)'
  BY <1>1 DEF BootKnows, Starting, Requests, NoCall
<1>3. MemoryMatchesStore'
  BY DEF BootKnows, MemoryMatchesStore
<1>4. Calm' => CalmKeychain'
  BY <1>1 DEF BootKnows, Starting, Calm, CalmKeychain, Requests, NoCall
<1>5. Calm' => CalmList'
  BY <1>1 DEF BootKnows, Starting, Calm, CalmKeychain, CalmList, ListsAreOld,
             Requests, NoCall, Pending
<1>6. ListsAreOld'
  BY <1>1 DEF ListsAreOld, Requests, NoCall, Pending
<1>. QED BY <1>1, <1>2, <1>3, <1>4, <1>5, <1>6 DEF MobileInv

LEMMA RefreshKeeps == ASSUME MobileInv, NEW c \in Call, Refresh(c) PROVE MobileInv'
<1>. USE MobileAssumption DEF MobileInv, MobileTypeOK, Refresh, DashboardShown
<1>1. MobileTypeOK'
  BY DEF NoCall, Pending
<1>2. BootKnows' /\ (form = "asking" => given \in Token)'
  BY <1>1 DEF BootKnows, Starting, NoCall
<1>3. MemoryMatchesStore'
  BY DEF BootKnows, MemoryMatchesStore
<1>4. Calm' => CalmKeychain'
  BY <1>1 DEF BootKnows, Starting, Calm, CalmKeychain, NoCall
<1>5. Calm' => CalmList'
  BY <1>1 DEF BootKnows, Starting, Calm, CalmKeychain, CalmList, ListsAreOld,
             NoCall, Pending
<1>6. ListsAreOld'
  BY <1>1 DEF ListsAreOld, NoCall, Pending
<1>. QED BY <1>1, <1>2, <1>3, <1>4, <1>5, <1>6 DEF MobileInv

LEMMA ServeKeeps == ASSUME MobileInv, NEW c \in Call, Serve(c) PROVE MobileInv'
<1>. USE MobileAssumption DEF MobileInv, MobileTypeOK, Serve
<1>1. MobileTypeOK'
  BY DEF NoCall, Pending
<1>2. BootKnows' /\ (form = "asking" => given \in Token)'
  BY <1>1 DEF BootKnows, Starting, NoCall
<1>3. MemoryMatchesStore'
  BY DEF BootKnows, MemoryMatchesStore
<1>4. Calm' => CalmKeychain'
  BY <1>1 DEF BootKnows, Starting, Calm, CalmKeychain, NoCall
<1>5. Calm' => CalmList'
  BY <1>1 DEF BootKnows, Starting, Calm, CalmKeychain, CalmList, ListsAreOld,
             NoCall, Pending
<1>6. ListsAreOld'
  BY <1>1 DEF ListsAreOld, NoCall, Pending
<1>. QED BY <1>1, <1>2, <1>3, <1>4, <1>5, <1>6 DEF MobileInv

LEMMA SyncKeeps == ASSUME MobileInv, NEW c \in Call, Sync(c) PROVE MobileInv'
<1>. USE MobileAssumption, Appended DEF MobileInv, MobileTypeOK, Sync
<1>1. MobileTypeOK'
  BY DEF Requests, NoCall, Pending
<1>2. BootKnows' /\ (form = "asking" => given \in Token)'
  BY <1>1 DEF BootKnows, Starting, Requests, NoCall
<1>3. MemoryMatchesStore'
  BY DEF BootKnows, MemoryMatchesStore
<1>4. Calm' => CalmKeychain'
  BY <1>1 DEF BootKnows, Starting, Calm, CalmKeychain, Requests, NoCall
<1>5. Calm' => CalmList'
  BY <1>1 DEF BootKnows, Starting, Calm, CalmKeychain, CalmList, ListsAreOld,
             Requests, NoCall, Pending
<1>6. ListsAreOld'
  BY <1>1 DEF ListsAreOld, Requests, NoCall, Pending
<1>. QED BY <1>1, <1>2, <1>3, <1>4, <1>5, <1>6 DEF MobileInv

LEMMA RefreshFailsKeeps == ASSUME MobileInv, NEW c \in Call, RefreshFails(c) PROVE MobileInv'
<1>. USE MobileAssumption, Appended DEF MobileInv, MobileTypeOK, RefreshFails, Asked, Purged
<1>1. MobileTypeOK'
  <2>1. ops' \in Seq(Requests)
    <3>1. CASE ops' = ops
      BY <3>1
    <3>2. CASE ops' = Append(ops, [op |-> "delete", by |-> "purge", what |-> "none"])
      BY <3>2, PurgeAsked
    <3>. QED BY <3>1, <3>2
  <2>2. call' \in [Call -> [token: Token \cup {"none"}, list: 0..Pending]]
    BY NoCalls
  <2>. QED BY <2>1, <2>2 DEF Pending
<1>2. BootKnows' /\ (form = "asking" => given \in Token)'
  <2>1. ~Starting
    BY DEF Starting
  <2>. QED BY <2>1, PurgeKeepsBoot DEF Purged, Asked
<1>3. MemoryMatchesStore'
  BY DEF BootKnows, MemoryMatchesStore
<1>4. Calm' => CalmKeychain'
  BY <1>1 DEF BootKnows, Starting, Calm, CalmKeychain, Requests, NoCall
<1>5. Calm' => CalmList'
  BY <1>1 DEF BootKnows, Starting, Calm, CalmKeychain, CalmList, ListsAreOld,
             Requests, NoCall, Pending
<1>6. ListsAreOld'
  <2>1. CASE ops' = ops
    BY <1>1, <2>1 DEF ListsAreOld, NoCall, Pending
  <2>2. CASE ops' = Append(ops, [op |-> "delete", by |-> "purge", what |-> "none"])
    <3>1. \A i \in DOMAIN ops' : ops'[i].op = "cache" \/ ops'[i].by = "missions"
            => i \in DOMAIN ops /\ ops'[i] = ops[i]
      BY <2>2, PurgeAsked
    <3>. QED BY <1>1, <3>1 DEF ListsAreOld, NoCall, Pending
  <2>. QED BY <2>1, <2>2
<1>. QED BY <1>1, <1>2, <1>3, <1>4, <1>5, <1>6 DEF MobileInv

LEMMA ExpireKeeps == ASSUME MobileInv, NEW t \in Token, Expire(t) PROVE MobileInv'
<1>. USE MobileAssumption DEF MobileInv, MobileTypeOK, Expire
<1>1. MobileTypeOK'
  BY DEF NoCall, Pending
<1>2. BootKnows' /\ (form = "asking" => given \in Token)'
  BY <1>1 DEF BootKnows, Starting, NoCall
<1>3. MemoryMatchesStore'
  BY DEF BootKnows, MemoryMatchesStore
<1>4. Calm' => CalmKeychain'
  BY <1>1 DEF BootKnows, Starting, Calm, CalmKeychain, NoCall
<1>5. Calm' => CalmList'
  BY <1>1 DEF BootKnows, Starting, Calm, CalmKeychain, CalmList, ListsAreOld,
             NoCall, Pending
<1>6. ListsAreOld'
  BY <1>1 DEF ListsAreOld, NoCall, Pending
<1>. QED BY <1>1, <1>2, <1>3, <1>4, <1>5, <1>6 DEF MobileInv

LEMMA ListChangesKeeps == ASSUME MobileInv, ListChanges PROVE MobileInv'
<1>. USE MobileAssumption DEF MobileInv, MobileTypeOK, ListChanges
<1>1. MobileTypeOK'
  BY DEF NoCall, Pending
<1>2. BootKnows' /\ (form = "asking" => given \in Token)'
  BY <1>1 DEF BootKnows, Starting, NoCall
<1>3. MemoryMatchesStore'
  BY DEF BootKnows, MemoryMatchesStore
<1>4. Calm' => CalmKeychain'
  BY <1>1 DEF BootKnows, Starting, Calm, CalmKeychain, NoCall
<1>5. Calm' => CalmList'
  BY <1>1 DEF BootKnows, Starting, Calm, CalmKeychain, CalmList, ListsAreOld,
             NoCall, Pending
<1>6. ListsAreOld'
  <2>1. served' \in Nat /\ \A n \in Nat : n <= served => n <= served'
    OBVIOUS
  <2>2. \A i \in DOMAIN ops : ops[i] \in Requests
    OBVIOUS
  <2>3. \A i \in DOMAIN ops : ops[i].op = "cache" => ops[i].list \in Nat
    BY <2>2 DEF Requests
  <2>4. \A c \in Call : call[c].list \in Nat
    BY DEF Pending
  <2>. QED BY <2>1, <2>3, <2>4 DEF ListsAreOld
<1>. QED BY <1>1, <1>2, <1>3, <1>4, <1>5, <1>6 DEF MobileInv

LEMMA KillKeeps == ASSUME MobileInv, Kill PROVE MobileInv'
<1>. USE MobileAssumption DEF MobileInv, MobileTypeOK, Kill
<1>1. MobileTypeOK'
  <2>1. call' \in [Call -> [token: Token \cup {"none"}, list: 0..Pending]]
    BY NoCalls
  <2>2. ops' \in Seq(Requests)
    BY BootRead
  <2>3. shown' \in 0..MaxLists /\ kills' \in Nat
    OBVIOUS
  <2>. QED BY <2>1, <2>2, <2>3
<1>2. BootKnows' /\ (form = "asking" => given \in Token)'
  BY <1>1 DEF BootKnows, Starting, NoCall
<1>3. MemoryMatchesStore'
  BY DEF BootKnows, MemoryMatchesStore
<1>4. Calm' => CalmKeychain'
  BY <1>1 DEF BootKnows, Starting, Calm, CalmKeychain, NoCall
<1>5. Calm' => CalmList'
  BY <1>1 DEF BootKnows, Starting, Calm, CalmKeychain, CalmList, ListsAreOld,
             NoCall, Pending
<1>6. ListsAreOld'
  BY <1>1 DEF ListsAreOld, NoCall, Pending
<1>. QED BY <1>1, <1>2, <1>3, <1>4, <1>5, <1>6 DEF MobileInv

LEMMA MobileStep == MobileInv /\ [MobileNext]_mobile => MobileInv'
<1>. SUFFICES ASSUME MobileInv, [MobileNext]_mobile PROVE MobileInv'
  OBVIOUS
<1>1. CASE Hydration
  BY <1>1, AcceptedKeeps, RefusedKeeps, UnansweredKeeps DEF Hydration
<1>2. CASE Keychain
  BY <1>2, ReadSessionKeeps, WriteSessionKeeps, DeleteSessionKeeps, ReadCacheKeeps,
     WriteCacheKeeps, KeychainFailsKeeps DEF Keychain
<1>3. CASE Submit \/ Enters \/ EntryFails \/ SignOut \/ AskCache
  BY <1>3, SubmitKeeps, EntersKeeps, EntryFailsKeeps, SignOutKeeps, AskCacheKeeps
<1>4. ASSUME NEW c \in Call, Refresh(c) \/ Serve(c) \/ Sync(c) \/ RefreshFails(c)
      PROVE  MobileInv'
  BY <1>4, RefreshKeeps, ServeKeeps, SyncKeeps, RefreshFailsKeeps
<1>5. ASSUME NEW t \in Token, Expire(t) PROVE MobileInv'
  BY <1>5, ExpireKeeps
<1>6. CASE ListChanges \/ Kill
  BY <1>6, ListChangesKeeps, KillKeeps
<1>7. CASE UNCHANGED mobile
  BY <1>7 DEF mobile, MobileInv, MobileTypeOK, BootKnows, Starting, MemoryMatchesStore, Calm,
              CalmKeychain, CalmList, ListsAreOld
<1>. QED BY <1>1, <1>2, <1>3, <1>4, <1>5, <1>6, <1>7 DEF MobileNext

\* What the head of the keychain's queue may be in a calm life.
LEMMA CalmRequest ==
  ASSUME MobileInv, Calm, Answered
  PROVE  /\ Request.op = "read" /\ Request.by = "boot" => memory = "none"
         /\ Request.op = "write" => memory = "none" /\ stored \in {"none", Request.what}
         /\ Request.op = "delete" => memory = "none" /\ stored = "none"
<1>. USE DEF Answered, Request, Calm, MobileInv
<1>1. Head(ops) = ops[1] /\ 1 \in DOMAIN ops /\ ops[1] \in Requests
  BY Popped DEF MobileTypeOK
<1>2. ASSUME ops[1].op = "read", ops[1].by = "boot" PROVE memory = "none"
  BY <1>1, <1>2 DEF BootKnows, Starting
<1>3. ASSUME ops[1].op = "write" PROVE memory = "none" /\ stored \in {"none", ops[1].what}
  <2>1. boot \notin {"reading", "asking"}
    BY <1>1, <1>3 DEF BootKnows
  <2>2. boot \in {"ending", "over"}
    BY <2>1 DEF MobileTypeOK
  <2>3. CASE boot = "ending"
    BY <2>3 DEF CalmKeychain, Starting
  <2>4. CASE boot = "over"
    <3>1. ops[1].by = "form"
      BY <1>1, <1>3, <2>4 DEF CalmKeychain, Requests
    <3>. QED BY <1>1, <1>3, <2>4, <3>1 DEF CalmKeychain
  <2>. QED BY <2>2, <2>3, <2>4
<1>4. ASSUME ops[1].op = "delete" PROVE memory = "none" /\ stored = "none"
  BY <1>1, <1>4 DEF CalmKeychain
<1>. QED BY <1>1, <1>2, <1>3, <1>4

LEMMA CalmStep ==
  ASSUME MobileInv, [MobileNext]_mobile, Calm
  PROVE  /\ stored \in Token => stored' = stored
         /\ memory # "none" /\ kills' = kills => memory' = memory
<1>. DEFINE Kept == /\ stored \in Token => stored' = stored
                    /\ memory # "none" /\ kills' = kills => memory' = memory
<1>. USE MobileAssumption
<1>1. CASE Accepted \/ Refused
  BY <1>1 DEF Accepted, Refused
<1>2. CASE Unanswered
  BY <1>2 DEF Unanswered, MobileInv, BootKnows, Starting
<1>3. CASE ReadSession
  BY <1>3, CalmRequest DEF ReadSession
<1>4. CASE WriteSession
  BY <1>4, CalmRequest DEF WriteSession
<1>5. CASE DeleteSession
  BY <1>5, CalmRequest DEF DeleteSession
<1>6. CASE KeychainFails
  BY <1>6, CalmRequest DEF KeychainFails
<1>7. CASE ReadCache \/ WriteCache
  BY <1>7 DEF ReadCache, WriteCache
<1>8. CASE Submit \/ Enters \/ EntryFails \/ SignOut \/ AskCache \/ ListChanges
  BY <1>8 DEF Submit, Enters, EntryFails, SignOut, AskCache, ListChanges
<1>9. ASSUME NEW c \in Call, Refresh(c) \/ Serve(c) \/ Sync(c) \/ RefreshFails(c)
      PROVE  Kept
  BY <1>9 DEF Refresh, Serve, Sync, RefreshFails
<1>10. ASSUME NEW t \in Token, Expire(t) PROVE Kept
  BY <1>10 DEF Expire
<1>11. CASE Kill
  <2>1. kills' # kills /\ stored' = stored
    BY <1>11 DEF Kill, MobileInv, MobileTypeOK
  <2>. QED BY <2>1
<1>12. CASE UNCHANGED mobile
  BY <1>12 DEF mobile
<1>. QED BY <1>1, <1>2, <1>3, <1>4, <1>5, <1>6, <1>7, <1>8, <1>9, <1>10, <1>11, <1>12
         DEF MobileNext, Hydration, Keychain

LEMMA ShownStep ==
  ASSUME MobileInv, [MobileNext]_mobile, Calm, kills' = kills
  PROVE  shown' >= shown
<1>. USE MobileAssumption
<1>0. shown \in Nat /\ \A n \in Nat : n >= n
  BY DEF MobileInv, MobileTypeOK
<1>1. CASE Hydration
  BY <1>0, <1>1 DEF Hydration, Accepted, Refused, Unanswered
<1>2. CASE ReadSession \/ WriteSession \/ DeleteSession \/ WriteCache \/ KeychainFails
  BY <1>0, <1>2 DEF ReadSession, WriteSession, DeleteSession, WriteCache, KeychainFails
<1>3. CASE ReadCache
  <2>1. Head(ops) = ops[1] /\ 1 \in DOMAIN ops
    BY <1>3, Popped DEF ReadCache, Answered, MobileInv, MobileTypeOK
  <2>2. ~ready
    BY <1>3, <2>1 DEF ReadCache, Request, MobileInv, ListsAreOld
  <2>3. shown = 0 /\ cache \in Nat
    BY <2>2 DEF MobileInv, MobileTypeOK, ListsAreOld
  <2>4. shown' = cache \/ shown' = shown
    BY <1>3 DEF ReadCache
  <2>. QED BY <2>3, <2>4
<1>4. CASE Submit \/ Enters \/ EntryFails \/ SignOut \/ AskCache \/ ListChanges
  BY <1>0, <1>4 DEF Submit, Enters, EntryFails, SignOut, AskCache, ListChanges
<1>5. ASSUME NEW c \in Call, Refresh(c) \/ Serve(c) \/ RefreshFails(c) PROVE shown' >= shown
  BY <1>0, <1>5 DEF Refresh, Serve, RefreshFails
<1>6. ASSUME NEW c \in Call, Sync(c) PROVE shown' >= shown
  <2>1. shown' = call[c].list /\ call[c].list # 0
    BY <1>6 DEF Sync
  <2>2. call[c] # NoCall
    BY <2>1 DEF NoCall
  <2>. QED BY <2>1, <2>2 DEF MobileInv, CalmList
<1>7. ASSUME NEW t \in Token, Expire(t) PROVE shown' >= shown
  BY <1>0, <1>7 DEF Expire
<1>8. CASE Kill
  <2>1. kills' # kills
    BY <1>8 DEF Kill, MobileInv, MobileTypeOK
  <2>. QED BY <2>1
<1>9. CASE UNCHANGED mobile
  BY <1>0, <1>9 DEF mobile
<1>. QED BY <1>1, <1>2, <1>3, <1>4, <1>5, <1>6, <1>7, <1>8, <1>9
         DEF MobileNext, Keychain

-----------------------------------------------------------------------------
(* What a page shows next.                                                  *)

LEMMA PageStep ==
  ASSUME PagesInv, [PagesNext]_pages, NEW u \in User,
         page[u].at = page'[u].at, page'[u].shown # Nothing
  PROVE  page'[u].shown.move >= page[u].shown.move
<1>. DEFINE Newer == page'[u].shown.move >= page[u].shown.move
<1>0. /\ page \in [User -> Views] /\ page[u] \in Views /\ page[u].shown.move \in Nat
      /\ Away.shown = Nothing
  BY NothingSeen DEF PagesInv, PagesTypeOK, Views
<1>1. page'[u].shown = page[u].shown => Newer
  BY <1>0
<1>. HIDE DEF Newer
<1>2. ASSUME NEW v \in User, NEW i \in Fetch, Press(v, i) PROVE Newer
  <2>1. PICK b \in Offered(v, page[v]) : page' = [page EXCEPT ![v].pressed = b.what]
    BY <1>2 DEF Press
  <2>. QED BY <1>0, <1>1, <2>1 DEF Views
<1>3. ASSUME NEW v \in User, NEW at \in Linked(v), NEW i \in Fetch, Open(v, at, i)
      PROVE  Newer
  <2>1. page' = [page EXCEPT ![v] = [Away EXCEPT !.at = at]]
    BY <1>3 DEF Open
  <2>2. CASE u = v
    BY <1>0, <2>1, <2>2, NothingSeen DEF Views
  <2>3. CASE u # v
    BY <1>0, <1>1, <2>1, <2>3
  <2>. QED BY <2>2, <2>3
<1>4. ASSUME NEW v \in User, Leave(v) PROVE Newer
  <2>1. page' = [page EXCEPT ![v] = Away]
    BY <1>4 DEF Leave
  <2>. QED BY <1>0, <1>1, <2>1
<1>5. ASSUME Server \/ MovedElsewhere \/ UNCHANGED pages PROVE Newer
  <2>1. page' = page
    BY <1>5 DEF Server, Load, Act, Reread, Refuse, Taken, MovedElsewhere, pages
  <2>. QED BY <1>1, <2>1
<1>6. ASSUME NEW i \in Fetch, Replied(i) PROVE Newer
  <2>. DEFINE v == fetch[i].user
  <2>1. v \in User /\ fetch[i] \in Fetches /\ fetch[i].answer \in Versions
    BY <1>6 DEF Replied, PagesInv, PagesTypeOK, Fetches
  <2>2. CASE page' = page
    BY <1>1, <2>2
  <2>3. CASE page' = [page EXCEPT ![v] = [Away EXCEPT !.at = "dashboard"]]
    <3>1. page'[v].shown = Nothing
      BY <1>0, <2>1, <2>3, NothingSeen DEF Views
    <3>. QED BY <1>0, <1>1, <2>1, <2>3, <3>1
  <2>4. CASE page' = [page EXCEPT ![v] = [@ EXCEPT !.at = "card", !.pressed = "none"]]
    <3>1. page'[u].shown = page[u].shown
      BY <1>0, <2>1, <2>4 DEF Views
    <3>. QED BY <1>1, <3>1
  <2>5. CASE page' = [page EXCEPT ![v] = Shows(v, fetch[i].what, fetch[i].answer)]
    <3>1. Shows(v, fetch[i].what, fetch[i].answer).shown = fetch[i].answer
      BY <2>1, ShowsWhat
    <3>2. CASE u = v
      <4>1. page'[u].shown = fetch[i].answer
        BY <1>0, <2>1, <2>5, <3>1, <3>2
      <4>2. /\ fetch[i].answer # Nothing /\ fetch[i].answer.move \in Nat
            /\ page[u].shown.move <= fetch[i].answer.move
        BY <2>1, <3>2, <4>1, NothingSeen DEF PagesInv, AnswersAreNewer
      <4>. QED BY <1>0, <4>1, <4>2 DEF Newer
    <3>3. CASE u # v
      BY <1>0, <1>1, <2>5, <3>3
    <3>. QED BY <3>2, <3>3
  <2>. QED BY <1>6, <2>2, <2>3, <2>4, <2>5 DEF Replied
<1>7. ASSUME NEW i \in Fetch, Failed(i) PROVE Newer
  <2>. DEFINE v == fetch[i].user
  <2>1. v \in User
    BY <1>7 DEF Failed
  <2>2. page[v] \in Views
    BY <1>0, <2>1
  <2>3. PICK p \in {page[v], [page[v] EXCEPT !.pressed = "none", !.shown = Nothing],
                    [page[v] EXCEPT !.pressed = "none"]} :
          page' = [page EXCEPT ![v] = p]
    BY <1>0, <1>7, <2>2 DEF Failed, Views
  <2>4. p.shown \in {page[v].shown, Nothing}
    BY <2>2 DEF Views
  <2>. QED BY <1>0, <1>1, <2>1, <2>3, <2>4
<1>. QED BY <1>2, <1>3, <1>4, <1>5, <1>6, <1>7 DEF PagesNext, Newer

-----------------------------------------------------------------------------
(* The browser.                                                             *)

LEMMA WebStep == WebTypeOK /\ [WebNext]_web => WebTypeOK'
<1>. SUFFICES ASSUME WebTypeOK, [WebNext]_web PROVE WebTypeOK'
  OBVIOUS
<1>. USE DEF WebTypeOK
<1>1. ASSUME NEW r \in Reader,
             ProfileRead(r) \/ Unauthorized(r) \/ Refreshed(r) \/ ReadFails(r)
      PROVE  WebTypeOK'
  BY <1>1 DEF ProfileRead, Unauthorized, Refreshed, ReadFails, Learns, To
<1>2. CASE PostLogin \/ LoggedIn \/ LoginFails
  BY <1>2 DEF PostLogin, LoggedIn, LoginFails, To, Reader
<1>3. CASE SignOutAsked \/ SignedOut \/ CookieExpires \/ AccountDeleted
  BY <1>3 DEF SignOutAsked, SignedOut, CookieExpires, AccountDeleted
<1>4. CASE UNCHANGED web
  BY <1>4 DEF web
<1>. QED BY <1>1, <1>2, <1>3, <1>4 DEF WebNext, Reading

-----------------------------------------------------------------------------
(* The clients side by side.                                                *)

ClientInv == MobileInv /\ WebTypeOK /\ LinkInv /\ PagesInv /\ RateInv

LEMMA ClientInitInv == ClientInit => ClientInv
<1>1. WebInit => WebTypeOK
  BY DEF WebInit, WebTypeOK, Reader
<1>. QED BY <1>1, MobileInitInv, LinkInitInv, PagesInitInv, RateInitInv
         DEF ClientInit, ClientInv

\* A step of the clients is a step of one, and a stuttering step of the others.
LEMMA EachOnItsOwn ==
  ASSUME [ClientNext]_clients
  PROVE  /\ [MobileNext]_mobile /\ [WebNext]_web /\ [LinkNext]_magic
         /\ [PagesNext]_pages /\ [RateNext]_rate
<1>1. CASE MobileNext /\ Phone
  BY <1>1 DEF Phone
<1>2. CASE WebNext /\ Browser
  BY <1>2 DEF Browser
<1>3. CASE LinkNext /\ Code
  BY <1>3 DEF Code
<1>4. CASE PagesNext /\ Tabs
  BY <1>4 DEF Tabs
<1>5. CASE RateNext /\ Limiter
  BY <1>5 DEF Limiter
<1>6. CASE UNCHANGED clients
  BY <1>6 DEF clients
<1>. QED BY <1>1, <1>2, <1>3, <1>4, <1>5, <1>6 DEF ClientNext

LEMMA ClientStep == ClientInv /\ [ClientNext]_clients => ClientInv'
BY EachOnItsOwn, MobileStep, WebStep, LinkStep, PagesStep, RateStep DEF ClientInv

LEMMA ClientAlways == ClientSpec => []ClientInv
BY ClientInitInv, ClientStep, PTL DEF ClientSpec

\* Every client keeps to its types: whatever is asked of the keychain, answered late,
\* counted or pressed, no state has a shape that its code does not know.
THEOREM ClientTypeCorrect ==
  ClientSpec => [](MobileTypeOK /\ WebTypeOK /\ LinkTypeOK /\ PagesTypeOK /\ RateTypeOK)
<1>1. ClientInv => MobileTypeOK /\ WebTypeOK /\ LinkTypeOK /\ PagesTypeOK /\ RateTypeOK
  BY DEF ClientInv, MobileInv, LinkInv, PagesInv, RateInv
<1>. QED BY <1>1, ClientAlways, PTL

\* setSession and clearSession write the keychain before the memory: once the start is
\* over the two agree, whatever is still asked of the keychain.
THEOREM MemoryAlwaysMatchesStore == ClientSpec => []MemoryMatchesStore
<1>1. ClientInv => MemoryMatchesStore
  BY DEF ClientInv, MobileInv
<1>. QED BY <1>1, ClientAlways, PTL

\* Only a refusal of the server or the user ends a session: for any number of tokens,
\* refreshes and kills, a calm life keeps what is stored and what is shown.
THEOREM NobodyIsPunished == ClientSpec => NoPunishment
<1>1. ClientInv /\ [ClientNext]_clients =>
        [expired = {} /\ ~left =>
           /\ stored \in Token => stored' = stored
           /\ memory # "none" /\ kills' = kills => memory' = memory]_mobile
  BY EachOnItsOwn, CalmStep DEF ClientInv, Calm
<1>. QED BY <1>1, ClientAlways, PTL DEF ClientSpec, NoPunishment

\* The pages give a button back unless its action was done, however many requests and
\* moves of the mission cross each other.
THEOREM DarkIsAlwaysDone == ClientSpec => []DarkIsDone
<1>1. ClientInv => DarkIsDone
  BY DEF ClientInv, PagesInv, DarkHasRequest, DarkIsDone, Waiting
<1>. QED BY <1>1, ClientAlways, PTL

\* Neither the list of the phone nor a page of the browser goes back to an older state,
\* for any number of requests, answers and moves.
THEOREM ScreensNeverTurnBack == ClientSpec => ScreensNeverGoBack
<1>1. ClientInv /\ [ClientNext]_clients =>
        [expired = {} /\ ~left /\ kills' = kills => shown' >= shown]_mobile
  BY EachOnItsOwn, ShownStep DEF ClientInv, Calm
<1>2. ClientInv /\ [ClientNext]_clients =>
        [\A u \in User : page[u].at = page'[u].at /\ page'[u].shown # Nothing
           => page'[u].shown.move >= page[u].shown.move]_pages
  BY EachOnItsOwn, PageStep DEF ClientInv
<1>. QED BY <1>1, <1>2, ClientAlways, PTL
         DEF ClientSpec, ScreensNeverGoBack, ShownNeverGoesBack, PageNeverGoesBack

\* verifyMagicLink and isRateLimited, for any number of verifications and requests at
\* once: no more sessions than codes, a bounded number of tries of each code, and less
\* than two windows' worth of requests in the time of one.
THEOREM EntryIsAlwaysBounded == ClientSpec => []EntryIsBounded
<1>1. LinkInv => SessionsAreAskedFor /\ TriesAreBounded
  <2>1. LinkInv => Len(opened) \in Nat /\ codes \in Nat
    BY LinkAssumption DEF LinkInv, LinkTypeOK
  <2>. QED BY <2>1 DEF LinkInv, SessionsAreAskedFor
<1>2. ASSUME RateInv PROVE RateIsBounded
  <2>1. CASE counter = NoRow
    <3>1. entered[MaxHits] <= entered[2 * MaxHits]
      BY <1>2, Bounds DEF RateInv
    <3>. QED BY <1>2, <2>1, <3>1, Bounds DEF RateInv, RateTypeOK, RateIsBounded
  <2>2. CASE counter # NoRow
    <3>1. Present \in Nat /\ Present <= MaxHits
      BY <1>2, Bounds DEF RateInv, RateTypeOK, Present
    <3>. QED BY <1>2, <2>2, <3>1, Bounds DEF RateInv, RateIsBounded
  <2>. QED BY <2>1, <2>2
<1>3. ClientInv => EntryIsBounded
  BY <1>1, <1>2 DEF ClientInv, EntryIsBounded
<1>. QED BY <1>3, ClientAlways, PTL
=============================================================================
