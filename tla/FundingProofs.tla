--------------------------- MODULE FundingProofs ---------------------------
(***************************************************************************)
(* What funding guarantees for any number of requests.  Whatever stalls,     *)
(* dies or loses an answer, the mission keeps its escrow row and no hold is  *)
(* put on the buyer's card but the one of that row.  When no request stalls  *)
(* and no answer is lost, an open escrow belongs to a reserved mission: at   *)
(* most one request has the mission reserved, and no pass meets it there.    *)
(***************************************************************************)
EXTENDS MissionPool, TLAPS

Pending(r) == request[r].step \in Reserving

\* A request that is about to answer knows the PaymentIntent of the escrow.
AnswerOK ==
    \A r \in Request : request[r].step = "answering" => escrow.pi = request[r].route

HInv == TypeOK /\ HoldIsTracked /\ AnswerOK

USE DEF Route, MissionStatus, PIStatus, NoEscrow, Idle, Reserving

\* A request that is not idle has a route.
LEMMA RequestTyped ==
    ASSUME TypeOK, NEW r \in Request, request[r].step # "idle"
    PROVE  request[r] \in [step: {"checked"} \cup Reserving, route: Route]
  BY DEF TypeOK

\* A step of one request moves it alone.
LEMMA GotoTyped ==
    ASSUME TypeOK, NEW r \in Request, request[r].step # "idle",
           NEW step \in Reserving, Goto(r, step)
    PROVE  /\ request' \in [Request -> {Idle} \cup [step: {"checked"} \cup Reserving, route: Route]]
           /\ request'[r].step = step /\ request'[r].route = request[r].route
           /\ \A q \in Request \ {r} : request'[q] = request[q]
  BY RequestTyped DEF TypeOK, Goto

LEMMA InitHInv == Init => HInv
  BY DEF Init, HInv, TypeOK, HoldIsTracked, AnswerOK

\* What a step does to the row of the escrow: it is inserted where there is
\* none, or cancelled.
EscrowMoves ==
    \/ UNCHANGED escrow
    \/ escrow = NoEscrow /\ escrow' \in [status: {"HELD"}, pi: Route]
    \/ escrow.status = "HELD" /\ escrow' = [escrow EXCEPT !.status = "CANCELLED"]

LEMMA StepEscrow == ASSUME TypeOK, Next PROVE EscrowMoves
<1>1. ASSUME NEW r \in Request, Check(r) \/ Step(r) \/ Crash(r) PROVE EscrowMoves
  <2>1. CASE CreateEscrow(r)
    BY <2>1, RequestTyped DEF CreateEscrow, EscrowMoves
  <2>. QED BY <1>1, <2>1
       DEF Check, AskIntent, AskCheckout, Ask, Step, Crash, Reserve, CreateIntent, CreateSession,
           CallStripe, Revert, Answer, EscrowMoves
<1>2. ASSUME NEW p \in Route, Pay(p) \/ HandleFailure(p) PROVE EscrowMoves
  BY <1>2 DEF Pay, HandleFailure, EscrowMoves
<1>3. CASE Match \/ Close \/ HandleCheckout
  BY <1>3 DEF Match, Close, HandleCheckout, EscrowMoves
<1>4. CASE Reconciliation
  BY <1>4 DEF Reconciliation, Retrieve, Rollback, CancelIntent, Search, Recover, EscrowMoves
<1>. QED BY <1>1, <1>2, <1>3, <1>4 DEF Next, Money

LEMMA RequestKeepsHInv ==
    ASSUME HInv, NEW r \in Request, Check(r) \/ Step(r) \/ Crash(r)
    PROVE  HInv'
<1>. USE DEF HInv, TypeOK, HoldIsTracked, AnswerOK
<1>1. CASE Check(r)
  <2>1. PICK p \in Route : Ask(r, p)
    BY <1>1 DEF Check, AskIntent, AskCheckout
  <2>. QED BY <2>1 DEF Ask
<1>2. CASE Reserve(r)
  BY <1>2, RequestTyped DEF Reserve, Goto, Ends
<1>3. CASE CreateIntent(r) \/ CreateSession(r)
  <2>0. PICK p \in Route : CallStripe(r, p)
    BY <1>3 DEF CreateIntent, CreateSession
  <2>2. PICK step \in {"created", "failing"} : Goto(r, step)
    BY <2>0 DEF CallStripe
  <2>3. /\ pi' \in [Route -> PIStatus]
        /\ \A a \in Route : pi'[a] = "requires_capture" => pi[a] = "requires_capture"
    BY <2>0 DEF CallStripe, Made
  <2>. QED BY <2>0, <2>2, <2>3, GotoTyped DEF CallStripe
<1>4. CASE CreateEscrow(r)
  <2>1. request[r].route \in Route
    BY <1>4, RequestTyped DEF CreateEscrow
  <2>2. CASE escrow = NoEscrow /\ escrow' = [status |-> "HELD", pi |-> request[r].route]
    <3>1. secret = {}
      BY <2>2
    <3>2. \A q \in Request : request[q].step # "answering"
      <4>. SUFFICES ASSUME NEW q \in Request, request[q].step = "answering" PROVE FALSE
        OBVIOUS
      <4>1. request[q].route \in Route
        BY RequestTyped
      <4>. QED BY <2>2, <4>1
    <3>. QED BY <1>4, <2>1, <2>2, <3>1, <3>2, GotoTyped DEF CreateEscrow
  <2>3. CASE UNCHANGED escrow /\ Goto(r, "failing")
    BY <1>4, <2>3, GotoTyped DEF CreateEscrow
  <2>. QED BY <1>4, <2>2, <2>3, ZenonT(40) DEF CreateEscrow
<1>5. CASE Revert(r)
  BY <1>5 DEF Revert, Ends
<1>6. CASE Answer(r)
  BY <1>6, RequestTyped DEF Answer, Ends
<1>7. CASE Crash(r)
  BY <1>7 DEF Crash, Ends
<1>. QED BY <1>1, <1>2, <1>3, <1>4, <1>5, <1>6, <1>7 DEF Step

LEMMA StepHInv == HInv /\ [Next]_vars => HInv'
<1>. SUFFICES ASSUME HInv, [Next]_vars PROVE HInv'
  OBVIOUS
<1>. USE DEF HInv, TypeOK, HoldIsTracked, AnswerOK
<1>1. ASSUME NEW r \in Request, Check(r) \/ Step(r) \/ Crash(r) PROVE HInv'
  BY <1>1, RequestKeepsHInv
<1>2. ASSUME NEW p \in Route, Pay(p) PROVE HInv'
  <2>1. p \in secret /\ UNCHANGED <<mission, escrow, secret, request, pass, orphan>>
    BY <1>2 DEF Pay
  <2>2. /\ declined' \subseteq Route
        /\ pi' \in [Route -> PIStatus]
        /\ \A q \in Route : pi'[q] = "requires_capture" => pi[q] = "requires_capture" \/ q = p
    <3>1. CASE Authorize(p)
      BY <3>1 DEF Authorize
    <3>2. CASE Decline(p)
      BY <3>2 DEF Decline
    <3>3. CASE pi' = [pi EXCEPT ![p] = "requires_action"] /\ UNCHANGED declined
      BY <3>3
    <3>. QED BY <1>2, <3>1, <3>2, <3>3 DEF Pay, Confirm, Authenticate
  <2>. QED BY <2>1, <2>2
<1>3. ASSUME NEW p \in Route, HandleFailure(p) PROVE HInv'
  BY <1>3 DEF HandleFailure
<1>4. CASE Match \/ Close
  BY <1>4 DEF Match, Close
<1>10. CASE HandleCheckout
  BY <1>10 DEF HandleCheckout
<1>5. CASE Retrieve \/ Search
  BY <1>5 DEF Retrieve, Search
<1>6. CASE Rollback
  BY <1>6 DEF Rollback
<1>7. CASE CancelIntent
  BY <1>7 DEF CancelIntent
<1>8. CASE Recover
  <2>1. CASE escrow = NoEscrow
    <3>1. secret = {}
      BY <2>1
    <3>2. \A q \in Request : request[q].step # "answering"
      <4>. SUFFICES ASSUME NEW q \in Request, request[q].step = "answering" PROVE FALSE
        OBVIOUS
      <4>1. request[q].route \in Route
        BY RequestTyped
      <4>. QED BY <2>1, <4>1
    <3>. QED BY <1>8, <2>1, <3>1, <3>2 DEF Recover
  <2>2. CASE escrow # NoEscrow
    BY <1>8, <2>2 DEF Recover
  <2>. QED BY <2>1, <2>2
<1>9. CASE UNCHANGED vars
  BY <1>9 DEF vars
<1>. QED BY <1>1, <1>2, <1>3, <1>4, <1>5, <1>6, <1>7, <1>8, <1>9, <1>10 DEF Next, Money, Reconciliation

LEMMA HInvariant == Spec => []HInv
BY InitHInv, StepHInv, PTL DEF Spec

\* Every reachable state is well typed.
THEOREM FundingTypeCorrect == Spec => []TypeOK
<1>1. HInv => TypeOK
  BY DEF HInv
<1>. QED BY HInvariant, <1>1, PTL

\* The buyer can pay one PaymentIntent only, the one of the escrow row, however
\* the requests race, stall, die or lose answers.
THEOREM HoldAlwaysTracked == Spec => []HoldIsTracked
<1>1. HInv => HoldIsTracked
  BY DEF HInv
<1>. QED BY HInvariant, <1>1, PTL

\* The escrow row of a mission is never replaced, and never reopened.
THEOREM EscrowRowAlwaysKept == Spec => EscrowRowKept
<1>. DEFINE Kept == escrow # NoEscrow =>
                      /\ escrow'.pi = escrow.pi
                      /\ escrow.status = "CANCELLED" => escrow' = escrow
<1>1. HInv /\ [Next]_vars => [Kept]_vars
  <2>. SUFFICES ASSUME HInv, Next PROVE Kept
    OBVIOUS
  <2>1. EscrowMoves
    BY StepEscrow DEF HInv
  <2>. QED BY <2>1 DEF EscrowMoves, HInv, TypeOK
<1>. QED BY HInvariant, <1>1, PTL DEF Spec, EscrowRowKept
-----------------------------------------------------------------------------
(* The pool.                                                               *)

\* What the notification and the sweep do to the mission is what Close does.
LEMMA PoolStep == [PoolNext]_poolVars => [Next]_vars
<1>. SUFFICES ASSUME PoolNext PROVE [Next]_vars
  BY DEF poolVars
<1>1. CASE Money /\ UNCHANGED pool
  BY <1>1 DEF Next
<1>2. CASE MarkFailed
  BY <1>2 DEF MarkFailed, Next, Close, vars
<1>3. CASE Expire
  BY <1>3 DEF Expire, Next, Close, vars
<1>4. CASE Take
  BY <1>4 DEF Take, Next
<1>5. CASE Trigger \/ Attempt \/ LateCallEnds \/ NoticeLost \/ TimePasses \/ Find
  BY <1>5 DEF Trigger, Attempt, LateCallEnds, NoticeLost, TimePasses, Find
<1>. QED BY <1>1, <1>2, <1>3, <1>4, <1>5 DEF PoolNext, Notification, Sweep

\* Telling the travelers, and expiring what nobody funded, add nothing to what
\* funding may meet: all that is proved of Funding holds beside them.
THEOREM PoolIsFunding == PoolSpec => Spec
<1>1. PoolInit => Init
  BY DEF PoolInit
<1>. QED BY <1>1, PoolStep, PTL DEF PoolSpec, Spec

\* What the pool keeps of the notification and of the sweep has its type.
BesideOK ==
    /\ notice \in [step: {"due", "trying", "exhausted", "over"}, attempt: 0..Attempts]
    /\ told \in {"no", "late", "yes"} /\ past \in BOOLEAN /\ sweep \in {"idle", "found"}

LEMMA PoolKeepsTypes == BesideOK /\ [PoolNext]_poolVars => BesideOK'
<1>. SUFFICES ASSUME BesideOK, [PoolNext]_poolVars PROVE BesideOK'
  OBVIOUS
<1>. USE DEF BesideOK
<1>0. Attempts \in Nat \ {0}
  BY PoolAssumption DEF Attempts
<1>1. CASE (Money /\ UNCHANGED pool) \/ Take \/ UNCHANGED poolVars
  BY <1>1 DEF pool, Take, poolVars
<1>2. CASE Trigger \/ MarkFailed \/ NoticeLost
  BY <1>0, <1>2 DEF Trigger, MarkFailed, NoticeLost
<1>3. CASE Attempt
  <2>1. NextAttempt => notice' \in [step: {"due", "trying", "exhausted", "over"},
                                    attempt: 0..Attempts]
    BY <1>0 DEF NextAttempt
  <2>. QED BY <1>3, <2>1 DEF Attempt
<1>4. CASE LateCallEnds \/ TimePasses \/ Sweep
  BY <1>4 DEF LateCallEnds, TimePasses, Sweep, Find, Expire
<1>. QED BY <1>1, <1>2, <1>3, <1>4 DEF PoolNext, Notification

\* The funding, and what the pool keeps beside it, always have their types: no more
\* attempts to tell the travelers are made than there are.
THEOREM PoolTypeCorrect == PoolSpec => []PoolTypeOK
<1>1. PoolInit => BesideOK
  <2>. SUFFICES ASSUME PoolInit PROVE BesideOK
    OBVIOUS
  <2>1. 0 \in 0..Attempts
    BY PoolAssumption DEF Attempts
  <2>2. notice \in [step: {"due", "trying", "exhausted", "over"}, attempt: 0..Attempts]
    BY <2>1 DEF PoolInit
  <2>. QED BY <2>2 DEF PoolInit, BesideOK
<1>2. TypeOK /\ BesideOK => PoolTypeOK
  BY DEF PoolTypeOK, BesideOK
<1>. QED BY <1>1, <1>2, PoolKeepsTypes, PoolIsFunding, FundingTypeCorrect, PTL DEF PoolSpec

\* What a step does to a mission that is over, or taken.
LEMMA MissionMoves ==
    ASSUME TypeOK, Next
    PROVE  /\ Closed => mission' = mission \/ mission' = "CANCELLED"
           /\ mission = "MATCHED" => mission' = "MATCHED" \/ mission' = "CANCELLED"
<1>. USE DEF Closed
<1>1. ASSUME NEW r \in Request, Check(r) \/ Step(r) \/ Crash(r)
      PROVE  mission' = mission \/ mission \in {"CREATED", "FUNDED"}
  BY <1>1 DEF Check, AskIntent, AskCheckout, Ask, Step, Crash, Reserve, CreateIntent,
              CreateSession, CallStripe, CreateEscrow, Revert, Answer
<1>2. CASE \E p \in Route : Pay(p) \/ HandleFailure(p)
  BY <1>2 DEF Pay, HandleFailure
<1>3. CASE HandleCheckout \/ Match \/ Close
  BY <1>3 DEF HandleCheckout, Match, Close
<1>4. CASE Reconciliation
  BY <1>4 DEF Reconciliation, Retrieve, Rollback, CancelIntent, Search, Recover
<1>. QED BY <1>1, <1>2, <1>3, <1>4 DEF Next, Money

\* A mission that is over is not brought back by what had begun before.
THEOREM ClosedIsForGood == PoolSpec => ClosedForGood
<1>. DEFINE Kept == Closed => mission' = mission \/ mission' = "CANCELLED"
<1>1. HInv /\ [Next]_vars /\ [PoolNext]_poolVars => [Kept]_poolVars
  BY MissionMoves DEF HInv, vars
<1>2. Spec => [][Next]_vars
  BY DEF Spec
<1>. QED BY HInvariant, PoolIsFunding, <1>1, <1>2, PTL DEF PoolSpec, ClosedForGood

\* A mission that was taken is not given back, nor closed for want of travelers
\* or of time.
THEOREM TakenIsAlwaysKept == PoolSpec => TakenIsKept
<1>. DEFINE Kept == mission = "MATCHED" => mission' = "MATCHED" \/ mission' = "CANCELLED"
<1>1. HInv /\ [Next]_vars /\ [PoolNext]_poolVars => [Kept]_poolVars
  BY MissionMoves DEF HInv, vars
<1>2. Spec => [][Next]_vars
  BY DEF Spec
<1>. QED BY HInvariant, PoolIsFunding, <1>1, <1>2, PTL DEF PoolSpec, TakenIsKept
-----------------------------------------------------------------------------
(* No request stalls and no answer is lost.                                *)

Faultless == Faults = {}

\* At most one request has the mission reserved; while it has, the mission is
\* not open to another, and its escrow is not there before it is answered.
ReservedOnce ==
    \A r \in Request : Pending(r) =>
        /\ \A q \in Request : Pending(q) => q = r
        /\ mission \in {"FUNDED", "MATCHED", "CANCELLED"}
        /\ request[r].step # "answering" => escrow.status # "HELD"

\* A pass that may still give the mission back meets no request.
PassesApart ==
    /\ pass # "idle" => escrow # NoEscrow
    /\ pass = "unpaid" /\ escrow.status = "HELD" /\ mission = "FUNDED" =>
         \A r \in Request : ~Pending(r)
    /\ orphan # "idle" /\ escrow = NoEscrow =>
         mission \in {"FUNDED", "MATCHED"} /\ \A r \in Request : ~Pending(r)

CancelledOK == mission = "CANCELLED" => escrow.status = "CANCELLED"

FInv == TypeOK /\ HeldIsFunded /\ ReservedOnce /\ PassesApart /\ CancelledOK

LEMMA InitFInv == Init => FInv
<1>. SUFFICES ASSUME Init PROVE FInv
  OBVIOUS
<1>1. TypeOK
  BY InitHInv DEF HInv
<1>. QED BY <1>1 DEF Init, FInv, HeldIsFunded, ReservedOnce, PassesApart, CancelledOK, Pending

LEMMA RequestKeepsFInv ==
    ASSUME FInv, TypeOK', NEW r \in Request, Check(r) \/ Step(r) \/ Crash(r), Faultless
    PROVE  FInv'
<1>. USE DEF FInv, HeldIsFunded, ReservedOnce, PassesApart, CancelledOK, Pending
<1>1. CASE Check(r) \/ Crash(r)
  <2>1. /\ ~Pending(r)'
        /\ \A q \in Request : Pending(q)' => Pending(q) /\ request'[q] = request[q]
    BY <1>1 DEF Check, AskIntent, AskCheckout, Ask, Crash, Ends, TypeOK
  <2>. QED BY <1>1, <2>1 DEF Check, AskIntent, AskCheckout, Ask, Crash
<1>2. CASE Reserve(r)
  <2>1. CASE mission = "CREATED"
    <3>1. \A q \in Request : ~Pending(q)
      BY <2>1
    <3>2. mission' = "FUNDED" /\ Goto(r, "reserved")
      BY <1>2, <2>1 DEF Reserve
    <3>3. request'[r].step = "reserved" /\ \A q \in Request \ {r} : request'[q] = request[q]
      BY <1>2, <3>2, GotoTyped DEF Reserve
    <3>4. \A q \in Request : Pending(q)' => q = r
      BY <3>1, <3>3
    <3>. QED BY <1>2, <2>1, <3>1, <3>2, <3>3, <3>4 DEF Reserve
  <2>2. CASE mission # "CREATED"
    <3>1. \A q \in Request : Pending(q)' => Pending(q) /\ request'[q] = request[q]
      BY <1>2, <2>2 DEF Reserve, Ends, TypeOK
    <3>. QED BY <1>2, <2>2, <3>1 DEF Reserve
  <2>. QED BY <2>1, <2>2
<1>3. CASE CreateIntent(r) \/ CreateSession(r)
  <2>0. PICK p \in Route : CallStripe(r, p)
    BY <1>3 DEF CreateIntent, CreateSession
  <2>1. PICK step \in {"created", "failing"} : Goto(r, step)
    BY <2>0 DEF CallStripe
  <2>2. /\ request'[r].step = step
        /\ \A q \in Request \ {r} : request'[q] = request[q]
    BY <2>0, <2>1, GotoTyped DEF CallStripe
  <2>3. Pending(r) /\ request[r].step = "reserved"
    BY <2>0 DEF CallStripe
  <2>. QED BY <2>0, <2>1, <2>2, <2>3 DEF CallStripe
<1>4. CASE CreateEscrow(r)
  <2>1. Pending(r) /\ request[r].step = "created" /\ UNCHANGED <<mission, pass, orphan>>
    BY <1>4 DEF CreateEscrow
  <2>2. PICK step \in {"answering", "failing"} :
          /\ Goto(r, step)
          /\ \/ /\ step = "answering" /\ escrow = NoEscrow
                /\ escrow' = [status |-> "HELD", pi |-> request[r].route]
             \/ step = "failing" /\ UNCHANGED escrow
    BY <1>4 DEF CreateEscrow, Faultless
  <2>3. /\ request'[r].step = step
        /\ \A q \in Request \ {r} : request'[q] = request[q]
    BY <2>1, <2>2, GotoTyped
  <2>. QED BY <2>1, <2>2, <2>3
<1>5. CASE Revert(r)
  <2>1. Pending(r) /\ escrow.status # "HELD"
    BY <1>5 DEF Revert
  <2>2. \A q \in Request : ~Pending(q)'
    BY <1>5, <2>1 DEF Revert, Ends, TypeOK
  <2>. QED BY <1>5, <2>1, <2>2 DEF Revert
<1>6. CASE Answer(r)
  <2>1. \A q \in Request : Pending(q)' => Pending(q) /\ request'[q] = request[q]
    BY <1>6 DEF Answer, Ends, TypeOK
  <2>. QED BY <1>6, <2>1 DEF Answer
<1>. QED BY <1>1, <1>2, <1>3, <1>4, <1>5, <1>6 DEF Step

LEMMA StepFInv == ASSUME Faultless, FInv, HInv, TypeOK', [Next]_vars PROVE FInv'
<1>. USE DEF FInv, HeldIsFunded, ReservedOnce, PassesApart, CancelledOK, Pending
<1>1. ASSUME NEW r \in Request, Check(r) \/ Step(r) \/ Crash(r) PROVE FInv'
  BY <1>1, RequestKeepsFInv
<1>2. ASSUME NEW p \in Route, Pay(p) \/ HandleFailure(p) PROVE FInv'
  BY <1>2 DEF Pay, HandleFailure, TypeOK
<1>3. CASE Match \/ Close
  BY <1>3 DEF Match, Close
<1>9. CASE HandleCheckout
  <2>. escrow # NoEscrow
    BY <1>9 DEF HandleCheckout, HInv, HoldIsTracked
  <2>. QED BY <1>9 DEF HandleCheckout
<1>4. CASE Retrieve \/ Search
  BY <1>4 DEF Retrieve, Search, Old, Faultless
<1>5. CASE Rollback
  BY <1>5 DEF Rollback, TypeOK
<1>6. CASE CancelIntent
  BY <1>6 DEF CancelIntent
<1>7. CASE Recover
  BY <1>7 DEF Recover
<1>8. CASE UNCHANGED vars
  BY <1>8 DEF vars
<1>. QED BY <1>1, <1>2, <1>3, <1>4, <1>5, <1>6, <1>7, <1>8, <1>9
       DEF Next, Money, Reconciliation

\* When no request stalls and no answer is lost, an open escrow always belongs to
\* a mission that is reserved or taken: no route and no pass gives one back alone.
THEOREM HeldIsAlwaysFunded == ASSUME Faultless PROVE Spec => []HeldIsFunded
<1>1. FInv /\ HInv /\ HInv' /\ [Next]_vars => FInv'
  BY StepFInv DEF HInv
<1>2. FInv => HeldIsFunded
  BY DEF FInv
<1>. QED BY InitFInv, HInvariant, <1>1, <1>2, PTL DEF Spec
=============================================================================
