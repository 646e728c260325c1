----------------------- MODULE MissionLifecycleProofs -----------------------
(***************************************************************************)
(* What is proved of MissionLifecycle for any number of calls under way:     *)
(* the escrow and the mission follow the money, an ended mission is final,   *)
(* and the escrow keeps the promise of EscrowLedger.  The invariant adds to  *)
(* the properties what a call knows once Stripe has answered it.  MissionDesk *)
(* takes steps of the life cycle only: what is proved of it is proved here.  *)
(***************************************************************************)
EXTENDS MissionDesk, TLAPS

\* A call that is about to write has been answered by Stripe, or is the penalty
\* worker's on an escrow that was released before it looked.
Answered ==
    \A r \in Request : request[r].step = "write" =>
        \/ hold.status = Wanted(request[r].route)
        \/ request[r].route = "penalty" /\ escrow.status = "RELEASED"

IInv == TypeOK /\ EscrowFollowsStripe /\ MissionFollowsMoney /\ Answered

Settled == {"VALIDATED", "RELEASED", "REFUNDED", "CANCELLED"}

\* The routes that write the mission in one update.
Plain ==
    \/ Match \/ StartTravel \/ Ship \/ Submit \/ DropoffReceipt
    \/ LockCustoms \/ CustomsReceipt \/ CustomsReject
    \/ Dispute \/ ArbitrateFraud \/ AutoRefundWatchdog

\* None of them settles a mission, or touches one whose end is reached.
LEMMA PlainKeepsMoney ==
    ASSUME TypeOK, Plain
    PROVE  /\ mission' \in MissionStatus \ Settled
           /\ mission \notin {"RELEASED", "REFUNDED", "CANCELLED"}
           /\ {shipped, sealed, dutiable}' \subseteq BOOLEAN
           /\ UNCHANGED <<escrow, hold, booked, account, request>>
  BY DEF TypeOK, Plain, Match, StartTravel, Ship, Submit, DropoffReceipt, LockCustoms,
         CustomsReceipt, CustomsReject, Dispute, ArbitrateFraud, AutoRefundWatchdog,
         Becomes, MissionStatus, CustomsLocked, Settled

\* Every call is of one of the twelve routes, and Moves leads to one status for
\* each kind of call.
LEMMA RouteValues ==
    /\ Route = {"validate", "receipt", "receive", "collection", "timeout", "payout", "customs",
                "escrow", "refund", "customs_timeout", "dispute", "penalty"}
    /\ DOMAIN Moves = Route \ {"escrow", "penalty"}
    /\ \A route \in DOMAIN Moves :
         /\ Moves[route][1] \notin {"RELEASED", "REFUNDED", "CANCELLED"}
         /\ \/ Moves[route][2] = "VALIDATED" /\ route \notin Cancels
            \/ Moves[route][2] \in {"REFUNDED", "CANCELLED"} /\ route \in Cancels
<1>1. Route = {"validate", "receipt", "receive", "collection", "timeout", "payout", "customs",
               "escrow", "refund", "customs_timeout", "dispute", "penalty"}
  BY DEF Route, Accepts
<1>2. DOMAIN Moves = {"validate", "receipt", "receive", "collection", "timeout", "payout",
                      "customs", "refund", "customs_timeout", "dispute"}
  BY DEF Moves
<1>3. DOMAIN Moves = Route \ {"escrow", "penalty"}
  BY <1>1, <1>2
<1>4. /\ Moves["validate"] = <<"AWAITING_VALIDATION", "VALIDATED">>
      /\ Moves["receipt"] = <<"AWAITING_VALIDATION", "VALIDATED">>
      /\ Moves["receive"] = <<"IN_PROGRESS", "VALIDATED">>
      /\ Moves["collection"] = <<"DEPOSITED", "VALIDATED">>
      /\ Moves["timeout"] = <<"DEPOSITED", "VALIDATED">>
      /\ Moves["payout"] = <<"DISPUTED", "VALIDATED">>
      /\ Moves["customs"] = <<"PENDING_CUSTOMS_REVIEW", "VALIDATED">>
      /\ Moves["refund"] = <<"DISPUTED", "CANCELLED">>
      /\ Moves["customs_timeout"] = <<"ESCROW_LOCKED_CUSTOMS", "REFUNDED">>
      /\ Moves["dispute"] = <<"IN_DISPUTE", "REFUNDED">>
  BY DEF Moves, Call, ValidateCall, ReceiptCall, ReceiveCall, CollectionCall, TimeoutCall,
         PayoutCall, CustomsCall, RefundCall, CustomsTimeoutCall, DisputeCall
<1>5. ASSUME NEW route \in DOMAIN Moves
      PROVE  /\ Moves[route][1] \notin {"RELEASED", "REFUNDED", "CANCELLED"}
             /\ \/ Moves[route][2] = "VALIDATED" /\ route \notin Cancels
                \/ Moves[route][2] \in {"REFUNDED", "CANCELLED"} /\ route \in Cancels
  BY <1>2, <1>4, <1>5 DEF Cancels
<1>. QED BY <1>1, <1>3, <1>5

THEOREM InitSafe == Init => IInv
<1>. SUFFICES ASSUME Init PROVE IInv
  OBVIOUS
<1>1. TypeOK
  <2>1. request \in [Request -> {Idle} \cup [step: {"stripe", "write"}, route: Route]]
    BY DEF Init
  <2>2. hold \in [status: {"authorized", "captured", "canceled"}, key: Route \cup {"none"}]
    BY DEF Init
  <2>3. mission \in MissionStatus /\ {shipped, sealed, dutiable, booked, account} \subseteq BOOLEAN
    BY DEF Init, MissionStatus
  <2>4. escrow \in [status: {"HELD", "RELEASED", "CANCELLED"}, captured: BOOLEAN]
    BY DEF Init
  <2>. QED BY <2>1, <2>2, <2>3, <2>4 DEF TypeOK
<1>2. EscrowFollowsStripe /\ MissionFollowsMoney
  BY DEF Init, EscrowFollowsStripe, MissionFollowsMoney
<1>3. Answered
  BY DEF Init, Answered, Idle
<1>. QED BY <1>1, <1>2, <1>3 DEF IInv

LEMMA CheckSafe ==
    ASSUME IInv, NEW r \in Request, Check(r)
    PROVE  IInv'
<1>. USE DEF IInv
<1>1. PICK route \in Route, step \in {"stripe", "write"} :
        /\ step = "write" => SkipsStripe(route)
        /\ request' = [request EXCEPT ![r] = [step |-> step, route |-> route]]
        /\ UNCHANGED <<mission, parcel, escrow, hold, booked, account>>
  BY DEF Check
<1>2. TypeOK'
  BY <1>1 DEF TypeOK, parcel
<1>3. EscrowFollowsStripe' /\ MissionFollowsMoney'
  BY <1>1 DEF EscrowFollowsStripe, MissionFollowsMoney
<1>4. Answered'
  <2>1. step = "write" =>
          \/ hold.status = Wanted(route)
          \/ route = "penalty" /\ escrow.status = "RELEASED"
    BY <1>1 DEF SkipsStripe, Wanted, Cancels, EscrowFollowsStripe, TypeOK
  <2>. QED BY <1>1, <2>1 DEF Answered, TypeOK, Wanted
<1>. QED BY <1>2, <1>3, <1>4

LEMMA CallStripeSafe ==
    ASSUME IInv, NEW r \in Request, CallStripe(r)
    PROVE  IInv'
<1>. USE DEF IInv
<1>1. request[r] \in [step: {"stripe", "write"}, route: Route]
  BY DEF CallStripe, TypeOK, Idle
<1>2. /\ UNCHANGED <<mission, parcel, escrow, booked, account>>
      /\ hold' = hold \/ (hold.status = "authorized"
                          /\ hold' = [status |-> Wanted(request[r].route), key |-> Key(request[r].route)])
      /\ \/ /\ request' = [request EXCEPT ![r].step = "write"]
            /\ hold' = [status |-> Wanted(request[r].route), key |-> Key(request[r].route)]
         \/ request' = [request EXCEPT ![r] = Idle]
  BY DEF CallStripe, Ends
<1>3. hold' \in [status: {"authorized", "captured", "canceled"}, key: Route \cup {"none"}]
  BY <1>1, <1>2, RouteValues DEF TypeOK, Wanted, Key
<1>4. TypeOK'
  BY <1>1, <1>2, <1>3 DEF TypeOK, parcel, Idle
<1>5. hold.status # "authorized" => hold' = hold
  BY <1>2
<1>6. EscrowFollowsStripe' /\ MissionFollowsMoney'
  BY <1>2, <1>5 DEF EscrowFollowsStripe, MissionFollowsMoney
<1>7. Answered'
  <2>1. SUFFICES ASSUME NEW q \in Request, request'[q].step = "write"
                 PROVE  \/ hold'.status = Wanted(request'[q].route)
                        \/ request'[q].route = "penalty" /\ escrow'.status = "RELEASED"
    BY DEF Answered, Wanted
  <2>2. CASE q = r
    BY <1>1, <1>2, <2>1, <2>2 DEF TypeOK, Idle
  <2>3. CASE q # r
    <3>1. request'[q] = request[q]
      BY <1>2, <2>3 DEF TypeOK
    <3>2. hold.status = Wanted(request[q].route) => hold' = hold
      BY <1>5 DEF Wanted
    <3>. QED BY <1>2, <2>1, <3>1, <3>2 DEF Answered
  <2>. QED BY <2>2, <2>3
<1>. QED BY <1>4, <1>6, <1>7

LEMMA WriteSafe ==
    ASSUME IInv, NEW r \in Request, Write(r)
    PROVE  IInv'
<1>. USE DEF IInv
<1>. DEFINE route == request[r].route
            from == Moves[route][1]
            to == Moves[route][2]
<1>1. /\ route \in Route
      /\ hold.status = Wanted(route) \/ (route = "penalty" /\ escrow.status = "RELEASED")
  BY DEF Write, TypeOK, Idle, Answered
<1>2. /\ UNCHANGED <<parcel, hold, booked, account>>
      /\ request' = [request EXCEPT ![r] = Idle]
      /\ \/ mission' = mission
         \/ route \in DOMAIN Moves /\ mission = from /\ mission' = to
      /\ escrow' = IF route \in ClosesEscrow /\ escrow.status = "HELD"
                   THEN [escrow EXCEPT !.status = "CANCELLED"] ELSE escrow
  BY DEF Write, Ends
<1>3. TypeOK'
  <2>1. mission' \in MissionStatus
    BY <1>2, RouteValues DEF TypeOK, MissionStatus
  <2>2. escrow' \in [status: {"HELD", "RELEASED", "CANCELLED"}, captured: BOOLEAN]
    BY <1>2 DEF TypeOK
  <2>. QED BY <1>2, <2>1, <2>2 DEF TypeOK, parcel
<1>4. escrow' # escrow => hold.status = "canceled" /\ escrow.status = "HELD"
  BY <1>1, <1>2 DEF ClosesEscrow, Wanted, Cancels
<1>5. EscrowFollowsStripe'
  BY <1>2, <1>4 DEF EscrowFollowsStripe, TypeOK
<1>6. MissionFollowsMoney'
  <2>1. CASE mission' = mission
    BY <1>2, <1>4, <2>1 DEF MissionFollowsMoney
  <2>2. CASE mission' # mission
    <3>1. route \in DOMAIN Moves /\ mission' = to /\ hold.status = Wanted(route)
      BY <1>1, <1>2, <2>2, RouteValues
    <3>2. CASE mission' = "VALIDATED" /\ route \notin Cancels
      BY <1>2, <3>1, <3>2 DEF MissionFollowsMoney, Wanted
    <3>3. CASE mission' \in {"REFUNDED", "CANCELLED"} /\ route \in Cancels
      BY <1>2, <3>1, <3>3 DEF MissionFollowsMoney, Wanted
    <3>. QED BY <3>1, <3>2, <3>3, RouteValues
  <2>. QED BY <2>1, <2>2
<1>7. Answered'
  BY <1>2, <1>4 DEF Answered, TypeOK, Idle, Wanted, ClosesEscrow
<1>. QED BY <1>3, <1>5, <1>6, <1>7

LEMMA HandleCaptureSafe ==
    ASSUME IInv, HandleCapture
    PROVE  IInv'
<1>. USE DEF IInv
<1>1. /\ hold.status = "captured" /\ escrow.status = "HELD"
      /\ UNCHANGED <<parcel, hold, account, request>> /\ booked' = TRUE
      /\ escrow'.captured = TRUE
      /\ escrow' \in [status: {"HELD", "RELEASED"}, captured: BOOLEAN]
      /\ \/ mission' = mission
         \/ mission' = "AWAITING_TRAVELER_ACCOUNT"
         \/ mission' = "RELEASED" /\ escrow'.status = "RELEASED"
  <2>1. CASE BookWithoutAccount
    BY <2>1 DEF HandleCapture, BookWithoutAccount
  <2>2. CASE BookAndRelease
    BY <2>2 DEF HandleCapture, BookAndRelease
  <2>. QED BY <2>1, <2>2 DEF HandleCapture
<1>2. TypeOK'
  BY <1>1 DEF TypeOK, parcel, MissionStatus
<1>3. EscrowFollowsStripe'
  BY <1>1 DEF EscrowFollowsStripe
<1>4. MissionFollowsMoney'
  BY <1>1 DEF MissionFollowsMoney
<1>5. Answered'
  BY <1>1 DEF Answered, Wanted
<1>. QED BY <1>2, <1>3, <1>4, <1>5

THEOREM StepSafe == IInv /\ [Next]_vars => IInv'
<1>. SUFFICES ASSUME IInv, [Next]_vars PROVE IInv'
  OBVIOUS
<1>1. CASE Plain
  <2>1. /\ mission' \in MissionStatus \ Settled
        /\ {shipped, sealed, dutiable}' \subseteq BOOLEAN
        /\ UNCHANGED <<escrow, hold, booked, account, request>>
    BY <1>1, PlainKeepsMoney DEF IInv
  <2>. QED
    BY <2>1 DEF IInv, TypeOK, EscrowFollowsStripe, MissionFollowsMoney, Answered, Wanted, Settled
<1>2. CASE AccountChanges
  BY <1>2 DEF IInv, AccountChanges, parcel, TypeOK, EscrowFollowsStripe, MissionFollowsMoney,
              Answered, Wanted
<1>3. CASE \E r \in Request : Check(r)
  BY <1>3, CheckSafe
<1>4. CASE \E r \in Request : Step(r)
  BY <1>4, CallStripeSafe, WriteSafe DEF Step
<1>5. ASSUME NEW r \in Request, Crash(r) PROVE IInv'
  BY <1>5 DEF IInv, Crash, Ends, parcel, TypeOK, EscrowFollowsStripe, MissionFollowsMoney,
              Answered, Wanted, Idle
<1>6. CASE HandleCapture
  BY <1>6, HandleCaptureSafe
<1>7. CASE UNCHANGED vars
  BY <1>7 DEF vars, parcel, IInv, TypeOK, EscrowFollowsStripe, MissionFollowsMoney, Answered, Wanted
<1>. QED BY <1>1, <1>2, <1>3, <1>4, <1>5, <1>6, <1>7 DEF Next, Plain

LEMMA Invariant == Spec => []IInv
  BY InitSafe, StepSafe, PTL DEF Spec

\* Every reachable state of the life cycle is well typed, for any number of calls.
THEOREM LifecycleTypeCorrect == Spec => []TypeOK
<1>1. IInv => TypeOK
  BY DEF IInv
<1>. QED BY <1>1, Invariant, PTL

\* The escrow row is closed, captured or released only as Stripe's hold is.
THEOREM EscrowAlwaysFollowsStripe == Spec => []EscrowFollowsStripe
<1>1. IInv => EscrowFollowsStripe
  BY DEF IInv
<1>. QED BY <1>1, Invariant, PTL

\* No route, worker or race puts the status of a mission ahead of its money.
THEOREM MissionAlwaysFollowsMoney == Spec => []MissionFollowsMoney
<1>1. IInv => MissionFollowsMoney
  BY DEF IInv
<1>. QED BY <1>1, Invariant, PTL

\* No step moves a mission that was released, refunded or cancelled.
LEMMA EndedStays ==
    ASSUME IInv, Next
    PROVE  UNCHANGED mission \/ mission \notin {"RELEASED", "REFUNDED", "CANCELLED"}
<1>1. CASE Plain
  BY <1>1, PlainKeepsMoney DEF IInv
<1>2. CASE AccountChanges \/ \E r \in Request : Check(r) \/ CallStripe(r) \/ Crash(r)
  BY <1>2 DEF AccountChanges, Check, CallStripe, Crash
<1>3. ASSUME NEW r \in Request, Write(r)
      PROVE  UNCHANGED mission \/ mission \notin {"RELEASED", "REFUNDED", "CANCELLED"}
  BY <1>3, RouteValues DEF Write
<1>4. CASE HandleCapture
  BY <1>4 DEF HandleCapture, IInv, MissionFollowsMoney
<1>. QED BY <1>1, <1>2, <1>3, <1>4 DEF Next, Plain, Step

\* A mission that was released, refunded or cancelled is never written again.
THEOREM EndsAreFinal == Spec => EndIsFinal
<1>1. IInv /\ [Next]_vars =>
        [UNCHANGED mission \/ mission \notin {"RELEASED", "REFUNDED", "CANCELLED"}]_vars
  BY EndedStays
<1>. QED BY <1>1, Invariant, PTL DEF Spec, EndIsFinal

\* The life cycle, the workers that close an escrow included, implements the
\* abstract account of EscrowLedger.
THEOREM LifecycleImplementsLedger == Spec => LedgerPromise
<1>. USE DEF Unit
<1>1. Init => Ledger!Init
  BY DEF Init, Ledger!Init
<1>2. IInv /\ [Next]_vars => [Ledger!Next]_Ledger!account
  <2>. SUFFICES ASSUME IInv, Next
                PROVE  Ledger!Next \/ UNCHANGED Ledger!account
    BY DEF vars, Ledger!account
  <2>1. CASE escrow' = escrow
    BY <2>1 DEF Ledger!account
  <2>2. CASE \E r \in Request : Write(r) /\ escrow' # escrow
    <3>1. PICK r \in Request : Write(r) /\ escrow' # escrow
      BY <2>2
    <3>2. /\ escrow.status = "HELD" /\ hold.status = "canceled"
          /\ escrow' = [escrow EXCEPT !.status = "CANCELLED"]
      BY <3>1 DEF Write, IInv, Answered, Wanted, Cancels, ClosesEscrow
    <3>3. escrow.captured = FALSE
      BY <3>2 DEF IInv, EscrowFollowsStripe, TypeOK
    <3>. QED
      BY <3>2, <3>3 DEF IInv, TypeOK, Ledger!Next, Ledger!Cancel, Ledger!Uncaptured
  <2>3. CASE HandleCapture /\ BookWithoutAccount
    BY <2>3 DEF HandleCapture, BookWithoutAccount, Ledger!Next, Ledger!Book, Ledger!Uncaptured
  <2>4. CASE HandleCapture /\ BookAndRelease
    BY <2>4 DEF HandleCapture, BookAndRelease, Ledger!Next, Ledger!BookAndRelease, Ledger!Uncaptured
  <2>5. escrow' = escrow \/ (\E r \in Request : Write(r)) \/ HandleCapture
    BY PlainKeepsMoney DEF IInv, Next, Plain, Step, AccountChanges, Check, CallStripe, Crash
  <2>. QED BY <2>1, <2>2, <2>3, <2>4, <2>5 DEF HandleCapture
<1>. QED BY <1>1, <1>2, Invariant, PTL DEF Spec, LedgerPromise, Ledger!Spec

-----------------------------------------------------------------------------
(* The desk: the case of the dispute, the card and the reviews.             *)

DeskInv ==
    /\ IInv
    /\ case \in CaseStatus \cup {"none"} /\ ruling \in {"none", "OPEN", "ESCALATED"}
    /\ substitution \in BOOLEAN /\ spent \in Nat /\ reviews \subseteq Participant
    /\ DisputedHasCase /\ CardIsCovered /\ ReviewedIsOver

\* The steps of the desk that leave the life cycle alone.
CaseStep == CreateDispute \/ OpenDispute \/ EscalateDispute \/ ReadCase
            \/ ResolveDispute \/ CloseDispute

\* The desk moves a mission by steps of its life cycle only.
LEMMA DeskStepsAreLifecycle == DeskNext => [Next]_vars
<1>1. CASE LifecycleStep
  BY <1>1 DEF LifecycleStep, Next
<1>2. CASE DisputeMission
  BY <1>2 DEF DisputeMission, Next
<1>3. CASE CaseStep \/ CardApproved \/ Review
  BY <1>3 DEF CaseStep, CreateDispute, OpenDispute, EscalateDispute, ReadCase, ResolveDispute,
              CloseDispute, CardApproved, Review
<1>. QED BY <1>1, <1>2, <1>3 DEF DeskNext, CaseStep

\* Only the buyer's /dispute brings a mission under dispute.
LEMMA OnlyDisputeFreezes ==
    ASSUME IInv, LifecycleStep, mission' \in {"DISPUTED", "DISPUTED_FRAUD"}
    PROVE  mission \in {"DISPUTED", "DISPUTED_FRAUD"}
<1>1. CASE Match \/ StartTravel \/ Ship \/ Submit \/ DropoffReceipt \/ LockCustoms
           \/ CustomsReceipt \/ CustomsReject \/ ArbitrateFraud \/ AutoRefundWatchdog
  BY <1>1 DEF Match, StartTravel, Ship, Submit, DropoffReceipt, LockCustoms, CustomsReceipt,
              CustomsReject, ArbitrateFraud, AutoRefundWatchdog, Becomes
<1>2. CASE AccountChanges \/ \E r \in Request : Check(r) \/ CallStripe(r) \/ Crash(r)
  BY <1>2 DEF AccountChanges, Check, CallStripe, Crash
<1>3. ASSUME NEW r \in Request, Write(r)
      PROVE  mission \in {"DISPUTED", "DISPUTED_FRAUD"}
  BY <1>3, RouteValues DEF Write
<1>4. CASE HandleCapture
  BY <1>4 DEF HandleCapture, BookWithoutAccount, BookAndRelease
<1>. QED BY <1>1, <1>2, <1>3, <1>4 DEF LifecycleStep, Step

LEMMA DeskInitSafe == DeskInit => DeskInv
<1>. SUFFICES ASSUME DeskInit PROVE DeskInv
  OBVIOUS
<1>1. IInv
  BY InitSafe DEF DeskInit
<1>2. DisputedHasCase /\ ReviewedIsOver
  BY DEF DeskInit, Init, DisputedHasCase, ReviewedIsOver
<1>3. CardIsCovered
  BY DeskAssumption DEF DeskInit, CardIsCovered, CapturedAmount, HeldBudget, SubstitutionCeiling
<1>. QED BY <1>1, <1>2, <1>3 DEF DeskInv, DeskInit, CaseStatus, Participant

\* An approved amount is within what the buyer's hold sets aside for the purchase.
LEMMA ApprovedIsHeld ==
    ASSUME substitution \in BOOLEAN, NEW amount \in Nat, NEW limit \in SpendingLimits,
           amount <= Ceiling(limit)
    PROVE  amount <= HeldBudget
<1>1. HeldBudget \in Nat /\ Budget \in Nat /\ Budget <= SubstitutionCeiling
  BY DeskAssumption DEF HeldBudget, SubstitutionCeiling
<1>2. Ceiling(limit) <= HeldBudget
  BY <1>1 DEF Ceiling, HeldBudget, SpendingLimits
<1>3. Ceiling(limit) \in Nat
  BY <1>1 DEF Ceiling, HeldBudget, SpendingLimits
<1>. QED BY <1>1, <1>2, <1>3

LEMMA DeskStepSafe == DeskInv /\ [DeskNext]_deskVars => DeskInv'
<1>. SUFFICES ASSUME DeskInv, [DeskNext]_deskVars PROVE DeskInv'
  OBVIOUS
<1>. USE DEF DeskInv
<1>0. IInv'
  BY DeskStepsAreLifecycle, StepSafe DEF deskVars
<1>1. CASE LifecycleStep /\ UNCHANGED desk
  <2>1. DisputedHasCase'
    BY <1>1, OnlyDisputeFreezes DEF DisputedHasCase, desk
  <2>2. ReviewedIsOver'
    <3>1. UNCHANGED mission \/ mission \notin {"RELEASED", "REFUNDED", "CANCELLED"}
      BY <1>1, EndedStays DEF LifecycleStep, Next
    <3>. QED BY <1>1, <3>1 DEF ReviewedIsOver, desk
  <2>3. CardIsCovered'
    BY <1>1 DEF CardIsCovered, CapturedAmount, HeldBudget, desk
  <2>. QED BY <1>0, <1>1, <2>1, <2>2, <2>3 DEF desk
<1>2. CASE DisputeMission
  <2>1. /\ case' \notin {"none", "DRAFT"} /\ case' \in CaseStatus
        /\ mission = "DEPOSITED"
        /\ UNCHANGED <<ruling, substitution, spent, reviews>>
    BY <1>2 DEF DisputeMission, Dispute, Becomes, Moved, CaseStatus
  <2>2. CardIsCovered'
    BY <2>1 DEF CardIsCovered, CapturedAmount, HeldBudget
  <2>. QED BY <1>0, <2>1, <2>2 DEF DisputedHasCase, ReviewedIsOver
<1>3. CASE CaseStep
  <2>1. /\ UNCHANGED <<mission, substitution, spent, reviews>>
        /\ case' \in CaseStatus \cup {"none"} /\ ruling' \in {"none", "OPEN", "ESCALATED"}
        /\ case \notin {"none", "DRAFT"} => case' \notin {"none", "DRAFT"}
    <3>1. CASE CreateDispute \/ OpenDispute
      BY <3>1 DEF CreateDispute, OpenDispute, Moved, CaseStatus, vars
    <3>2. CASE EscalateDispute \/ CloseDispute
      BY <3>2 DEF EscalateDispute, CloseDispute, Moved, CaseStatus, vars
    <3>3. CASE ReadCase
      BY <3>3 DEF ReadCase, CaseStatus, vars
    <3>4. CASE ResolveDispute
      BY <3>4 DEF ResolveDispute, Moved, CaseStatus, vars
    <3>. QED BY <1>3, <3>1, <3>2, <3>3, <3>4 DEF CaseStep
  <2>2. CardIsCovered'
    BY <2>1 DEF CardIsCovered, CapturedAmount, HeldBudget
  <2>. QED BY <1>0, <2>1, <2>2 DEF DisputedHasCase, ReviewedIsOver
<1>4. CASE CardApproved
  <2>1. PICK amount \in Amounts, limit \in SpendingLimits :
          /\ amount <= Ceiling(limit)
          /\ spent' = IF amount > spent THEN amount ELSE spent
          /\ UNCHANGED <<vars, case, ruling, substitution, reviews>>
    BY <1>4 DEF CardApproved
  <2>2. amount \in Nat
    BY DeskAssumption
  <2>3. amount <= HeldBudget
    BY <2>1, <2>2, ApprovedIsHeld
  <2>4. HeldBudget \in Nat /\ Commission \in Nat /\ HeldBudget' = HeldBudget
    BY <2>1, DeskAssumption DEF HeldBudget, SubstitutionCeiling
  <2>5. CardIsCovered'
    BY <2>1, <2>2, <2>3, <2>4 DEF CardIsCovered, CapturedAmount
  <2>. QED BY <1>0, <2>1, <2>2, <2>5 DEF DisputedHasCase, ReviewedIsOver, vars
<1>5. CASE Review
  <2>1. CardIsCovered'
    BY <1>5 DEF Review, CardIsCovered, CapturedAmount, HeldBudget
  <2>. QED BY <1>0, <1>5, <2>1 DEF Review, DisputedHasCase, ReviewedIsOver, vars
<1>6. CASE UNCHANGED deskVars
  BY <1>0, <1>6 DEF deskVars, desk, vars, DisputedHasCase, ReviewedIsOver, CardIsCovered,
                    CapturedAmount, HeldBudget
<1>. QED BY <1>1, <1>2, <1>3, <1>4, <1>5, <1>6 DEF DeskNext, CaseStep

LEMMA DeskInvariant == DeskSpec => []DeskInv
  BY DeskInitSafe, DeskStepSafe, PTL DEF DeskSpec

\* What is proved of the life cycle holds of the desk: it takes no other step.
THEOREM DeskIsALifecycle == DeskSpec => Spec
<1>1. DeskInit => Init
  BY DEF DeskInit
<1>2. [DeskNext]_deskVars => [Next]_vars
  BY DeskStepsAreLifecycle DEF deskVars
<1>. QED BY <1>1, <1>2, PTL DEF DeskSpec, Spec

\* Mission, escrow and calls, case, card and reviews always have their types.
THEOREM DeskTypeCorrect == DeskSpec => []DeskTypeOK
<1>1. DeskInv => DeskTypeOK
  BY DEF DeskInv, IInv, DeskTypeOK
<1>. QED BY <1>1, DeskInvariant, PTL

\* A disputed or fraudulent mission has a case that was opened, whatever the
\* buyer, the admins and the workers did with both before.
THEOREM DisputedAlwaysHasCase == DeskSpec => []DisputedHasCase
<1>1. DeskInv => DisputedHasCase
  BY DEF DeskInv
<1>. QED BY <1>1, DeskInvariant, PTL

\* For any budget and commission, no amount approved on the card exceeds what
\* the capture takes from the buyer for the purchase.
THEOREM CardAlwaysCovered == DeskSpec => []CardIsCovered
<1>1. DeskInv => CardIsCovered
  BY DEF DeskInv
<1>. QED BY <1>1, DeskInvariant, PTL

\* A reviewed mission is over for good.
THEOREM ReviewedAlwaysOver == DeskSpec => []ReviewedIsOver
<1>1. DeskInv => ReviewedIsOver
  BY DEF DeskInv
<1>. QED BY <1>1, DeskInvariant, PTL

\* The case of a dispute never moves back, and is closed only once resolved.
THEOREM CasesOnlyAdvance == DeskSpec => CaseOnlyAdvances
<1>1. DeskInv /\ [DeskNext]_deskVars =>
        [/\ Rank[case'] >= Rank[case]
         /\ case' = "CLOSED" => case \in {"RESOLVED", "CLOSED"}]_deskVars
  <2>. SUFFICES ASSUME DeskInv, DeskNext
                PROVE  /\ Rank[case'] >= Rank[case]
                       /\ case' = "CLOSED" => case \in {"RESOLVED", "CLOSED"}
    OBVIOUS
  <2>1. \/ case' = case
        \/ case = "none" /\ case' \in {"DRAFT", "OPEN"}
        \/ case = "DRAFT" /\ case' = "OPEN"
        \/ case = "OPEN" /\ case' \in {"ESCALATED", "RESOLVED"}
        \/ case = "ESCALATED" /\ case' = "RESOLVED"
        \/ case = "RESOLVED" /\ case' = "CLOSED"
    BY DEF DeskInv, DeskNext, desk, DisputeMission, CreateDispute, OpenDispute, EscalateDispute,
           ReadCase, ResolveDispute, CloseDispute, CardApproved, Review, Moved
  <2>2. case \in CaseStatus \cup {"none"}
    BY DEF DeskInv
  <2>3. /\ Rank["none"] = 0 /\ Rank["DRAFT"] = 1 /\ Rank["OPEN"] = 2
        /\ Rank["ESCALATED"] = 3 /\ Rank["RESOLVED"] = 4 /\ Rank["CLOSED"] = 5
    BY DEF Rank
  <2>4. Rank[case] \in Nat
    BY <2>2, <2>3 DEF CaseStatus
  <2>. QED BY <2>1, <2>3, <2>4
<1>. QED BY <1>1, DeskInvariant, PTL DEF DeskSpec, CaseOnlyAdvances
=============================================================================
