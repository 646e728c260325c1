------------------------------ MODULE Funding ------------------------------
(***************************************************************************)
(* How one mission gets its escrow.  POST /intent and /checkout-session     *)
(* reserve the mission (CREATED to FUNDED), create a PaymentIntent at        *)
(* Stripe, then the row of the escrow: three writes in no transaction.  A    *)
(* crash or an error between them is repaired by two reconciliation passes,  *)
(* while the buyer pays, a traveler takes the mission and the clock expires  *)
(* it.  The two routes differ by the PaymentIntent their key names.          *)
(***************************************************************************)
EXTENDS Naturals

CONSTANTS
    Request,   \* the funding requests that may be under way at the same time
    Faults     \* see FundingAssumption

\* stalled_request: a request may pause for longer than the ten minutes after
\* which a reservation without an escrow counts as abandoned;
\* lost_answer: the row of the escrow may be written and its answer lost.
ASSUME FundingAssumption == Faults \subseteq {"stalled_request", "lost_answer"}

VARIABLES
    mission,   \* status of the mission
    escrow,    \* the EscrowTransaction of the mission: [status, pi]
    pi,        \* Stripe: the status of each PaymentIntent of the mission
    secret,    \* PaymentIntents whose client secret or URL reached the buyer
    declined,  \* PaymentIntents of which Stripe reported a failed payment
    request,   \* what each request is doing
    pass,      \* the pass over abandoned reservations
    orphan     \* the pass over reservations without an escrow

vars == <<mission, escrow, pi, secret, declined, request, pass, orphan>>

\* The key of a route always names the same PaymentIntent.
Route == {"intent", "checkout"}

MissionStatus ==
    {"CREATED", "FUNDED", "MATCHED", "CANCELLED", "EXPIRED", "NOTIFICATION_FAILED"}

\* Stripe's statuses of a PaymentIntent: requires_action is a payment that waits
\* for the bank to authenticate the buyer, who may have left.
PIStatus ==
    {"absent", "requires_payment_method", "requires_action", "requires_capture", "canceled"}

NoEscrow == [status |-> "none", pi |-> "none"]

Idle == [step |-> "idle"]

\* The steps of a request that has reserved the mission.
Reserving == {"reserved", "created", "answering", "failing"}

Init ==
    /\ mission = "CREATED"
    /\ escrow = NoEscrow
    /\ pi = [p \in Route |-> "absent"]
    /\ secret = {} /\ declined = {}
    /\ request = [r \in Request |-> Idle]
    /\ pass = "idle" /\ orphan = "idle"

-----------------------------------------------------------------------------
(* A request of the buyer.                                                 *)

\* What both routes require before they do anything.
Fundable == escrow = NoEscrow /\ mission = "CREATED"

Ask(r, p) ==
    /\ request[r] = Idle
    /\ Fundable
    /\ request' = [request EXCEPT ![r] = [step |-> "checked", route |-> p]]
    /\ UNCHANGED <<mission, escrow, pi, secret, declined, pass, orphan>>

AskIntent(r) == Ask(r, "intent")

AskCheckout(r) == Ask(r, "checkout")

Check(r) == AskIntent(r) \/ AskCheckout(r)

Goto(r, step) == request' = [request EXCEPT ![r].step = step]

Ends(r) == request' = [request EXCEPT ![r] = Idle]

\* Only a mission that is still CREATED can be reserved.
Reserve(r) ==
    /\ request[r].step = "checked"
    /\ IF mission = "CREATED"
       THEN mission' = "FUNDED" /\ Goto(r, "reserved")
       ELSE UNCHANGED mission /\ Ends(r)
    /\ UNCHANGED <<escrow, pi, secret, declined, pass, orphan>>

Made(p) == [pi EXCEPT ![p] = IF @ = "absent" THEN "requires_payment_method" ELSE @]

\* Stripe answers with the PaymentIntent of the key, new or not; or the call
\* fails, before or after the PaymentIntent is made.
CallStripe(r, p) ==
    /\ request[r].step = "reserved" /\ request[r].route = p
    /\ \/ pi' = Made(p) /\ Goto(r, "created")
       \/ pi' \in {pi, Made(p)} /\ Goto(r, "failing")
    /\ UNCHANGED <<mission, escrow, secret, declined, pass, orphan>>

CreateIntent(r) == CallStripe(r, "intent")

\* A session of Checkout may also come without its PaymentIntent: it fails.
CreateSession(r) == CallStripe(r, "checkout")

\* Mutant: the row is written over the one that is there.
UpsertEscrow(r) ==
    /\ request[r].step = "created"
    /\ escrow' = [status |-> "HELD", pi |-> request[r].route]
    /\ Goto(r, "answering")
    /\ UNCHANGED <<mission, pi, secret, declined, pass, orphan>>

\* missionId is unique: a second escrow cannot be inserted.
CreateEscrow(r) ==
    /\ request[r].step = "created"
    /\ \/ /\ escrow = NoEscrow
          /\ escrow' = [status |-> "HELD", pi |-> request[r].route]
          /\ \/ Goto(r, "answering")
             \/ "lost_answer" \in Faults /\ Goto(r, "failing")
       \/ UNCHANGED escrow /\ Goto(r, "failing")
    /\ UNCHANGED <<mission, pi, secret, declined, pass, orphan>>

\* Mutant: whatever became of the mission meanwhile.
RevertById(r) ==
    /\ request[r].step = "failing"
    /\ mission' = "CREATED"
    /\ Ends(r)
    /\ UNCHANGED <<escrow, pi, secret, declined, pass, orphan>>

\* The catch of the route gives the reservation up.
Revert(r) ==
    /\ request[r].step = "failing"
    /\ mission' = IF mission = "FUNDED" THEN "CREATED" ELSE mission
    /\ Ends(r)
    /\ UNCHANGED <<escrow, pi, secret, declined, pass, orphan>>

Answer(r) ==
    /\ request[r].step = "answering"
    /\ secret' = secret \cup {request[r].route}
    /\ Ends(r)
    /\ UNCHANGED <<mission, escrow, pi, declined, pass, orphan>>

Crash(r) ==
    /\ request[r] # Idle
    /\ Ends(r)
    /\ UNCHANGED <<mission, escrow, pi, secret, declined, pass, orphan>>

Step(r) ==
    \/ Reserve(r) \/ CreateIntent(r) \/ CreateSession(r)
    \/ CreateEscrow(r) \/ Revert(r) \/ Answer(r)

-----------------------------------------------------------------------------
(* The buyer at Stripe, and what else happens to the mission.              *)

Authorize(p) == pi' = [pi EXCEPT ![p] = "requires_capture"] /\ UNCHANGED declined

Decline(p) ==
    /\ pi' = [pi EXCEPT ![p] = "requires_payment_method"]
    /\ declined' = declined \cup {p}

\* The buyer enters a card: the bank authorizes it, declines it, or asks him to
\* authenticate himself.
Confirm(p) ==
    /\ pi[p] = "requires_payment_method"
    /\ \/ Authorize(p) \/ Decline(p)
       \/ pi' = [pi EXCEPT ![p] = "requires_action"] /\ UNCHANGED declined

\* He does so, or fails to; who leaves instead never takes this step.
Authenticate(p) ==
    /\ pi[p] = "requires_action"
    /\ Authorize(p) \/ Decline(p)

\* Only who has the secret or the URL can pay.
Pay(p) ==
    /\ p \in secret
    /\ Confirm(p) \/ Authenticate(p)
    /\ UNCHANGED <<mission, escrow, secret, request, pass, orphan>>

\* The webhook's handler of a failed payment, which may come late.
HandleFailure(p) ==
    /\ p \in declined
    /\ escrow = [status |-> "HELD", pi |-> p]
    /\ escrow' = [escrow EXCEPT !.status = "CANCELLED"]
    /\ mission' = "CANCELLED"
    /\ UNCHANGED <<pi, secret, declined, request, pass, orphan>>

\* checkout.session.completed, delivered once the session is paid, or later: it
\* funds the mission only if it finds no escrow; a mission that is not CREATED
\* then aborts the delivery.
HandleCheckout ==
    /\ "checkout" \in secret /\ pi["checkout"] = "requires_capture"
    /\ IF escrow = NoEscrow
       THEN /\ mission = "CREATED" /\ mission' = "FUNDED"
            /\ escrow' = [status |-> "HELD", pi |-> "checkout"]
       ELSE UNCHANGED <<mission, escrow>>
    /\ UNCHANGED <<pi, secret, declined, request, pass, orphan>>

\* /match and /accept ask for a FUNDED mission, and do not look at the escrow.
Match ==
    /\ mission = "FUNDED"
    /\ mission' = "MATCHED"
    /\ UNCHANGED <<escrow, pi, secret, declined, request, pass, orphan>>

\* The mission is not funded in time, or no traveler could be told of it: see
\* MissionPool.
Close ==
    /\ mission = "CREATED"
    /\ mission' \in {"EXPIRED", "NOTIFICATION_FAILED"}
    /\ UNCHANGED <<escrow, pi, secret, declined, request, pass, orphan>>

-----------------------------------------------------------------------------
(* Reconciliation.                                                         *)

\* The reservation is old: its request has ended, unless requests may stall.
Old == "stalled_request" \in Faults \/ \A r \in Request : request[r].step \notin Reserving

\* Mutant: the statuses of an abandoned PaymentIntent miss the usual one.
AbandonedUsed == {"requires_confirmation"}

\* No payment was begun, or the last try has failed.  A payment in
\* requires_action is not among these, nor authorized: every pass skips it.
Abandoned == {"requires_payment_method", "requires_confirmation"}

Retrieve ==
    /\ pass = "idle"
    /\ escrow.status = "HELD" /\ mission = "FUNDED" /\ Old
    /\ pi[escrow.pi] \in Abandoned
    /\ pass' = "unpaid"
    /\ UNCHANGED <<mission, escrow, pi, secret, declined, request, orphan>>

\* One transaction: both rows are as they were found, or nothing is changed.
Rollback ==
    /\ pass = "unpaid"
    /\ IF escrow.status = "HELD" /\ mission = "FUNDED"
       THEN /\ escrow' = [escrow EXCEPT !.status = "CANCELLED"]
            /\ mission' = "CREATED"
            /\ pass' = "cancelling"
       ELSE pass' = "idle" /\ UNCHANGED <<escrow, mission>>
    /\ UNCHANGED <<pi, secret, declined, request, orphan>>

\* Best effort: a failure is reported, and the pass goes on.
CancelIntent ==
    /\ pass = "cancelling"
    /\ pi' \in {pi, [pi EXCEPT ![escrow.pi] = "canceled"]}
    /\ pass' = "idle"
    /\ UNCHANGED <<mission, escrow, secret, declined, request, orphan>>

\* The search finds the PaymentIntents that exist and are not canceled.
Search ==
    /\ orphan = "idle"
    /\ escrow = NoEscrow /\ mission = "FUNDED" /\ Old
    /\ LET live == {p \in Route : pi[p] \notin {"absent", "canceled"}}
       IN  IF live = {} THEN orphan' = "none" ELSE orphan' \in live
    /\ UNCHANGED <<mission, escrow, pi, secret, declined, request, pass>>

\* Mutant: a reservation is given up only if Stripe knows of it.
RecoverFound ==
    /\ orphan # "idle"
    /\ IF mission = "FUNDED" /\ escrow = NoEscrow /\ orphan \in Route
       THEN escrow' = [status |-> "HELD", pi |-> orphan]
       ELSE UNCHANGED escrow
    /\ orphan' = "idle"
    /\ UNCHANGED <<mission, pi, secret, declined, request, pass>>

Recover ==
    /\ orphan # "idle"
    /\ IF mission = "FUNDED" /\ escrow = NoEscrow
       THEN IF orphan \in Route
            THEN escrow' = [status |-> "HELD", pi |-> orphan] /\ UNCHANGED mission
            ELSE mission' = "CREATED" /\ UNCHANGED escrow
       ELSE UNCHANGED <<mission, escrow>>
    /\ orphan' = "idle"
    /\ UNCHANGED <<pi, secret, declined, request, pass>>

\* A pass whose process dies is started again and reads afresh: what it leaves
\* is what a slow pass leaves, or one whose call to Stripe fails.
Reconciliation == Retrieve \/ Rollback \/ CancelIntent \/ Search \/ Recover

\* What moves the money, or waits for it.
Money ==
    \/ \E r \in Request : Check(r) \/ Step(r) \/ Crash(r)
    \/ \E p \in Route : Pay(p) \/ HandleFailure(p)
    \/ HandleCheckout
    \/ Reconciliation

Next == Money \/ Match \/ Close

Spec == Init /\ [][Next]_vars

-----------------------------------------------------------------------------
(* Properties.                                                             *)

TypeOK ==
    /\ mission \in MissionStatus
    /\ escrow \in {NoEscrow} \cup [status: {"HELD", "CANCELLED"}, pi: Route]
    /\ pi \in [Route -> PIStatus]
    /\ secret \subseteq Route /\ declined \subseteq Route
    /\ request \in [Request -> {Idle} \cup [step: {"checked"} \cup Reserving, route: Route]]
    /\ pass \in {"idle", "unpaid", "cancelling"}
    /\ orphan \in {"idle", "none"} \cup Route

\* The buyer's card carries the hold of the escrow.
Authorized == \E p \in Route : escrow.pi = p /\ pi[p] = "requires_capture"

\* The bank waits for the buyer.
Authenticating == \E p \in Route : escrow.pi = p /\ pi[p] = "requires_action"

\* The buyer can only pay the PaymentIntent of the escrow: whatever requests
\* raced, stalled or died, no second hold is ever put on the buyer's card, and
\* no hold is unknown to the program.
HoldIsTracked ==
    /\ \A p \in secret : escrow.pi = p
    /\ \A p \in Route : pi[p] = "requires_capture" => p \in secret

\* When no request stalls and no answer is lost, an open escrow belongs to a
\* reserved mission: the two never part.
HeldIsFunded == escrow.status = "HELD" => mission \in {"FUNDED", "MATCHED"}

\* A mission has one escrow row for ever, for one PaymentIntent, and once it is
\* cancelled it is not opened again.
EscrowRowKept ==
    [][escrow # NoEscrow =>
         /\ escrow'.pi = escrow.pi
         /\ escrow.status = "CANCELLED" => escrow' = escrow]_vars

\* A reservation whose request died gets its escrow or is given up, unless a
\* traveler took the mission first.
OrphanResolved == (mission = "FUNDED" /\ escrow = NoEscrow) ~> (mission # "FUNDED" \/ escrow # NoEscrow)

\* A reservation whose payment was not begun, or has failed, does not keep a
\* mission for ever: unless the buyer pays, or leaves it with the bank, the
\* mission is given back or closed.
UnbegunReservationEnds ==
    (mission = "FUNDED" /\ escrow.status = "HELD") ~>
        (mission # "FUNDED" \/ Authorized \/ Authenticating)

-----------------------------------------------------------------------------
(* What the code, its comments or the schema say, and the code does not do. *)

\* What reconciliation says of itself: a buyer who never pays does not block the
\* mission in FUNDED.  One who has left the bank's authentication does.
UnpaidReservationEnds ==
    (mission = "FUNDED" /\ escrow.status = "HELD") ~>
        (mission # "FUNDED" \/ Authorized)

\* What reconciliation says of itself: a PaymentIntent that is authorized is
\* never rolled back.
PaidHoldNeverRolledBack ==
    [][escrow.status = "HELD" /\ Authorized /\ mission = "FUNDED" => mission' # "CREATED"]_vars

\* What reconciliation says of itself: a mission it rolls back can be funded again.
RolledBackIsFundable == [][Rollback /\ mission' = "CREATED" => Fundable']_vars

\* What the schema says of FUNDED: the escrow is in place.  So it should be when
\* a traveler has taken the mission and buys the goods.
TakenIsHeld == mission = "MATCHED" => escrow # NoEscrow

\* What the schema says of NOTIFICATION_FAILED: it blocks nothing.
NotificationFailureBlocksNothing ==
    mission = "NOTIFICATION_FAILED" /\ escrow = NoEscrow => Fundable
=============================================================================
