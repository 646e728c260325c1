--------------------------- MODULE DisputeRefund ---------------------------
(***************************************************************************)
(* The automatic refund of a mission that did not arrive in time.  The       *)
(* watchdog freezes the mission; a pass of the worker enqueues an event for  *)
(* it, claims the pending events by counting an attempt, cancels the hold    *)
(* outside any transaction, and writes event, mission and escrow in one.  A  *)
(* claim leaves the event pending: the next pass of any process may take it  *)
(* again.  A /receive accepted before the freeze may capture meanwhile.      *)
(***************************************************************************)
EXTENDS Naturals

CONSTANTS
    Event,        \* rows of OutboxEvent, READY_FOR_REFUND, of one mission
    Instance,     \* the processes that run the worker
    MaxAttempts   \* 5 by default

ASSUME DisputeAssumption == MaxAttempts \in Nat \ {0} /\ "none" \notin Event

VARIABLES
    mission,    \* Mission.status
    escrow,     \* EscrowTransaction.status
    hold,       \* Stripe: status of the PaymentIntent
    receiving,  \* how far a /receive has come
    event,      \* OutboxEvent: [status, attempts]
    pass        \* what each process is doing

vars == <<mission, escrow, hold, receiving, event, pass>>

None == "none"

\* claimed: the attempts of the events the pass has claimed, 0 for the others.
NoPass == [step |-> "idle", claimed |-> [e \in Event |-> 0], event |-> None]

Init ==
    /\ mission = "IN_PROGRESS" /\ escrow = "HELD" /\ hold = "authorized"
    /\ receiving = "no"
    /\ event = [e \in Event |-> [status |-> "absent", attempts |-> 0]]
    /\ pass = [i \in Instance |-> NoPass]

With(status) == {e \in Event : event[e].status = status}

-----------------------------------------------------------------------------
(* What happens to the mission besides.                                     *)

\* The deadline of the refund is the time of the freeze.
TriggerAutoRefundWatchdog ==
    /\ mission = "IN_PROGRESS"
    /\ mission' = "IN_DISPUTE"
    /\ UNCHANGED <<escrow, hold, receiving, event, pass>>

\* /receive looks at the mission, captures, and writes what it may.
Receive ==
    /\ \/ /\ receiving = "no" /\ mission = "IN_PROGRESS" /\ escrow = "HELD"
          /\ receiving' = "accepted"
          /\ UNCHANGED <<mission, hold>>
       \/ /\ receiving = "accepted" /\ hold = "authorized"
          /\ receiving' = "captured" /\ hold' = "captured"
          /\ UNCHANGED mission
       \/ /\ receiving = "captured" /\ mission = "IN_PROGRESS"
          /\ receiving' = "done" /\ mission' = "VALIDATED"
          /\ UNCHANGED hold
    /\ UNCHANGED <<escrow, event, pass>>

\* The webhook books the capture once: released, or nowhere to go.
HandleCapture ==
    /\ hold = "captured" /\ escrow = "HELD" /\ mission # "AWAITING_TRAVELER_ACCOUNT"
    /\ \/ /\ escrow' = "RELEASED"
          /\ mission' = IF mission = "VALIDATED" THEN "RELEASED" ELSE mission
       \/ mission' = "AWAITING_TRAVELER_ACCOUNT" /\ UNCHANGED escrow
    /\ UNCHANGED <<hold, receiving, event, pass>>

-----------------------------------------------------------------------------
(* A pass of the worker.                                                    *)

\* The query of the enqueuing: a frozen mission that has no event yet.
Scan(i) ==
    /\ pass[i] = NoPass
    /\ pass' = [pass EXCEPT ![i].step =
         IF mission = "IN_DISPUTE" /\ With("absent") = Event THEN "insert" ELSE "claim"]
    /\ UNCHANGED <<mission, escrow, hold, receiving, event>>

\* The mission is locked after the query has looked for events, and its own row is
\* looked at again; an event inserted in between goes unnoticed.
Insert(i) ==
    /\ pass[i].step = "insert"
    /\ \/ /\ mission = "IN_DISPUTE"
          /\ \E e \in With("absent") : event' = [event EXCEPT ![e].status = "PENDING"]
       \/ mission # "IN_DISPUTE" /\ UNCHANGED event
    /\ pass' = [pass EXCEPT ![i].step = "claim"]
    /\ UNCHANGED <<mission, escrow, hold, receiving>>

Claimable == {e \in With("PENDING") : event[e].attempts < MaxAttempts}

\* Mutant: the attempt is not counted.
ClaimUncounted(i) ==
    /\ pass[i].step = "claim"
    /\ LET counted(e) == IF e \in Claimable THEN event[e].attempts + 1 ELSE 0
       IN  pass' = [pass EXCEPT ![i] =
             [step |-> "next", claimed |-> [e \in Event |-> counted(e)], event |-> None]]
    /\ UNCHANGED <<mission, escrow, hold, receiving, event>>

\* One transaction counts the attempt of every event it claims.
Claim(i) ==
    /\ pass[i].step = "claim"
    /\ LET counted(e) == IF e \in Claimable THEN event[e].attempts + 1 ELSE 0
       IN  /\ event' = [e \in Event |->
                IF e \in Claimable THEN [event[e] EXCEPT !.attempts = counted(e)] ELSE event[e]]
           /\ pass' = [pass EXCEPT ![i] =
                [step |-> "next", claimed |-> [e \in Event |-> counted(e)], event |-> None]]
    /\ UNCHANGED <<mission, escrow, hold, receiving>>

Goes(i, step, e) == pass' = [pass EXCEPT ![i] = [pass[i] EXCEPT !.step = step, !.event = e]]

\* The pass goes on to its next event.
Leave(i, e) ==
    pass' = [pass EXCEPT ![i] =
               [pass[i] EXCEPT !.step = "next", !.event = None, !.claimed[e] = 0]]

Finish(i) ==
    /\ pass[i].step = "next" /\ \A e \in Event : pass[i].claimed[e] = 0
    /\ pass' = [pass EXCEPT ![i] = NoPass]
    /\ UNCHANGED <<mission, escrow, hold, receiving, event>>

\* The escrow is read: a hold to cancel, an event to close, or money that is gone.
ReadEscrow(i, e) ==
    /\ pass[i].step = "next" /\ pass[i].claimed[e] > 0
    /\ Goes(i, CASE escrow = "HELD" -> "cancel"
                 [] escrow = "CANCELLED" -> "write"
                 [] escrow = "RELEASED" -> "hopeless", e)
    /\ UNCHANGED <<mission, escrow, hold, receiving, event>>

\* Mutant: an error of Stripe does not stop the refund.
CancelCarryOn(i, e) ==
    /\ pass[i].step = "cancel" /\ pass[i].event = e
    /\ hold' = hold \/ (hold = "authorized" /\ hold' = "canceled")
    /\ Goes(i, "write", e)
    /\ UNCHANGED <<mission, escrow, receiving, event>>

\* Stripe cancels an authorized hold, answers a cancelled one as before, refuses a
\* captured one; an answer may be lost.
Cancel(i, e) ==
    /\ pass[i].step = "cancel" /\ pass[i].event = e
    /\ \/ hold # "captured" /\ hold' = "canceled" /\ Goes(i, "write", e)
       \/ /\ hold' = hold \/ (hold = "authorized" /\ hold' = "canceled")
          /\ Goes(i, "failed", e)
    /\ UNCHANGED <<mission, escrow, receiving, event>>

\* Event, mission and escrow in one transaction; or it fails.
Write(i, e) ==
    /\ pass[i].step = "write" /\ pass[i].event = e
    /\ \/ /\ event' = [event EXCEPT ![e].status = "SETTLED"]
          /\ mission' = IF mission = "IN_DISPUTE" THEN "REFUNDED" ELSE mission
          /\ escrow' = IF escrow = "HELD" THEN "CANCELLED" ELSE escrow
          /\ Leave(i, e)
       \/ Goes(i, "failed", e) /\ UNCHANGED <<event, mission, escrow>>
    /\ UNCHANGED <<hold, receiving>>

\* The failure is written over whatever the event has become.
FailRefund(i, e) ==
    /\ pass[i].step \in {"failed", "hopeless"} /\ pass[i].event = e
    /\ event' = [event EXCEPT ![e].status =
         IF pass[i].step = "hopeless" \/ pass[i].claimed[e] >= MaxAttempts
         THEN "FAILED" ELSE "PENDING"]
    /\ Leave(i, e)
    /\ UNCHANGED <<mission, escrow, hold, receiving>>

\* The process dies, or a statement outside the catch fails and ends the pass.
Crash(i) ==
    /\ pass[i] # NoPass
    /\ pass' = [pass EXCEPT ![i] = NoPass]
    /\ UNCHANGED <<mission, escrow, hold, receiving, event>>

Execute(i, e) == ReadEscrow(i, e) \/ Cancel(i, e) \/ Write(i, e) \/ FailRefund(i, e)

Next ==
    \/ TriggerAutoRefundWatchdog \/ Receive \/ HandleCapture
    \/ \E i \in Instance :
         \/ Scan(i) \/ Insert(i) \/ Claim(i) \/ Finish(i) \/ Crash(i)
         \/ \E e \in Event : Execute(i, e)

Spec == Init /\ [][Next]_vars

\* Some process runs: a pass is started every minute, and not every one dies before
\* it has enqueued or claimed.  What comes after a claim need not be fair.
FairSpec ==
    /\ Spec
    /\ WF_vars(\E i \in Instance :
         Scan(i) \/ Finish(i) \/ \E e \in Event : Execute(i, e))
    /\ SF_vars(\E i \in Instance : Insert(i))
    /\ SF_vars(\E i \in Instance : Claim(i))

-----------------------------------------------------------------------------
(* Properties.                                                             *)

\* Rows and passes have their types.
TypeOK ==
    /\ mission \in {"IN_PROGRESS", "IN_DISPUTE", "REFUNDED", "VALIDATED", "RELEASED",
                    "AWAITING_TRAVELER_ACCOUNT"}
    /\ escrow \in {"HELD", "RELEASED", "CANCELLED"}
    /\ hold \in {"authorized", "captured", "canceled"}
    /\ receiving \in {"no", "accepted", "captured", "done"}
    /\ event \in [Event -> [status: {"absent", "PENDING", "SETTLED", "FAILED"},
                            attempts: 0..MaxAttempts]]
    /\ pass \in [Instance -> [step: {"idle", "insert", "claim", "next", "cancel", "write",
                                     "failed", "hopeless"},
                              claimed: [Event -> 0..MaxAttempts], event: Event \cup {None}]]

\* What is called refunded was never captured, and what was released was: event,
\* mission and escrow are closed on Stripe's answer alone, though a /receive captures
\* under way, an event is claimed twice and answers are lost.
RefundIsReal ==
    /\ mission = "REFUNDED" \/ escrow = "CANCELLED" \/ With("SETTLED") # {} => hold = "canceled"
    /\ escrow = "RELEASED" => hold = "captured"

\* An event is given up at its last attempt, or because the money is gone.
GivenUpIsJustified ==
    \A e \in With("FAILED") : event[e].attempts = MaxAttempts \/ escrow = "RELEASED"

\* A frozen mission does not stay so unnoticed: it is refunded, or moves on, or its
\* event comes to its last attempt.
FrozenIsHandled ==
    mission = "IN_DISPUTE" ~>
      \/ mission # "IN_DISPUTE"
      \/ \E e \in Event : event[e].status = "FAILED" \/ event[e].attempts = MaxAttempts

-----------------------------------------------------------------------------
(* What the code, its comments or the schema say, and the code does not do. *)

\* What the worker says of several instances: one intention of refund per mission.
OneIntention == \A e, f \in Event : {e, f} \cap With("absent") = {} => e = f

\* What the worker says of the last attempt: an event ends SETTLED or FAILED.
NothingStranded ==
    \A e \in Event : event[e].attempts = MaxAttempts ~> event[e].status \in {"SETTLED", "FAILED"}

\* What the verdict assumes: a refund that was carried out is not reported as failed.
SettledIsFinal ==
    [][\A e \in Event : event[e].status = "SETTLED" => event'[e].status = "SETTLED"]_vars
=============================================================================
