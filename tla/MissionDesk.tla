---------------------------- MODULE MissionDesk ----------------------------
(***************************************************************************)
(* What people do beside the life cycle of a mission: the structured case   *)
(* of its dispute (DisputeService), the card the traveler pays with in the  *)
(* shop (the JIT authorization), and the reviews once it is over.           *)
(*                                                                          *)
(* Every step of MissionLifecycle is a step here.  The buyer's /dispute is  *)
(* the one that also writes the case, in the same transaction; the other    *)
(* operations leave the mission alone and read it.                          *)
(***************************************************************************)
EXTENDS MissionLifecycle

CONSTANTS
    Budget, Commission,  \* of the mission, in cents
    Amounts              \* what the shop may ask of the card

ASSUME DeskAssumption ==
    Budget \in Nat \ {0} /\ Commission \in Nat /\ Amounts \subseteq Nat

VARIABLES
    case,         \* status of the Dispute row of the mission, or "none"
    ruling,       \* the status an admin's /dispute/resolve has read, or "none"
    substitution, \* Mission.substitutionAuthorized, set at creation
    spent,        \* the largest amount approved on the card
    reviews       \* who has left a review

desk == <<case, ruling, substitution, spent, reviews>>
deskVars == <<vars, desk>>

CaseStatus == {"DRAFT", "OPEN", "ESCALATED", "RESOLVED", "CLOSED"}
Participant == {"buyer", "traveler"}

DeskInit ==
    /\ Init
    /\ case = "none" /\ ruling = "none"
    /\ substitution \in BOOLEAN
    /\ spent = 0
    /\ reviews = {}

-----------------------------------------------------------------------------
(* The case of the dispute.                                                *)

\* The updateMany of every transition: a case in another status is left alone,
\* and the call is answered by a no-op or an error.
Moved(from, to) == IF case = from THEN to ELSE case

\* POST /dispute/draft: whatever the status of the mission, once per mission.
CreateDispute ==
    /\ case = "none"
    /\ case' = "DRAFT"
    /\ UNCHANGED <<vars, ruling, substitution, spent, reviews>>

OpenDispute ==
    /\ case = "DRAFT"
    /\ case' = Moved("DRAFT", "OPEN")
    /\ UNCHANGED <<vars, ruling, substitution, spent, reviews>>

EscalateDispute ==
    /\ case = "OPEN"
    /\ case' = Moved("OPEN", "ESCALATED")
    /\ UNCHANGED <<vars, ruling, substitution, spent, reviews>>

\* The admin's decision reads the status, and moves the case from what it read.
ReadCase ==
    /\ ruling = "none" /\ case \in {"OPEN", "ESCALATED"}
    /\ ruling' = case
    /\ UNCHANGED <<vars, case, substitution, spent, reviews>>

ResolveDispute ==
    /\ ruling # "none"
    /\ case' = Moved(ruling, "RESOLVED")
    /\ ruling' = "none"
    /\ UNCHANGED <<vars, substitution, spent, reviews>>

CloseDispute ==
    /\ case = "RESOLVED"
    /\ case' = Moved("RESOLVED", "CLOSED")
    /\ UNCHANGED <<vars, ruling, substitution, spent, reviews>>

\* Mutant: the case is drafted and left for the buyer to open.
DisputeMissionDrafted ==
    /\ Dispute
    /\ case' = IF case = "none" THEN "DRAFT" ELSE case
    /\ UNCHANGED <<ruling, substitution, spent, reviews>>

\* POST /dispute freezes the mission, and drafts and opens its case with it.
DisputeMission ==
    /\ Dispute
    /\ case' = IF case = "none" THEN "OPEN" ELSE Moved("DRAFT", "OPEN")
    /\ UNCHANGED <<ruling, substitution, spent, reviews>>

-----------------------------------------------------------------------------
(* The card.                                                               *)

SubstitutionCeiling == (Budget * 12) \div 10
HardCap == (Budget * 15) \div 10

\* What /intent holds on the buyer's card, and what every capture takes of it.
HeldBudget == IF substitution THEN SubstitutionCeiling ELSE Budget
CapturedAmount == HeldBudget + Commission

\* EscrowTransaction.spendingLimitCents: the webhook of Checkout and the
\* reconciliation of funding write the budget alone.
SpendingLimits == {HeldBudget, Budget}

\* Mutant: the operational ceiling is gone, the hard cap is left.
CeilingGone(limit) == HardCap
Ceiling(limit) == IF substitution THEN SubstitutionCeiling ELSE limit

Declined(amount) ==
    \/ amount = 0
    \/ mission \in {"DISPUTED", "CANCELLED"}
    \/ escrow.status # "HELD"
    \/ amount > HardCap

\* issuing_authorization.request: the read of the escrow and its mission, the
\* decision on it and the answer.  A declined request changes nothing.
CardApproved ==
    /\ \E amount \in Amounts, limit \in SpendingLimits :
         /\ ~Declined(amount) /\ amount <= Ceiling(limit)
         /\ spent' = IF amount > spent THEN amount ELSE spent
    /\ UNCHANGED <<vars, case, ruling, substitution, reviews>>

-----------------------------------------------------------------------------
(* The reviews.                                                            *)

Review ==
    /\ mission \in {"RELEASED", "CANCELLED"}
    /\ \E author \in Participant \ reviews : reviews' = reviews \cup {author}
    /\ UNCHANGED <<vars, case, ruling, substitution, spent>>

-----------------------------------------------------------------------------

\* The steps of the life cycle that do not touch the case.
LifecycleStep ==
    \/ Match \/ StartTravel \/ Ship \/ Submit \/ DropoffReceipt
    \/ LockCustoms \/ CustomsReceipt \/ CustomsReject
    \/ ArbitrateFraud \/ AutoRefundWatchdog \/ AccountChanges
    \/ \E r \in Request : Check(r) \/ Step(r) \/ Crash(r)
    \/ HandleCapture

DeskNext ==
    \/ LifecycleStep /\ UNCHANGED desk
    \/ DisputeMission
    \/ CreateDispute \/ OpenDispute \/ EscalateDispute
    \/ ReadCase \/ ResolveDispute \/ CloseDispute
    \/ CardApproved
    \/ Review

DeskSpec == DeskInit /\ [][DeskNext]_deskVars

-----------------------------------------------------------------------------
(* Properties.                                                             *)

DeskTypeOK ==
    /\ TypeOK
    /\ case \in CaseStatus \cup {"none"}
    /\ ruling \in {"none", "OPEN", "ESCALATED"}
    /\ substitution \in BOOLEAN
    /\ spent \in Nat
    /\ reviews \subseteq Participant

\* A mission does not stay DISPUTED without its case, or with one that nobody
\* has opened, whatever the buyer did with the case before; nor does a mission
\* that was found a fraud.
DisputedHasCase ==
    mission \in {"DISPUTED", "DISPUTED_FRAUD"} => case \notin {"none", "DRAFT"}

\* A case only moves forward, and is closed only once resolved, though an admin
\* decides on a status read before the buyer escalated or another admin closed.
Rank == [none |-> 0, DRAFT |-> 1, OPEN |-> 2, ESCALATED |-> 3, RESOLVED |-> 4, CLOSED |-> 5]

CaseOnlyAdvances ==
    [][/\ Rank[case'] >= Rank[case]
       /\ case' = "CLOSED" => case \in {"RESOLVED", "CLOSED"}]_deskVars

\* What the shop was promised is in what the capture takes from the buyer once
\* the commission is kept, with or without substitution, and whichever of the
\* three writers of the escrow set the limit of the card.
CardIsCovered == spent + Commission <= CapturedAmount

\* A review tells of a mission that is over, and stays so: no route, worker or
\* webhook that was under way when it was written moves the mission again.
ReviewedIsOver == reviews # {} => mission \in {"RELEASED", "CANCELLED"}

-----------------------------------------------------------------------------
(* What the code or its comments say, and the code does not do.             *)

\* The case is in the hands of an arbitrator while the mission is disputed.
DisputedIsUnresolved == mission = "DISPUTED" => case \in {"OPEN", "ESCALATED"}

\* A request of the card is declined in doubt: none is approved on a hold that
\* is gone.
CardIsBacked == [][spent' # spent => hold.status # "canceled"]_deskVars

\* Nor on a mission frozen by the watchdog or by a finding of fraud.
FrozenCard == [][spent' # spent => mission \notin {"IN_DISPUTE", "DISPUTED_FRAUD"}]_deskVars
=============================================================================
