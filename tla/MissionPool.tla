---------------------------- MODULE MissionPool ----------------------------
(***************************************************************************)
(* A mission from its publication until it is taken: the travelers are told *)
(* of it beside the request that created it, it is listed once it is        *)
(* funded, and it expires when nobody funded it in time.  All of this runs  *)
(* against the funding of the mission, of which every step is a step here.  *)
(***************************************************************************)
EXTENDS Funding

CONSTANT MaxRetries   \* of the alias mission-created: 3 in the code

ASSUME PoolAssumption == MaxRetries \in Nat

VARIABLES
    notice,   \* the notification of the mission: its step and its attempt
    told,     \* were the travelers told: "no", "yes", or "late" while a call that
              \* timed out is still under way
    past,     \* expiresAt is past
    sweep     \* the pass over the missions that nobody funded

pool == <<notice, told, past, sweep>>
poolVars == <<vars, pool>>

Attempts == MaxRetries + 1

\* POST / writes a mission that is CREATED, whose date is to come.
PoolInit ==
    /\ Init
    /\ notice = [step |-> "due", attempt |-> 0]
    /\ told = "no"
    /\ past = FALSE
    /\ sweep = "idle"

-----------------------------------------------------------------------------
(* The notification: nothing waits for it, nothing starts it again.        *)

\* The row of ProcessedMissionEvent comes first; if it cannot be written the
\* travelers are not told.
Trigger ==
    /\ notice.step = "due"
    /\ \/ notice' = [step |-> "trying", attempt |-> 1]
       \/ notice' = [step |-> "over", attempt |-> 0]
    /\ UNCHANGED <<vars, told, past, sweep>>

NextAttempt ==
    notice' = IF notice.attempt < Attempts
              THEN [notice EXCEPT !.attempt = @ + 1]
              ELSE [notice EXCEPT !.step = "exhausted"]

\* One attempt of the watchdog: it succeeds, it fails, or its time is over and
\* the call goes on by itself.
Attempt ==
    /\ notice.step = "trying"
    /\ \/ told' = "yes" /\ notice' = [notice EXCEPT !.step = "over"]
       \/ told' \in {told, IF told = "yes" THEN "yes" ELSE "late"} /\ NextAttempt
    /\ UNCHANGED <<vars, past, sweep>>

LateCallEnds ==
    /\ told = "late"
    /\ told' \in {"no", "yes"}
    /\ UNCHANGED <<vars, notice, past, sweep>>

\* Only a mission that is still CREATED is marked.
MarkFailed ==
    /\ notice.step = "exhausted"
    /\ mission' = IF mission = "CREATED" THEN "NOTIFICATION_FAILED" ELSE mission
    /\ notice' = [notice EXCEPT !.step = "over"]
    /\ UNCHANGED <<escrow, pi, secret, declined, request, pass, orphan>>
    /\ UNCHANGED <<told, past, sweep>>

\* The process dies, and the calls under way with it.
NoticeLost ==
    /\ notice.step # "over"
    /\ notice' = [notice EXCEPT !.step = "over"]
    /\ told' = IF told = "late" THEN "no" ELSE told
    /\ UNCHANGED <<vars, past, sweep>>

Notification == Trigger \/ Attempt \/ MarkFailed

-----------------------------------------------------------------------------
(* The end of its time, and the catalogue.                                 *)

TimePasses ==
    /\ ~past
    /\ past' = TRUE
    /\ UNCHANGED <<vars, notice, told, sweep>>

Find ==
    /\ sweep = "idle"
    /\ mission = "CREATED" /\ past
    /\ sweep' = "found"
    /\ UNCHANGED <<vars, notice, told, past>>

\* A mission that was funded since the pass has read it is left alone.
Expire ==
    /\ sweep = "found"
    /\ mission' = IF mission = "CREATED" THEN "EXPIRED" ELSE mission
    /\ sweep' = "idle"
    /\ UNCHANGED <<escrow, pi, secret, declined, request, pass, orphan>>
    /\ UNCHANGED <<notice, told, past>>

Sweep == Find \/ Expire

\* What the catalogue shows to another user than the buyer.
Listed == mission = "FUNDED"

\* A traveler takes what the catalogue shows.
Take == Listed /\ Match /\ UNCHANGED pool

-----------------------------------------------------------------------------

PoolNext ==
    \/ Money /\ UNCHANGED pool
    \/ Notification \/ LateCallEnds \/ NoticeLost
    \/ TimePasses \/ Sweep
    \/ Take

PoolSpec == PoolInit /\ [][PoolNext]_poolVars

\* A request ends or dies; the passes come every quarter of an hour and every
\* hour, and not every one of them dies half way.
PoolFairSpec ==
    /\ PoolSpec
    /\ \A r \in Request : WF_poolVars(Step(r) /\ UNCHANGED pool)
    /\ WF_poolVars((Retrieve \/ Rollback \/ CancelIntent) /\ UNCHANGED pool)
    /\ WF_poolVars((Search \/ Recover) /\ UNCHANGED pool)
    /\ WF_poolVars(Sweep)

-----------------------------------------------------------------------------
(* Properties.                                                             *)

PoolTypeOK ==
    /\ TypeOK
    /\ notice \in [step: {"due", "trying", "exhausted", "over"}, attempt: 0..Attempts]
    /\ told \in {"no", "late", "yes"}
    /\ past \in BOOLEAN
    /\ sweep \in {"idle", "found"}

\* A mission that expired, or of which nobody could be told, is not given back
\* to the funding by a request or a pass that had begun before: only the
\* failed payment of a hold it was left with closes it otherwise.
Closed == mission \in {"EXPIRED", "NOTIFICATION_FAILED", "CANCELLED"}

ClosedForGood == [][Closed => mission' = mission \/ mission' = "CANCELLED"]_poolVars

\* A mission that was taken stays with its traveler: neither the sweep nor a
\* notification that fails late closes it, nor does a request give it back.
TakenIsKept == [][mission = "MATCHED" => mission' = "MATCHED" \/ mission' = "CANCELLED"]_poolVars

\* The ghosts leave: a mission is not open to funding for ever once its time is
\* over.
GhostLeaves == (mission = "CREATED" /\ past) ~> mission # "CREATED"

-----------------------------------------------------------------------------
(* What the code or its comments say, and the code does not do.             *)

\* What the sweep says of CREATED: no escrow was written and no money is at stake.
GhostIsMoneyless ==
    mission = "EXPIRED" => escrow.status # "HELD" /\ ~Authorized

\* What NOTIFICATION_FAILED says: the travelers were not told.
FailedIsUntold == mission = "NOTIFICATION_FAILED" => told # "yes"

\* A notification that failed is marked, and one that was lost is not: so the
\* missions of which nobody was told can be found.
UntoldIsMarked ==
    notice.step = "over" /\ notice.attempt = Attempts /\ told = "no" => mission # "CREATED"
=============================================================================
