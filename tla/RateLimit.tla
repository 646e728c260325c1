------------------------------ MODULE RateLimit ------------------------------
(***************************************************************************)
(* isRateLimited, which guards the routes of sign-in: one row per key counts  *)
(* the requests of a fixed window, for all the instances.  An instance reads  *)
(* its clock, and the statement that counts is run when the database comes to *)
(* it; an hourly pass deletes the rows whose window is over.  One key is      *)
(* followed; times are relative to the present.                               *)
(***************************************************************************)
EXTENDS Integers

CONSTANTS
    Hit,      \* the requests that may be under way
    MaxHits,  \* RATE_LIMIT_MAX
    Window,   \* RATE_LIMIT_WINDOW_MS, in ticks
    MaxLag    \* bound of the model: ticks from reading the clock to the statement

ASSUME RateAssumption ==
    /\ {MaxHits, Window} \subseteq Nat \ {0}
    /\ MaxLag \in 0..Window

VARIABLES
    counter,  \* the row: its count, and the ticks left until expiresAt
    hit,      \* each request: how long ago it read the clock, or Idle
    entered   \* the requests that were counted and let in, the last one first: how
              \* long ago, up to Horizon

rate == <<counter, hit, entered>>

Idle == -1
NoRow == [count |-> 0, left |-> Idle]

\* The least time between the starts of two windows: a request that was late may
\* have opened the former, which is over when its time has passed.
Horizon == Window - MaxLag + 1

\* Two windows' worth of requests are remembered.
Places == 1..(2 * MaxHits)

RateInit ==
    /\ counter = NoRow
    /\ hit = [h \in Hit |-> Idle]
    /\ entered = [k \in Places |-> Horizon]

Arrive(h) ==
    /\ hit[h] = Idle
    /\ hit' = [hit EXCEPT ![h] = 0]
    /\ UNCHANGED <<counter, entered>>

\* The counter after a request that read the clock lag ticks ago.
Counted(lag) ==
    IF counter = NoRow \/ counter.left < -lag
    THEN [count |-> 1, left |-> Window - lag]
    ELSE [counter EXCEPT !.count = IF @ > MaxHits THEN @ ELSE @ + 1]

CountHit(h) ==
    /\ hit[h] # Idle
    /\ counter' = Counted(hit[h])
    /\ entered' = IF counter'.count > MaxHits THEN entered
                  ELSE [k \in Places |-> IF k = 1 THEN 0 ELSE entered[k - 1]]
    /\ hit' = [hit EXCEPT ![h] = Idle]

\* The database does not answer: the request is let in uncounted (fail-open).
CountFails(h) ==
    /\ hit[h] # Idle
    /\ hit' = [hit EXCEPT ![h] = Idle]
    /\ UNCHANGED <<counter, entered>>

PurgeExpired ==
    /\ counter # NoRow /\ counter.left < 0
    /\ counter' = NoRow
    /\ UNCHANGED <<hit, entered>>

Tick ==
    /\ \A h \in Hit : hit[h] < MaxLag
    /\ hit' = [h \in Hit |-> IF hit[h] = Idle THEN Idle ELSE hit[h] + 1]
    /\ counter' = IF counter = NoRow \/ counter.left < -MaxLag THEN counter
                  ELSE [counter EXCEPT !.left = @ - 1]
    /\ entered' = [k \in Places |-> IF entered[k] < Horizon THEN entered[k] + 1 ELSE Horizon]

RateNext == Tick \/ PurgeExpired \/ \E h \in Hit : Arrive(h) \/ CountHit(h) \/ CountFails(h)

-----------------------------------------------------------------------------
(* Properties.                                                             *)

RateTypeOK ==
    /\ counter \in [count: 0..MaxHits + 1, left: Int]
    /\ hit \in [Hit -> {Idle} \cup 0..MaxLag]
    /\ entered \in [Places -> 0..Horizon]

\* Whatever the windows, the purge and the clocks of the instances do, Horizon ticks
\* in a row see fewer counted requests than two windows are worth: the last but so
\* many is older.
RateIsBounded == entered[2 * MaxHits] = Horizon

-----------------------------------------------------------------------------
(* What one could expect and the code does not do.                         *)

\* "Au plus RATE_LIMIT_MAX requêtes par RATE_LIMIT_WINDOW_MS", at any moment.
SlidingBound == entered[MaxHits + 1] = Horizon
=============================================================================
