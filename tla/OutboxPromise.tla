---------------------------- MODULE OutboxPromise ----------------------------
(***************************************************************************)
(* What the outboxes that move money promise of each of their rows, whatever *)
(* the claims, retries and crashes of their workers: the call it asks for    *)
(* takes effect at Stripe at most once, a row is called settled only after    *)
(* that, and the end of a row is final, for Stripe too: no call takes effect  *)
(* after a row was given up.  Where a worker taken for dead may be slow, the  *)
(* end alone is not final.                                                    *)
(***************************************************************************)
EXTENDS Naturals

CONSTANTS
    Item,   \* the rows
    Slow    \* whether a slow worker may go on with a row that others have ended

VARIABLES
    effects,  \* how often the call of each row has taken effect
    verdict   \* of each row: "open", "settled" or "given_up"

promise == <<effects, verdict>>

Init ==
    /\ effects = [i \in Item |-> 0]
    /\ verdict = [i \in Item |-> "open"]

InHand(i) == verdict[i] = "open" \/ Slow

TakeEffect(i) ==
    /\ InHand(i) /\ effects[i] = 0
    /\ effects' = [effects EXCEPT ![i] = 1]
    /\ UNCHANGED verdict

Settle(i) ==
    /\ InHand(i) /\ effects[i] = 1
    /\ verdict' = [verdict EXCEPT ![i] = "settled"]
    /\ UNCHANGED effects

\* Rows that were tried too often are given up together.
GiveUp(items) ==
    /\ \A i \in items : InHand(i)
    /\ verdict' = [i \in Item |-> IF i \in items THEN "given_up" ELSE verdict[i]]
    /\ UNCHANGED effects

Reopen(i) ==
    /\ Slow
    /\ verdict' = [verdict EXCEPT ![i] = "open"]
    /\ UNCHANGED effects

Next ==
    \/ \E i \in Item : TakeEffect(i) \/ Settle(i) \/ Reopen(i)
    \/ \E items \in SUBSET Item : GiveUp(items)

Spec == Init /\ [][Next]_promise
=============================================================================
