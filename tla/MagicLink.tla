----------------------------- MODULE MagicLink -----------------------------
(***************************************************************************)
(* The codes by which one user signs in without a password: a row holds the  *)
(* last code that was asked for and the failed attempts.  Verifying reads     *)
(* the row, compares, and then writes to the row that is there by then:       *)
(* another code or none, if somebody else verified or asked meanwhile.        *)
(***************************************************************************)
EXTENDS Naturals, Sequences, FiniteSets

CONSTANTS
    Verifier,     \* the verifications that may be under way
    MaxAttempts,  \* MAX_ATTEMPTS: 5 in the code
    MaxCodes      \* bound of the model: how often a code is asked for

ASSUME LinkAssumption ==
    /\ IsFiniteSet(Verifier)
    /\ MaxAttempts \in Nat \ {0} /\ MaxCodes \in Nat

VARIABLES
    link,       \* the row: its code, its attempts, and whether it is too old
    codes,      \* how many codes were asked for; the last is the newest
    verifier,   \* each verification: its step and what it read
    opened,     \* the sessions that were opened: the code of each, in their order
    tried       \* how often each code was compared and found wrong

magic == <<link, codes, verifier, opened, tried>>

Codes == 1..MaxCodes
NoLink == [code |-> 0, attempts |-> 0, old |-> FALSE]
AtRest == [step |-> "idle", code |-> 0, attempts |-> 0]

LinkInit ==
    /\ link = NoLink /\ codes = 0
    /\ verifier = [v \in Verifier |-> AtRest]
    /\ opened = <<>>
    /\ tried = [c \in Codes |-> 0]

\* POST /request-link: the row is written over, its attempts are zero again.
RequestLink ==
    /\ codes < MaxCodes
    /\ codes' = codes + 1
    /\ link' = [code |-> codes + 1, attempts |-> 0, old |-> FALSE]
    /\ UNCHANGED <<verifier, opened, tried>>

GrowsOld ==
    /\ link # NoLink /\ ~link.old
    /\ link' = [link EXCEPT !.old = TRUE]
    /\ UNCHANGED <<codes, verifier, opened, tried>>

\* POST /verify with the right code or a wrong one.  Without a row, with too many
\* attempts or too old, the answer is an error and nothing is written.
Find(v) ==
    /\ verifier[v] = AtRest
    /\ link # NoLink /\ link.attempts < MaxAttempts /\ ~link.old
    /\ \/ /\ verifier' = [verifier EXCEPT ![v] = [step |-> "right", code |-> link.code,
                                                   attempts |-> link.attempts]]
          /\ UNCHANGED tried
       \/ /\ verifier' = [verifier EXCEPT ![v] = [step |-> "wrong", code |-> link.code,
                                                   attempts |-> link.attempts]]
          /\ tried' = [tried EXCEPT ![link.code] = @ + 1]
    /\ UNCHANGED <<link, codes, opened>>

\* Mutant: the new count is made of the one that was read.
CountFromRead(v) ==
    /\ verifier[v].step = "wrong"
    /\ link' = IF link = NoLink THEN link ELSE [link EXCEPT !.attempts = verifier[v].attempts + 1]
    /\ verifier' = [verifier EXCEPT ![v] = AtRest]
    /\ UNCHANGED <<codes, opened, tried>>

\* The database increments the count of the row that is there.
Count(v) ==
    /\ verifier[v].step = "wrong"
    /\ link' = IF link = NoLink THEN link ELSE [link EXCEPT !.attempts = @ + 1]
    /\ verifier' = [verifier EXCEPT ![v] = AtRest]
    /\ UNCHANGED <<codes, opened, tried>>

\* Whoever deletes the row opens a session; the delete of no row is an error.
Consume(v) ==
    /\ verifier[v].step = "right"
    /\ link' = NoLink
    /\ opened' = IF link = NoLink THEN opened ELSE Append(opened, verifier[v].code)
    /\ verifier' = [verifier EXCEPT ![v] = AtRest]
    /\ UNCHANGED <<codes, tried>>

LinkNext ==
    \/ RequestLink \/ GrowsOld
    \/ \E v \in Verifier : Find(v) \/ Count(v) \/ Consume(v)

-----------------------------------------------------------------------------
(* Properties.                                                             *)

LinkTypeOK ==
    /\ codes \in 0..MaxCodes
    /\ link \in [code: 0..codes, attempts: Nat, old: BOOLEAN]
    /\ link.code = 0 <=> link = NoLink
    /\ verifier \in [Verifier -> [step: {"idle", "right", "wrong"}, code: 0..codes,
                                  attempts: Nat]]
    /\ opened \in Seq(Codes)
    /\ tried \in [Codes -> Nat]

\* However verifications of the same code interleave with each other and with new
\* codes, no more sessions are opened than codes were asked for.
SessionsAreAskedFor == Len(opened) <= codes

\* A code is compared at most as often as it may fail, and once more by each of the
\* verifications that had already read the row.
TriesAreBounded == \A c \in Codes : tried[c] < MaxAttempts + Cardinality(Verifier)

-----------------------------------------------------------------------------
(* What the comments say, and the code does not do.                         *)

\* "Consommation unique": a code opens one session.
ConsumedOnce == \A i, j \in DOMAIN opened : opened[i] = opened[j] => i = j
=============================================================================
