------------------------- MODULE BuyerCompensation -------------------------
(***************************************************************************)
(* The worker that credits the wallet of a defrauded buyer.  A pass lists    *)
(* the pending rows, then takes them one by one: a transaction marks the row *)
(* settled if it is still pending and credits the wallet; whatever error it  *)
(* ends in, a second write, of no condition, counts the failure.  A process  *)
(* runs one pass at a time; several processes may run.                       *)
(***************************************************************************)
EXTENDS Naturals

CONSTANTS
    Row,       \* the rows of the outbox
    Instance,  \* the processes that run the worker
    Faults     \* see CompensationAssumption

\* lost_answer: a transaction may commit and its answer be lost.
ASSUME CompensationAssumption == Faults \subseteq {"lost_answer"} /\ "none" \notin Row

VARIABLES
    compensation,  \* BuyerCompensationOutbox: [status, attempts]
    credits,       \* how often the wallet was credited for each row
    pass           \* the rows each process has still to do, the attempts it has seen
                   \* of them when it listed them, and the row it has failed on

compVars == <<compensation, credits, pass>>

MaxCompAttempts == 4

None == "none"

NoPass == [todo |-> {}, seen |-> [r \in Row |-> 0], failed |-> None]

CompInit ==
    /\ compensation = [r \in Row |-> [status |-> "PENDING", attempts |-> 0]]
    /\ credits = [r \in Row |-> 0]
    /\ pass = [i \in Instance |-> NoPass]

Pending == {r \in Row : compensation[r].status = "PENDING"}

\* The list is read once: its rows may change before their turn comes.
List(i) ==
    /\ pass[i] = NoPass
    /\ Pending # {}
    /\ pass' = [pass EXCEPT ![i] =
         [todo |-> Pending, failed |-> None,
          seen |-> [r \in Row |-> IF r \in Pending THEN compensation[r].attempts ELSE 0]]]
    /\ UNCHANGED <<compensation, credits>>

\* The pass goes on to the next row of its list.
Leave(i, r) ==
    pass' = [pass EXCEPT ![i] =
               [todo |-> @.todo \ {r}, failed |-> None, seen |-> [@.seen EXCEPT ![r] = 0]]]

FailOn(i, r) == pass' = [pass EXCEPT ![i].failed = r]

\* Mutant: the wallet is credited in a transaction of its own, after the claim.
CreditLater(i, r) ==
    /\ r \in pass[i].todo /\ pass[i].failed = None
    /\ compensation[r].status = "PENDING"
    /\ compensation' = [compensation EXCEPT
                           ![r] = [status |-> "SETTLED", attempts |-> pass[i].seen[r] + 1]]
    /\ \/ credits' = [credits EXCEPT ![r] = @ + 1] /\ Leave(i, r)
       \/ FailOn(i, r) /\ UNCHANGED credits

\* The transaction commits, and its answer arrives or is lost; a row that is no
\* longer pending is left alone; or the transaction is rolled back.
Process(i, r) ==
    /\ r \in pass[i].todo /\ pass[i].failed = None
    /\ \/ /\ compensation[r].status = "PENDING"
          /\ compensation' = [compensation EXCEPT
                                 ![r] = [status |-> "SETTLED", attempts |-> pass[i].seen[r] + 1]]
          /\ credits' = [credits EXCEPT ![r] = @ + 1]
          /\ \/ Leave(i, r)
             \/ "lost_answer" \in Faults /\ FailOn(i, r)
       \/ /\ compensation[r].status # "PENDING"
          /\ Leave(i, r)
          /\ UNCHANGED <<compensation, credits>>
       \/ /\ FailOn(i, r)
          /\ UNCHANGED <<compensation, credits>>

\* Mutant: the failure is not counted.
VerdictUncounted(attempts) ==
    [status |-> IF attempts >= MaxCompAttempts THEN "FAILED" ELSE "PENDING", attempts |-> attempts - 1]

Verdict(attempts) ==
    [status |-> IF attempts >= MaxCompAttempts THEN "FAILED" ELSE "PENDING", attempts |-> attempts]

\* The catch writes over whatever the row has become.
Catch(i) ==
    /\ pass[i].failed # None
    /\ LET r == pass[i].failed
       IN  /\ compensation' = [compensation EXCEPT ![r] = Verdict(pass[i].seen[r] + 1)]
           /\ Leave(i, r)
    /\ UNCHANGED credits

\* The process dies, or the write of the catch fails and ends the pass.
CompCrash(i) ==
    /\ pass[i] # NoPass
    /\ pass' = [pass EXCEPT ![i] = NoPass]
    /\ UNCHANGED <<compensation, credits>>

CompNext ==
    \E i \in Instance :
      List(i) \/ Catch(i) \/ CompCrash(i) \/ \E r \in Row : Process(i, r)

CompSpec == CompInit /\ [][CompNext]_compVars

\* A pass is started every minute, and not every one dies before it has taken a
\* given row to its end.
CompFairSpec ==
    /\ CompSpec
    /\ \A i \in Instance :
         /\ WF_compVars(List(i))
         /\ \A r \in Row : SF_compVars(Process(i, r)) /\ SF_compVars(pass[i].failed = r /\ Catch(i))

-----------------------------------------------------------------------------
(* Properties.                                                             *)

CompTypeOK ==
    /\ compensation \in
         [Row -> [status: {"PENDING", "SETTLED", "FAILED"}, attempts: 0..MaxCompAttempts]]
    /\ credits \in [Row -> Nat]
    /\ pass \in [Instance -> [todo: SUBSET Row, seen: [Row -> 0..MaxCompAttempts - 1],
                               failed: Row \cup {None}]]

\* One process, no lost answer: the wallet is credited once for a settled row,
\* and never for one that is pending or was handed to a human.
CreditedIffSettled ==
    \A r \in Row : credits[r] = IF compensation[r].status = "SETTLED" THEN 1 ELSE 0

\* A row is given up when it has failed four times, and not one time earlier.
GivenUpAfterMax ==
    \A r \in Row :
      compensation[r].status # "SETTLED"
        => (compensation[r].status = "FAILED" <=> compensation[r].attempts = MaxCompAttempts)

\* Whatever processes and faults: a row called settled has been credited.
SettledIsCredited == \A r \in Row : compensation[r].status = "SETTLED" => credits[r] >= 1

\* Every compensation is credited or handed to a human.
EventuallyCompensated == \A r \in Row : <>[](compensation[r].status # "PENDING")

-----------------------------------------------------------------------------
(* What the code, its comments or the schema say, and the code does not do. *)

\* What the worker says of its claim: no row is ever credited twice.
CreditedOnce == \A r \in Row : credits[r] <= 1
=============================================================================
