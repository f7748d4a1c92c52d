------------------------------ MODULE StockBook ------------------------------
(***************************************************************************)
(* What the jobs on the stock promise together: the sales the consumer     *)
(* records, and the corrections, resolutions and adjustments of the HTTP   *)
(* calls.  Each job moves its whole quantity in one instant or leaves the  *)
(* stock alone.  A sale is deducted when all its products are on sale and  *)
(* the stock covers it at that instant, and parked otherwise; the other    *)
(* jobs write whatever the stock has become.                               *)
(***************************************************************************)
EXTENDS Integers

CONSTANTS
    Job, Product,
    Sale,           \* the jobs that are sales
    Net,            \* Net[j][p]: what j adds to the stock of p
    InitialStock

VARIABLES
    stock, outcome,
    active          \* the products on sale

vars == <<stock, outcome, active>>

Outcome == {"open", "committed", "parked", "failed"}

Init ==
    /\ stock = InitialStock
    /\ outcome = [j \in Job |-> "open"]
    /\ active \subseteq Product

Covered(j) ==
    \A p \in Product : Net[j][p] < 0 => p \in active /\ stock[p] + Net[j][p] >= 0

End(j, how) ==
    /\ outcome[j] = "open"
    /\ outcome' = [outcome EXCEPT ![j] = how]
    /\ UNCHANGED active

Move(j) ==
    /\ End(j, "committed")
    /\ j \in Sale => Covered(j)
    /\ stock' = [p \in Product |-> stock[p] + Net[j][p]]

Park(j) == j \in Sale /\ ~Covered(j) /\ End(j, "parked") /\ UNCHANGED stock

Fail(j) == End(j, "failed") /\ UNCHANGED stock

Relist(p) ==
    /\ active' = IF p \in active THEN active \ {p} ELSE active \cup {p}
    /\ UNCHANGED <<stock, outcome>>

Next ==
    \/ \E j \in Job : Move(j) \/ Park(j) \/ Fail(j)
    \/ \E p \in Product : Relist(p)

Spec == Init /\ [][Next]_vars
=============================================================================
