----------------------------- MODULE SaleLedger -----------------------------
(***************************************************************************)
(* What synchronization promises: a ledger of sales and the stock, as if   *)
(* sales arrived one at a time.  An offline_uuid is recorded once.  A sale *)
(* that the stock covers is CONFIRMED and deducted in the same instant; a  *)
(* sale it does not cover is kept PENDING and deducts nothing; any other   *)
(* outcome leaves no mark on the ledger or on the stock.                   *)
(***************************************************************************)
EXTENDS Integers, Sequences, FiniteSets, Sums

CONSTANTS Sale, UuidOf, LinesOf, Product, Catalog, InitialStock

VARIABLES ledger, stock, active

vars == <<ledger, stock, active>>

Quantity(s, p) ==
    Total([k \in DOMAIN LinesOf[s] |->
              IF LinesOf[s][k].product = p THEN LinesOf[s][k].quantity ELSE 0])

Ordered(s) == {LinesOf[s][k].product : k \in DOMAIN LinesOf[s]}

Covered(s) == \A p \in Ordered(s) : p \in active /\ stock[p] >= Quantity(s, p)

Fresh(s) == \A i \in DOMAIN ledger : UuidOf[ledger[i].sale] # UuidOf[s]

Init ==
    /\ ledger = <<>>
    /\ stock = InitialStock
    /\ active \in SUBSET Catalog

Confirm(s) ==
    /\ Fresh(s) /\ Covered(s)
    /\ ledger' = Append(ledger, [sale |-> s, status |-> "CONFIRMED"])
    /\ stock' = [p \in Product |-> stock[p] - Quantity(s, p)]
    /\ UNCHANGED active

\* The sale is not covered at the moment it is recorded, not just when looked at.
Park(s) ==
    /\ Fresh(s) /\ ~Covered(s)
    /\ ledger' = Append(ledger, [sale |-> s, status |-> "PENDING"])
    /\ UNCHANGED <<stock, active>>

\* A product is withdrawn from sale or put back.
Relist(p) ==
    /\ active' \in {active \ {p}, active \cup {p}}
    /\ UNCHANGED <<ledger, stock>>

Next ==
    \/ \E s \in Sale : Confirm(s) \/ Park(s)
    \/ \E p \in Catalog : Relist(p)

Spec == Init /\ [][Next]_vars
=============================================================================
