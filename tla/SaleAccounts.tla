---------------------------- MODULE SaleAccounts ----------------------------
(***************************************************************************)
(* What becomes of a sale, as the owner's books have it.  A sale that the  *)
(* stock covered is sold, one that it did not is disputed; a disputed sale *)
(* is accepted or voided; a sold one is corrected, which voids it, gives   *)
(* its goods back and opens its successor in the same instant, or written  *)
(* off, which leaves the goods with the customer.  Voided and written off  *)
(* are final.  The stock follows: it is what the sales that are sold or    *)
(* written off, and the adjustments, leave of it.                          *)
(***************************************************************************)
EXTENDS Integers, Sequences

CONSTANTS Product, Basket, Change, InitialStock

VARIABLES accounts, stock

vars == <<accounts, stock>>

State == {"disputed", "sold", "voided", "written off"}

Nothing == [p \in Product |-> 0]
Less(f, g) == [p \in Product |-> f[p] - g[p]]
Opened(items, state, old) == [items |-> items, state |-> state, replaces |-> old]

Init == accounts = <<>> /\ stock = InitialStock

Sell(items) ==
    /\ \A p \in Product : items[p] <= stock[p]
    /\ accounts' = Append(accounts, Opened(items, "sold", 0))
    /\ stock' = Less(stock, items)

Dispute(items) ==
    /\ accounts' = Append(accounts, Opened(items, "disputed", 0))
    /\ UNCHANGED stock

Settle(i, from, to) ==
    /\ accounts[i].state = from
    /\ accounts' = [accounts EXCEPT ![i].state = to]

Accept(i) == Settle(i, "disputed", "sold") /\ stock' = Less(stock, accounts[i].items)

Void(i) == Settle(i, "disputed", "voided") /\ UNCHANGED stock

\* A correction may leave a sale without goods: nothing is with the customer.
WriteOff(i) ==
    /\ Settle(i, "sold",
              IF accounts[i].items = Nothing THEN "voided" ELSE "written off")
    /\ UNCHANGED stock

Correct(i, items) ==
    /\ accounts[i].state = "sold"
    /\ accounts' = Append([accounts EXCEPT ![i].state = "voided"],
                          Opened(items, "sold", i))
    /\ stock' = Less(stock, Less(items, accounts[i].items))

\* By hand, without a promise that the stock covers it.
Adjust(p, n) ==
    /\ stock' = [stock EXCEPT ![p] = @ + n]
    /\ UNCHANGED accounts

Next ==
    \/ \E items \in Basket : Sell(items) \/ Dispute(items)
    \/ \E i \in DOMAIN accounts : Accept(i) \/ Void(i) \/ WriteOff(i)
    \/ \E i \in DOMAIN accounts, items \in Basket : Correct(i, items)
    \/ \E p \in Product, n \in Change : Adjust(p, n)

Spec == Init /\ [][Next]_vars
=============================================================================
