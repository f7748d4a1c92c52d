----------------------------- MODULE StockLocks -----------------------------
(***************************************************************************)
(* The consumer and the HTTP calls meet in the rows of Inventory and       *)
(* Product.  Each of them is a database transaction that runs one          *)
(* statement after the other, at READ COMMITTED:                           *)
(*                                                                         *)
(*   sale        FOR UPDATE on both rows of each line, the detail rows,    *)
(*               then the deductions, unless a line was in conflict        *)
(*   correction  the old lines are given back, then the detail rows of the *)
(*               new sale and its deductions; nothing is locked before     *)
(*   resolve     the deductions of a sale in conflict                      *)
(*   adjust      one increment, after a check on what it read before       *)
(*                                                                         *)
(* A deduction or increment is an UPDATE of the Inventory row followed by  *)
(* a StockHistory row, whose foreign key takes FOR KEY SHARE on the        *)
(* Product row, as a detail row's does.  SELECT ... FOR UPDATE locks the   *)
(* row of "Inventory" i, then the row of "Product" p: the order of FROM.   *)
(***************************************************************************)
EXTENDS Integers, Sequences, FiniteSets, Sums

CONSTANTS
    Job,            \* database transactions
    Kind,           \* what each one is
    Old, New,       \* the lines it gives back and the lines it takes
    Product, InitialStock,
    None

Kinds == {"sale", "correction", "resolve", "adjust"}

Line == [product : Product, quantity : Int]

\* A sale has at least one piece of each of its products (SyncItemDto).  The
\* items of a correction may be none, so its old lines may be none as well.
ASSUME JobsAssumption ==
    /\ Kind \in [Job -> Kinds]
    /\ Old \in [Job -> Seq(Line)] /\ New \in [Job -> Seq(Line)]
    /\ \A j \in Job :
          /\ Kind[j] \in {"sale", "resolve"} => Old[j] = <<>>
          /\ Kind[j] = "adjust" => Len(Old[j]) = 1 /\ New[j] = <<>>
          /\ Kind[j] = "sale" => \A k \in DOMAIN New[j] : New[j][k].quantity > 0
    /\ InitialStock \in [Product -> Int]
    /\ None \notin Job

VARIABLES
    step,       \* the statement a job is at; 0 before it begins
    conflict,   \* hasConflict of a sale
    inventory,  \* who has locked the Inventory row of p
    product,    \* who has locked the Product row of p FOR UPDATE
    shared,     \* who has locked it FOR KEY SHARE
    delta,      \* the uncommitted changes of a job
    stock,      \* committed Inventory.current_stock
    catalog,    \* committed Product.is_active, "none" of an id without rows
    outcome     \* how a job has ended

lockVars == <<inventory, product, shared, delta>>
vars == <<step, conflict, lockVars, stock, catalog, outcome>>

Known(p) == catalog[p] # "none"

-----------------------------------------------------------------------------
(* The statements of each job. *)

Statement(op, l, n) == [op |-> op, product |-> l.product, quantity |-> n]

\* SELECT ... FOR UPDATE of one line
ProductFirst(l) == <<Statement("read", l, l.quantity), Statement("lock", l, 0)>>
CheckLine(l) == <<Statement("lock", l, 0), Statement("read", l, l.quantity)>>

\* adjustInventoryAndHistory
AddLine(l, sign) ==
    <<Statement("update", l, sign * l.quantity), Statement("share", l, 0)>>

\* The pairs of a sequence of pairs, one after the other.
Flat(pairs) ==
    [i \in 1 .. 2 * Len(pairs) |-> pairs[(i + 1) \div 2][IF i % 2 = 1 THEN 1 ELSE 2]]

Check(lines) == Flat([k \in 1 .. Len(lines) |-> CheckLine(lines[k])])
Details(lines) == [k \in 1 .. Len(lines) |-> Statement("share", lines[k], 0)]
Add(lines, sign) == Flat([k \in 1 .. Len(lines) |-> AddLine(lines[k], sign)])

Script == [j \in Job |->
    CASE Kind[j] = "sale" -> Check(New[j]) \o Details(New[j]) \o Add(New[j], -1)
      [] Kind[j] = "correction" ->
            Add(Old[j], 1) \o Details(New[j]) \o Add(New[j], -1)
      [] Kind[j] = "resolve" -> Add(New[j], -1)
      [] Kind[j] = "adjust" -> Add(Old[j], 1)]

\* Where the detail rows of a sale begin, and where a job commits.
DetailsOf(j) == 2 * Len(New[j]) + 1
LastStep(j) == IF conflict[j] THEN 3 * Len(New[j]) ELSE Len(Script[j])

-----------------------------------------------------------------------------
(* The row locks. *)

Open(j) == outcome[j] = "open" /\ step[j] > 0
Running(j) == Open(j) /\ step[j] <= LastStep(j)
Current(j) == Script[j][step[j]]
Is(j, op) == Running(j) /\ Current(j).op = op

Blockers(j) ==
    IF ~Running(j) THEN {} ELSE
    LET p == Current(j).product IN
    CASE Current(j).op \in {"lock", "update"} -> {inventory[p]} \ {j, None}
      [] Current(j).op = "read" -> ({product[p]} \cup shared[p]) \ {j, None}
      [] Current(j).op = "share" -> {product[p]} \ {j, None}

\* PostgreSQL aborts a transaction that waits in a cycle.
NeverDetected(j) == FALSE
InDeadlock(j) ==
    \E W \in SUBSET Job :
        /\ j \in W
        /\ \A x \in W : /\ \E y \in W : y \in Blockers(x)
                        /\ \E y \in W : x \in Blockers(y)

Release(j) ==
    /\ inventory' = [p \in Product |-> IF inventory[p] = j THEN None ELSE inventory[p]]
    /\ product' = [p \in Product |-> IF product[p] = j THEN None ELSE product[p]]
    /\ shared' = [p \in Product |-> shared[p] \ {j}]
    /\ delta' = [delta EXCEPT ![j] = [p \in Product |-> 0]]

End(j, how) ==
    /\ outcome' = [outcome EXCEPT ![j] = how]
    /\ step' = [step EXCEPT ![j] = 0]
    /\ conflict' = [conflict EXCEPT ![j] = FALSE]
    /\ Release(j)

Init ==
    /\ step = [j \in Job |-> 0]
    /\ conflict = [j \in Job |-> FALSE]
    /\ inventory = [p \in Product |-> None]
    /\ product = [p \in Product |-> None]
    /\ shared = [p \in Product |-> {}]
    /\ delta = [j \in Job |-> [p \in Product |-> 0]]
    /\ stock = InitialStock
    /\ catalog \in [Product -> {"active", "inactive", "none"}]
    /\ outcome = [j \in Job |-> "open"]

-----------------------------------------------------------------------------
\* The products an HTTP call finds in the sale, or as the product, it is about.
Mentioned(j) ==
    {Old[j][k].product : k \in DOMAIN Old[j]}
    \cup IF Kind[j] = "resolve" THEN {New[j][k].product : k \in DOMAIN New[j]} ELSE {}
Exists(j) == \A p \in Mentioned(j) : Known(p)

\* What an HTTP call reads before its transaction: it answers 404 when there is
\* no such sale or product, and adjustStock refuses what the stock it reads does
\* not cover.
Begin(j) ==
    /\ outcome[j] = "open" /\ step[j] = 0
    /\ Exists(j)
    /\ step' = [step EXCEPT ![j] = 1]
    /\ UNCHANGED <<conflict, lockVars, stock, catalog, outcome>>

Refuse(j) ==
    /\ outcome[j] = "open" /\ step[j] = 0
    /\ \/ ~Exists(j)
       \/ Kind[j] = "adjust" /\ stock[Old[j][1].product] + Old[j][1].quantity < 0
    /\ outcome' = [outcome EXCEPT ![j] = "failed"]
    /\ UNCHANGED <<step, conflict, lockVars, stock, catalog>>

Continue(j) == step' = [step EXCEPT ![j] = @ + 1]

Conflict(j) ==
    /\ conflict' = [conflict EXCEPT ![j] = TRUE]
    /\ step' = [step EXCEPT ![j] = DetailsOf(j)]

LockInventory(j) ==
    LET p == Current(j).product IN
    /\ Is(j, "lock")
    /\ Known(p)
    /\ Blockers(j) = {}
    /\ inventory' = [inventory EXCEPT ![p] = j]
    /\ Continue(j)
    /\ UNCHANGED <<conflict, product, shared, delta, stock, catalog, outcome>>

\* The SELECT returns no row and locks none.
FindNoRow(j) ==
    /\ Is(j, "lock")
    /\ ~Known(Current(j).product)
    /\ Conflict(j)
    /\ UNCHANGED <<lockVars, stock, catalog, outcome>>

\* The second row of FOR UPDATE, then is_active and this line alone against the
\* stock.
Covered(j) ==
    /\ catalog[Current(j).product] = "active"
    /\ stock[Current(j).product] >= Current(j).quantity
Compare(j) ==
    IF Covered(j) THEN Continue(j) /\ UNCHANGED conflict ELSE Conflict(j)

ReadUnlocked(j) ==
    LET p == Current(j).product IN
    /\ Is(j, "read")
    /\ Compare(j)
    /\ inventory' = [inventory EXCEPT ![p] = None]
    /\ UNCHANGED <<product, shared, delta, stock, catalog, outcome>>
CheckStock(j) ==
    LET p == Current(j).product IN
    /\ Is(j, "read")
    /\ Blockers(j) = {}
    /\ product' = [product EXCEPT ![p] = j]
    /\ Compare(j)
    /\ UNCHANGED <<inventory, shared, delta, stock, catalog, outcome>>

\* A detail row or a StockHistory row.
InsertReference(j) ==
    LET p == Current(j).product IN
    /\ Is(j, "share")
    /\ Known(p)
    /\ Blockers(j) = {}
    /\ shared' = [shared EXCEPT ![p] = @ \cup {j}]
    /\ Continue(j)
    /\ UNCHANGED <<conflict, inventory, product, delta, stock, catalog, outcome>>

\* The foreign key refuses a row of a product that does not exist.
RejectReference(j) ==
    /\ Is(j, "share")
    /\ ~Known(Current(j).product)
    /\ End(j, "failed")
    /\ UNCHANGED <<stock, catalog>>

UpdateInventory(j) ==
    /\ Is(j, "update")
    /\ Blockers(j) = {}
    /\ inventory' = [inventory EXCEPT ![Current(j).product] = j]
    /\ delta' = [delta EXCEPT ![j][Current(j).product] = @ + Current(j).quantity]
    /\ Continue(j)
    /\ UNCHANGED <<conflict, product, shared, stock, catalog, outcome>>

Commit(j) ==
    /\ Open(j) /\ ~Running(j)
    /\ stock' = [p \in Product |-> stock[p] + delta[j][p]]
    /\ End(j, IF conflict[j] THEN "parked" ELSE "committed")
    /\ UNCHANGED catalog

\* A sale is then recorded SYNC_FAILED, an HTTP call answers an error.
DeadlockVictim(j) ==
    /\ InDeadlock(j)
    /\ End(j, "failed")
    /\ UNCHANGED <<stock, catalog>>

\* Five seconds have passed, or the process has died.  RabbitMQ will deliver the
\* sale again, as another job.
TransactionTimeout(j) ==
    /\ Open(j)
    /\ End(j, "failed")
    /\ UNCHANGED <<stock, catalog>>

\* ProductsService.remove and update write is_active, which waits for FOR UPDATE
\* on the row but not for FOR KEY SHARE.
SetActive(p) ==
    /\ Known(p)
    /\ product[p] = None
    /\ catalog' = [catalog EXCEPT ![p] = IF @ = "active" THEN "inactive" ELSE "active"]
    /\ UNCHANGED <<step, conflict, lockVars, stock, outcome>>

Step(j) ==
    \/ Begin(j) \/ Refuse(j)
    \/ LockInventory(j) \/ FindNoRow(j) \/ CheckStock(j)
    \/ InsertReference(j) \/ RejectReference(j) \/ UpdateInventory(j)
    \/ Commit(j) \/ DeadlockVictim(j)

Terminating == (\A j \in Job : outcome[j] # "open") /\ UNCHANGED vars

Next ==
    \/ \E j \in Job : Step(j) \/ TransactionTimeout(j)
    \/ \E p \in Product : SetActive(p)
    \/ Terminating

\* Node and PostgreSQL go on with whatever is ready; nothing has to time out.
Spec == Init /\ [][Next]_vars /\ \A j \in Job : WF_vars(Step(j))

-----------------------------------------------------------------------------
(* Properties. *)

Asked(lines, p) ==
    [k \in DOMAIN lines |-> IF lines[k].product = p THEN lines[k].quantity ELSE 0]
Quantity(lines, p) == Total(Asked(lines, p))

NetOf == [j \in Job |-> [p \in Product |->
            Quantity(Old[j], p) - Quantity(New[j], p)]]

Book == INSTANCE StockBook WITH
    Sale <- {j \in Job : Kind[j] = "sale"}, Net <- NetOf,
    active <- {p \in Product : catalog[p] = "active"}

\* Whatever statements of the others come in between, a job counts as a whole
\* and at its commit: a sale is deducted only if its products are on sale and the
\* stock covers it then, HTTP calls that lock nothing in advance notwithstanding,
\* and parked only if one of its products is off sale or short then.
ImplementsStockBook == Book!Spec

\* What the clients send when they merge the lines of one product.
DistinctLines ==
    \A j \in Job : Kind[j] = "sale" => \A i, k \in DOMAIN New[j] :
        New[j][i].product = New[j][k].product => i = k

\* A job of one UPDATE and its StockHistory row, an adjustment above all, is
\* never the victim of a deadlock: who holds a Product row FOR UPDATE holds its
\* Inventory row too.  A correction that only adds a line is not such a job:
\* its detail row comes before the UPDATE.
SingleLineNeverFails ==
    \A j \in Job : Len(Script[j]) = 2 => ~InDeadlock(j)

\* Every job ends: sales and corrections do lock the rows in opposite orders,
\* even those of a single product, and the deadlock is broken.
EveryJobEnds == <>(\A j \in Job : outcome[j] # "open")
=============================================================================
