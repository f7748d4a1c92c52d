------------------------ MODULE TransactionLifecycle ------------------------
(***************************************************************************)
(* What becomes of a recorded sale: TransactionsService, the cases of      *)
(* ReconciliationsService and PaymentsService, ProductsService.adjustStock.*)
(* Every one of these calls reads what it needs, decides on that snapshot, *)
(* and then writes without looking again: by an update of one row or by an *)
(* interactive transaction that only writes.  So a call is two actions,    *)
(* Begin... for the read and its guard, then the call itself for the       *)
(* writes, which row locks make atomic; `inflight' holds what the call     *)
(* remembers in between.  Calls overlap, and nothing in the code stops one *)
(* from writing a sale that another has written since it was read: `raced' *)
(* holds the sales this has happened to.  The consumer is one atomic step  *)
(* here (SyncWorker shows why that is sound) and overlaps with everything. *)
(***************************************************************************)
EXTENDS Integers, Sequences, FiniteSets, Functions, Sums

CONSTANTS
    Request,        \* HTTP requests the server works on at the same time
    Api,            \* the calls clients make
    Product,
    Basket,         \* what a sale or a correction may contain
    InitialStock,
    Change,         \* quantities a client asks adjustStock for
    MaxRecords,     \* bound on Transaction and Reconciliation rows together
    MaxAdjusted,    \* bound on what the adjustments of a product add up to
    None

Calls == {"voidTransaction", "resolveConflict", "correctTransaction",
          "create", "reconcile", "resolve", "adjustStock"}

ASSUME ApiAssumption ==
    /\ Api \subseteq Calls
    /\ Basket \subseteq [Product -> Nat]
    /\ InitialStock \in [Product -> Nat]
    /\ Change \subseteq Int
    /\ MaxRecords \in Nat /\ MaxAdjusted \in Nat

VARIABLES
    transactions,   \* Transaction rows; moved: the sum of their StockHistory
    corrections,    \* TransactionCorrection rows
    cases,          \* Reconciliation rows, of the payment of row `row'
    stock,          \* Inventory.current_stock
    adjusted,       \* the sum of the ADJUSTMENT StockHistory rows
    inflight,       \* what each request has read and decided
    stale,          \* requests whose sale was written since they read it
    raced           \* sales that a stale request has written

tables == <<transactions, corrections, cases, stock, adjusted>>
vars == <<tables, inflight, stale, raced>>

Status == {"PENDING", "CONFIRMED", "VOIDED"}
Payment == {"VERIFIED", "FAILED"}
Quantities == [Product -> Int]

Row == [status : Status, sync : {"SYNCED", "SYNC_CONFLICT"},
        items : [Product -> Nat], moved : Quantities, payment : Payment]

Case == [row : Nat, status : {"OPEN", "RESOLVED_VALID", "RESOLVED_INVALID"}]

\* A call between its read and its writes.
Call == [call : {"void", "force", "cancel", "open"}, row : Nat]
   \cup [call : {"correct"}, row : Nat, items : [Product -> Nat], payment : Payment]
   \cup [call : {"valid"}, case : Nat]
   \cup [call : {"invalid"}, case : Nat, seen : Status]
   \cup [call : {"adjust"}, product : Product, quantity : Int]

TypeOK ==
    /\ transactions \in Seq(Row)
    /\ corrections \subseteq [old : DOMAIN transactions, new : DOMAIN transactions]
    /\ cases \in Seq(Case)
    /\ stock \in Quantities
    /\ adjusted \in Quantities
    /\ inflight \in [Request -> Call \cup {None}]
    /\ stale \subseteq {r \in Request : inflight[r] # None}
    /\ raced \subseteq DOMAIN transactions

Nothing == [p \in Product |-> 0]
Plus(f, g) == [p \in Product |-> f[p] + g[p]]
Minus(f, g) == [p \in Product |-> f[p] - g[p]]

CasesOf(i) == {c \in DOMAIN cases : cases[c].row = i}

RoomForOne == Len(transactions) + Len(cases) < MaxRecords

-----------------------------------------------------------------------------
Init ==
    /\ transactions = <<>>
    /\ corrections = {}
    /\ cases = <<>>
    /\ stock = InitialStock
    /\ adjusted = Nothing
    /\ inflight = [r \in Request |-> None]
    /\ stale = {}
    /\ raced = {}

\* The consumer records a sale.  It parks one the stock does not cover, and
\* one that names a deactivated product.
Record(items) ==
    \E conflict \in BOOLEAN :
        /\ conflict \/ \A p \in Product : items[p] <= stock[p]
        /\ transactions' = Append(transactions,
              [status |-> IF conflict THEN "PENDING" ELSE "CONFIRMED",
               sync |-> IF conflict THEN "SYNC_CONFLICT" ELSE "SYNCED",
               items |-> items,
               moved |-> IF conflict THEN Nothing ELSE Minus(Nothing, items),
               payment |-> "VERIFIED"])
        /\ stock' = IF conflict THEN stock ELSE Minus(stock, items)

Synchronize(items) ==
    /\ RoomForOne
    /\ Record(items)
    /\ UNCHANGED <<corrections, cases, adjusted, inflight, stale, raced>>

-----------------------------------------------------------------------------
(* The reads: the guard of each call, on what is committed now. *)

Accept(r, call) ==
    /\ inflight[r] = None
    /\ inflight' = [inflight EXCEPT ![r] = call]
    /\ UNCHANGED <<tables, stale, raced>>

BeginVoid(r) == \E i \in DOMAIN transactions :
    /\ "voidTransaction" \in Api
    /\ transactions[i].status = "PENDING"
    /\ Accept(r, [call |-> "void", row |-> i])

\* resolveConflict looks at sync_status alone.
ResolveUnchecked(i) == TRUE
InConflict(i) == transactions[i].sync = "SYNC_CONFLICT"

BeginResolveConflict(r) == \E i \in DOMAIN transactions :
    /\ "resolveConflict" \in Api
    /\ InConflict(i)
    /\ \E action \in {"force", "cancel"} : Accept(r, [call |-> action, row |-> i])

CorrectAnyStatus(i) == TRUE
Correctable(i) == transactions[i].status = "CONFIRMED"

BeginCorrection(r) == \E i \in DOMAIN transactions, items \in Basket :
    /\ "correctTransaction" \in Api
    /\ Correctable(i)
    /\ Accept(r, [call |-> "correct", row |-> i, items |-> items,
                  payment |-> transactions[i].payment])

\* ReconciliationsService.create refuses when the payment ever had a case,
\* PaymentsService.reconcile when it has an open one.
HasNoOpenCase(i) == \A c \in CasesOf(i) : cases[c].status # "OPEN"

BeginCreate(r) == \E i \in DOMAIN transactions :
    /\ "create" \in Api
    /\ CasesOf(i) = {}
    /\ Accept(r, [call |-> "open", row |-> i])

BeginReconcile(r) == \E i \in DOMAIN transactions :
    /\ "reconcile" \in Api
    /\ HasNoOpenCase(i)
    /\ Accept(r, [call |-> "open", row |-> i])

BeginResolveCase(r) == \E c \in DOMAIN cases :
    /\ "resolve" \in Api
    /\ cases[c].status = "OPEN"
    /\ \/ Accept(r, [call |-> "valid", case |-> c])
       \/ Accept(r, [call |-> "invalid", case |-> c,
                     seen |-> transactions[cases[c].row].status])

BeginAdjustStock(r) == \E p \in Product, n \in Change :
    /\ "adjustStock" \in Api
    /\ stock[p] + n >= 0
    /\ adjusted[p] + n \in -MaxAdjusted .. MaxAdjusted
    /\ Accept(r, [call |-> "adjust", product |-> p, quantity |-> n])

-----------------------------------------------------------------------------
(* The writes: nothing is looked at again. *)

Answer(r) == inflight' = [inflight EXCEPT ![r] = None]

\* The sale a call is about.
About(q, i) ==
    /\ inflight[q] # None
    /\ CASE inflight[q].call \in {"valid", "invalid"} -> cases[inflight[q].case].row = i
         [] inflight[q].call = "adjust" -> FALSE
         [] OTHER -> inflight[q].row = i

\* r writes sale i or a case of it.
Wrote(r, i) ==
    /\ Answer(r)
    /\ stale' = {q \in Request \ {r} : q \in stale \/ About(q, i)}
    /\ raced' = IF r \in stale THEN raced \cup {i} ELSE raced

Serving(r, call) == inflight[r] # None /\ inflight[r].call = call

VoidTransaction(r) ==
    /\ Serving(r, "void")
    /\ transactions' = [transactions EXCEPT ![inflight[r].row].status = "VOIDED"]
    /\ Wrote(r, inflight[r].row)
    /\ UNCHANGED <<corrections, cases, stock, adjusted>>

\* resolveConflict with CONFIRM: forceResolveInventory, then markAsConfirmed.
ForceWithoutConfirming(r) ==
    LET i == inflight[r].row IN
    /\ Serving(r, "force")
    /\ transactions' = [transactions EXCEPT
          ![i].moved = Minus(@, transactions[i].items)]
    /\ stock' = Minus(stock, transactions[i].items)
    /\ Wrote(r, i)
    /\ UNCHANGED <<corrections, cases, adjusted>>
ForceConfirm(r) ==
    LET i == inflight[r].row IN
    /\ Serving(r, "force")
    /\ transactions' = [transactions EXCEPT
          ![i].status = "CONFIRMED",
          ![i].sync = "SYNCED",
          ![i].moved = Minus(@, transactions[i].items)]
    /\ stock' = Minus(stock, transactions[i].items)
    /\ Wrote(r, i)
    /\ UNCHANGED <<corrections, cases, adjusted>>

\* resolveConflict with VOID.
CancelConflict(r) ==
    LET i == inflight[r].row IN
    /\ Serving(r, "cancel")
    /\ transactions' = [transactions EXCEPT ![i].status = "VOIDED",
                                            ![i].sync = "SYNCED"]
    /\ Wrote(r, i)
    /\ UNCHANGED <<corrections, cases, stock, adjusted>>

\* revertOldStock, createNewTransaction, createDetailsAndDeductStock,
\* clonePayment and markOldAsVoidedAndBridge, in one transaction.
VoidWithoutReplacement(old, correction) ==
    /\ transactions' = [transactions EXCEPT ![old].status = "VOIDED",
                               ![old].moved = Plus(@, transactions[old].items)]
    /\ stock' = Plus(stock, transactions[old].items)
RevertOffTheBooks(old, correction) ==
    /\ transactions' = Append(
          [transactions EXCEPT ![old].status = "VOIDED"], correction)
    /\ stock' = Plus(stock, Plus(transactions[old].items, correction.moved))
Replace(old, correction) ==
    /\ transactions' = Append(
          [transactions EXCEPT ![old].status = "VOIDED",
                               ![old].moved = Plus(@, transactions[old].items)],
          correction)
    /\ stock' = Plus(stock, Plus(transactions[old].items, correction.moved))

CorrectTransaction(r) ==
    LET q == inflight[r] IN
    /\ Serving(r, "correct")
    /\ RoomForOne
    /\ Replace(q.row, [status |-> "CONFIRMED", sync |-> "SYNCED",
                       items |-> q.items, moved |-> Minus(Nothing, q.items),
                       payment |-> q.payment])
    /\ corrections' = corrections \cup
          {[old |-> q.row, new |-> Len(transactions) + 1]}
    /\ Wrote(r, q.row)
    /\ UNCHANGED <<cases, adjusted>>

OpenCase(r) ==
    /\ Serving(r, "open")
    /\ RoomForOne
    /\ cases' = Append(cases, [row |-> inflight[r].row, status |-> "OPEN"])
    /\ Wrote(r, inflight[r].row)
    /\ UNCHANGED <<transactions, corrections, stock, adjusted>>

ResolveValid(r) ==
    /\ Serving(r, "valid")
    /\ cases' = [cases EXCEPT ![inflight[r].case].status = "RESOLVED_VALID"]
    /\ Wrote(r, cases[inflight[r].case].row)
    /\ UNCHANGED <<transactions, corrections, stock, adjusted>>

\* The goods are with the customer: the stock is left alone.
FailWithoutCase(r) ==
    LET i == cases[inflight[r].case].row IN
    /\ Serving(r, "invalid")
    /\ transactions' = [transactions EXCEPT ![i].payment = "FAILED"]
    /\ Wrote(r, i)
    /\ UNCHANGED <<corrections, cases, stock, adjusted>>
ResolveInvalid(r) ==
    LET q == inflight[r]
        i == cases[q.case].row
    IN
    /\ Serving(r, "invalid")
    /\ cases' = [cases EXCEPT ![q.case].status = "RESOLVED_INVALID"]
    /\ transactions' = [transactions EXCEPT
          ![i].payment = "FAILED",
          ![i].status = IF q.seen # "VOIDED" THEN "VOIDED" ELSE @]
    /\ Wrote(r, i)
    /\ UNCHANGED <<corrections, stock, adjusted>>

\* An increment, whatever the stock has become since the guard.
AdjustStock(r) ==
    LET q == inflight[r] IN
    /\ Serving(r, "adjust")
    /\ stock' = [stock EXCEPT ![q.product] = @ + q.quantity]
    /\ adjusted' = [adjusted EXCEPT ![q.product] = @ + q.quantity]
    /\ Answer(r)
    /\ stale' = stale \ {r}
    /\ UNCHANGED <<transactions, corrections, cases, raced>>

\* The writes roll back, or the process dies before them.
Abandon(r) ==
    /\ inflight[r] # None
    /\ Answer(r)
    /\ stale' = stale \ {r}
    /\ UNCHANGED <<tables, raced>>

-----------------------------------------------------------------------------
(* getTransactionHistory.  Of several rows findFirst finds any one. *)

Previous(i) == {c.old : c \in {d \in corrections : d.new = i}}
Successors(i) == {c.new : c \in {d \in corrections : d.old = i}}
FindFirst(S) == CHOOSE i \in S : TRUE

Root[i \in DOMAIN transactions] ==
    IF Previous(i) = {} THEN i ELSE Root[FindFirst(Previous(i))]
Versions[i \in DOMAIN transactions] ==
    <<i>> \o IF Successors(i) = {} THEN <<>> ELSE Versions[FindFirst(Successors(i))]

GetTransactionHistory[i \in DOMAIN transactions] == Versions[Root[i]]

-----------------------------------------------------------------------------
Begin(r) ==
    \/ BeginVoid(r) \/ BeginResolveConflict(r) \/ BeginCorrection(r)
    \/ BeginCreate(r) \/ BeginReconcile(r) \/ BeginResolveCase(r) \/ BeginAdjustStock(r)

Write(r) ==
    \/ VoidTransaction(r) \/ ForceConfirm(r) \/ CancelConflict(r)
    \/ CorrectTransaction(r)
    \/ OpenCase(r) \/ ResolveValid(r) \/ ResolveInvalid(r)
    \/ AdjustStock(r)

Next ==
    \/ \E items \in Basket : Synchronize(items)
    \/ \E r \in Request : Begin(r) \/ Write(r) \/ Abandon(r)

Spec == Init /\ [][Next]_vars

-----------------------------------------------------------------------------
(* Properties. *)

Movements(p) == [i \in DOMAIN transactions |-> transactions[i].moved[p]]

\* The audit trail explains the stock: what the inventory lost or gained is
\* the sum of its StockHistory rows, those of each sale and the adjustments.
StockIsHistory ==
    \A p \in Product :
        stock[p] = InitialStock[p] + adjusted[p] + Total(Movements(p))

\* A conflict that nobody has confirmed never moves stock, not even while
\* two resolutions of it are on their way.
PendingMovesNothing ==
    \A i \in DOMAIN transactions :
        transactions[i].status = "PENDING" => transactions[i].moved = Nothing

Replaced(i) == \E c \in corrections : c.old = i
WrittenOff(i) == \E c \in CasesOf(i) : cases[c].status = "RESOLVED_INVALID"

\* The stock movements of a sale are exactly those its status calls for: one
\* deduction while CONFIRMED, none once VOIDED, unless the goods left with a
\* customer whose payment turned out INVALID.  This and the invariants below
\* are about sales no call has written on a stale read.
StockFollowsStatus ==
    \A i \in DOMAIN transactions \ raced :
        LET t == transactions[i]
            gone == t.moved = Minus(Nothing, t.items)
        IN
        CASE t.status = "CONFIRMED" -> gone
          [] t.status = "PENDING" -> t.moved = Nothing
          [] t.status = "VOIDED" ->
                \/ t.moved = Nothing
                \/ gone /\ WrittenOff(i) /\ ~Replaced(i)

\* GET /transactions/:id/history of any version of a sale has that version in
\* it: the walk back to the first version and forth again by the first
\* successor it finds leaves no branch out.
HistoryIsComplete ==
    \A i \in DOMAIN transactions :
        LET history == GetTransactionHistory[i] IN
        Range(history) \cap raced = {} => i \in Range(history)

\* A payment is FAILED only because a case about it, or about the sale it
\* was copied from, was resolved INVALID.
FailedForCause ==
    \A i \in DOMAIN transactions \ raced :
        transactions[i].payment = "FAILED" =>
            \/ WrittenOff(i)
            \/ \E c \in corrections :
                  c.new = i /\ transactions[c.old].payment = "FAILED"

\* What the rows say of sale i.  A sale in SYNC_CONFLICT is disputed whatever
\* its status: resolveConflict still confirms it after a void.
Account(i) ==
    LET t == transactions[i] IN
    [items |-> t.items,
     state |-> CASE t.sync = "SYNC_CONFLICT" -> "disputed"
                 [] t.sync = "SYNCED" /\ t.status # "VOIDED" -> "sold"
                 [] OTHER -> IF t.moved = Nothing THEN "voided" ELSE "written off",
     replaces |-> IF \E c \in corrections : c.new = i
                  THEN (CHOOSE c \in corrections : c.new = i).old ELSE 0]

Books == INSTANCE SaleAccounts WITH
    accounts <- [i \in DOMAIN transactions |-> Account(i)], stock <- stock

\* As long as no call has written a sale on a stale read, void, resolve,
\* correct, reconcile and adjustStock keep the owner's books, whatever they
\* overlap with: the stock changes with the state of a sale and in the same
\* instant, what is voided or written off stays so, and no sale is replaced
\* twice.  Two calls about different sales never count as stale, nor do an
\* adjustment and a call about a sale of the same product.
ImplementsSaleAccounts ==
    Books!Init /\ [][raced' = {} => [Books!Next]_(Books!vars)]_vars
=============================================================================
