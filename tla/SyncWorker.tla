----------------------------- MODULE SyncWorker -----------------------------
(***************************************************************************)
(* The consumer of the queue sync.transactions, statement by statement:    *)
(* SyncConsumerService.handleSyncTransactionBatch and the database         *)
(* transaction of processTransaction.  RabbitMQ hands a consumer up to ten *)
(* unacknowledged messages, so the handlers of several messages interleave *)
(* at every await; PostgreSQL runs their transactions at READ COMMITTED    *)
(* and keeps them apart only by row locks and unique indexes, which this   *)
(* module spells out:                                                      *)
(*                                                                         *)
(*   lock[p]      the handler holding FOR UPDATE on p's Inventory/Product  *)
(*   shared[p]    the handlers holding FOR KEY SHARE on p's Product row,   *)
(*                taken by the foreign key of a detail row                 *)
(*   reserved[u]  the handler with an uncommitted index entry for uuid u   *)
(*   taken[m]     the uncommitted Inventory decrements of m's transaction  *)
(*                                                                         *)
(* A message is the process: its handler is where pc[m] says.  A message   *)
(* published twice is two messages with the same batch.                    *)
(***************************************************************************)
EXTENDS Integers, Sequences, FiniteSets, Sums

CONSTANTS
    Message,        \* messages on sync.transactions
    Batch,          \* Batch[m]: the sales message m carries, in order
    Sale,           \* payloads: two sales may carry one offline_uuid
    Uuid, Device,   \* offline_uuid and id_device values
    Line,           \* sale lines, [product, quantity]
    UuidOf, DeviceOf, LinesOf,
    Sound,          \* the sales that pass validateArithmetic
    Product,        \* every product id a line may name
    Catalog,        \* the ids that have Product and Inventory rows
    KnownDevice,    \* the devices that have a row
    InitialStock,
    SystemUser,     \* what systemUser may be
    Faults,         \* what may go wrong: "timeout", "failure write"
    MaxCrashes,     \* bound on process crashes
    None

ASSUME SalesAssumption ==
    /\ Batch \in [Message -> Seq(Sale)]
    /\ UuidOf \in [Sale -> Uuid]
    /\ DeviceOf \in [Sale -> Device]
    /\ Line \subseteq [product : Product, quantity : Nat \ {0}]
    /\ LinesOf \in [Sale -> Seq(Line)]
    /\ \A s \in Sale : LinesOf[s] # <<>>
    /\ Sound \subseteq Sale

ASSUME DatabaseAssumption ==
    /\ Catalog \subseteq Product
    /\ KnownDevice \subseteq Device
    /\ InitialStock \in [Product -> Nat]
    /\ SystemUser \subseteq BOOLEAN
    /\ Faults \subseteq {"timeout", "failure write"}
    /\ MaxCrashes \in Nat
    /\ None \notin Message

VARIABLES
    pc,         \* where the handler of m is; "queued" until delivered
    idx, pos,   \* its sale in the batch, its line in the sale
    conflict,   \* hasConflict of the running transaction
    taken, lock, shared, reserved,
    ledger,     \* committed Transaction rows, in commit order
    stock,      \* committed Inventory.current_stock
    active,     \* committed Product.is_active
    failed,     \* the sales with a SYNC_FAILED row in SyncQueue
    systemUser, \* whether User has the row 'system_sync'
    crashes

handlerVars == <<pc, idx, pos, conflict>>
lockVars == <<taken, lock, shared, reserved>>
tableVars == <<ledger, stock, active, failed, systemUser>>
vars == <<handlerVars, lockVars, tableVars, crashes>>

Row == [sale : Sale, status : {"CONFIRMED", "PENDING"}]

InTransaction == {"check", "header", "details", "deduct", "commit"}
Running == InTransaction \cup {"next", "failing"}

-----------------------------------------------------------------------------
(* What a handler looks at. *)

Current(m) == Batch[m][idx[m]]
Lines(m) == LinesOf[Current(m)]
Here(m) == Lines(m)[pos[m]]
MissesLastSale(m) == idx[m] < Len(Batch[m])
HasNext(m) == idx[m] <= Len(Batch[m])

Rows == {ledger[i] : i \in DOMAIN ledger}

\* findUnique on (id_device, offline_uuid)
Existing(s) ==
    \E r \in Rows : /\ UuidOf[r.sale] = UuidOf[s]
                    /\ DeviceOf[r.sale] = DeviceOf[s]

\* Transaction.offline_uuid is unique by itself as well
SameDevice(s) == \E r \in Rows : DeviceOf[r.sale] = DeviceOf[s]
NoUniqueIndex(s) == FALSE
UniqueViolation(s) == \E r \in Rows : UuidOf[r.sale] = UuidOf[s]

\* The handlers that m's next statement has to wait for.
ReadWithoutLock(m, p) == {}
ExclusiveBlockers(m, p) == ({lock[p]} \cup shared[p]) \ {m, None}
SharedBlockers(m, p) == {lock[p]} \ {m, None}
IndexBlockers(m, u) == {reserved[u]} \ {m, None}

Blockers(m) ==
    CASE pc[m] = "check" /\ Here(m).product \in Catalog ->
            ExclusiveBlockers(m, Here(m).product)
      [] pc[m] = "header" /\ DeviceOf[Current(m)] \in KnownDevice ->
            IndexBlockers(m, UuidOf[Current(m)])
      [] pc[m] = "details" -> SharedBlockers(m, Here(m).product)
      [] OTHER -> {}

\* PostgreSQL aborts a transaction that waits in a cycle.
NeverDetected(m) == FALSE
InDeadlock(m) ==
    \E W \in SUBSET Message :
        /\ m \in W
        /\ \A x \in W : /\ \E y \in W : y \in Blockers(x)
                        /\ \E y \in W : x \in Blockers(y)

Nothing == [p \in Product |-> 0]

\* COMMIT and ROLLBACK both drop what the transaction holds.
Release(H) ==
    /\ taken' = [m \in Message |-> IF m \in H THEN Nothing ELSE taken[m]]
    /\ lock' = [p \in Product |-> IF lock[p] \in H THEN None ELSE lock[p]]
    /\ shared' = [p \in Product |-> shared[p] \ H]
    /\ reserved' = [u \in Uuid |-> IF reserved[u] \in H THEN None ELSE reserved[u]]

Goto(m, label) == pc' = [pc EXCEPT ![m] = label]

\* Go to the next line of the sale, or to "label" after the last one.
SkipLastLine(m, label) ==
    IF pos[m] + 1 < Len(Lines(m))
    THEN /\ pos' = [pos EXCEPT ![m] = @ + 1]
         /\ UNCHANGED pc
    ELSE /\ pos' = [pos EXCEPT ![m] = 1]
         /\ Goto(m, label)
NextLine(m, label) ==
    IF pos[m] < Len(Lines(m))
    THEN /\ pos' = [pos EXCEPT ![m] = @ + 1]
         /\ UNCHANGED pc
    ELSE /\ pos' = [pos EXCEPT ![m] = 1]
         /\ Goto(m, label)

\* An exception in the $transaction callback: roll back, then handleFailure.
Abort(m) ==
    /\ Goto(m, "failing")
    /\ Release({m})
    /\ UNCHANGED <<idx, pos, conflict, tableVars, crashes>>

-----------------------------------------------------------------------------
Init ==
    /\ pc = [m \in Message |-> "queued"]
    /\ idx = [m \in Message |-> 1]
    /\ pos = [m \in Message |-> 1]
    /\ conflict = [m \in Message |-> FALSE]
    /\ taken = [m \in Message |-> Nothing]
    /\ lock = [p \in Product |-> None]
    /\ shared = [p \in Product |-> {}]
    /\ reserved = [u \in Uuid |-> None]
    /\ ledger = <<>>
    /\ stock = InitialStock
    /\ active \in SUBSET Catalog
    /\ failed = {}
    /\ systemUser \in SystemUser
    /\ crashes = 0

-----------------------------------------------------------------------------
(* The handler's loop. *)

Receive(m) ==
    /\ pc[m] = "queued"
    /\ Goto(m, "next")
    /\ idx' = [idx EXCEPT ![m] = 1]
    /\ UNCHANGED <<pos, conflict, lockVars, tableVars, crashes>>

SkipExisting(m) ==
    /\ pc[m] = "next" /\ HasNext(m)
    /\ Existing(Current(m))
    /\ idx' = [idx EXCEPT ![m] = @ + 1]
    /\ UNCHANGED <<pc, pos, conflict, lockVars, tableVars, crashes>>

\* findUnique found nothing; validateArithmetic then runs before any statement.
BeginTransaction(m) ==
    /\ pc[m] = "next" /\ HasNext(m)
    /\ ~Existing(Current(m))
    /\ Goto(m, IF Current(m) \in Sound THEN "check" ELSE "failing")
    /\ pos' = [pos EXCEPT ![m] = 1]
    /\ UNCHANGED <<idx, conflict, lockVars, tableVars, crashes>>

\* checkStockAvailability, one line: lock the rows, then compare this line
\* alone with what it reads; the first line that fails ends the loop.
CoveredIgnoringActive(m) == stock[Here(m).product] >= Here(m).quantity
Covered(m) ==
    /\ Here(m).product \in active
    /\ stock[Here(m).product] >= Here(m).quantity

CheckStock(m) ==
    LET p == Here(m).product IN
    /\ pc[m] = "check"
    /\ Blockers(m) = {}
    /\ lock' = IF p \in Catalog THEN [lock EXCEPT ![p] = m] ELSE lock
    /\ conflict' = [conflict EXCEPT ![m] = ~Covered(m)]
    /\ IF Covered(m)
       THEN NextLine(m, "header")
       ELSE /\ Goto(m, "header")
            /\ pos' = [pos EXCEPT ![m] = 1]
    /\ UNCHANGED <<idx, taken, shared, reserved, tableVars, crashes>>

\* The device lookup, then INSERT INTO "Transaction": the unique index makes
\* it wait for an uncommitted row with its uuid and fail on a committed one.
CreateTransactionHeader(m) ==
    /\ pc[m] = "header"
    /\ DeviceOf[Current(m)] \in KnownDevice
    /\ Blockers(m) = {}
    /\ ~UniqueViolation(Current(m))
    /\ reserved' = [reserved EXCEPT ![UuidOf[Current(m)]] = m]
    /\ Goto(m, "details")
    /\ UNCHANGED <<idx, pos, conflict, taken, lock, shared, tableVars, crashes>>

RejectHeader(m) ==
    /\ pc[m] = "header"
    /\ \/ DeviceOf[Current(m)] \notin KnownDevice
       \/ Blockers(m) = {} /\ UniqueViolation(Current(m))
    /\ Abort(m)

\* createMany of the detail rows: the foreign key of each row takes
\* FOR KEY SHARE on its product.  createPayment adds no wait.
CreateTransactionDetails(m) ==
    LET p == Here(m).product IN
    /\ pc[m] = "details"
    /\ p \in Catalog
    /\ Blockers(m) = {}
    /\ shared' = [shared EXCEPT ![p] = @ \cup {m}]
    /\ NextLine(m, IF conflict[m] THEN "commit" ELSE "deduct")
    /\ UNCHANGED <<idx, conflict, taken, lock, reserved, tableVars, crashes>>

RejectDetails(m) ==
    /\ pc[m] = "details"
    /\ Here(m).product \notin Catalog
    /\ Abort(m)

\* adjustInventoryAndHistory for one line, as user 'system_sync'.
DeductInventory(m) ==
    /\ pc[m] = "deduct"
    /\ systemUser
    /\ taken' = [taken EXCEPT ![m][Here(m).product] = @ + Here(m).quantity]
    /\ NextLine(m, "commit")
    /\ UNCHANGED <<idx, conflict, lock, shared, reserved, tableVars, crashes>>

SwallowHistoryError(m) ==
    /\ pc[m] = "deduct"
    /\ ~systemUser
    /\ NextLine(m, "commit")
    /\ UNCHANGED <<idx, conflict, lockVars, tableVars, crashes>>
RejectHistory(m) ==
    /\ pc[m] = "deduct"
    /\ ~systemUser
    /\ Abort(m)

Commit(m) ==
    /\ pc[m] = "commit"
    /\ ledger' = Append(ledger,
          [sale |-> Current(m),
           status |-> IF conflict[m] THEN "PENDING" ELSE "CONFIRMED"])
    /\ stock' = [p \in Product |-> stock[p] - taken[m][p]]
    /\ Release({m})
    /\ Goto(m, "next")
    /\ idx' = [idx EXCEPT ![m] = @ + 1]
    /\ UNCHANGED <<pos, conflict, active, failed, systemUser, crashes>>

DeadlockVictim(m) == InDeadlock(m) /\ Abort(m)

\* handleFailure writes a SyncQueue row, which has a foreign key to Device;
\* its own failure is swallowed.
HandleFailure(m) ==
    /\ pc[m] = "failing"
    /\ \/ /\ DeviceOf[Current(m)] \in KnownDevice
          /\ failed' = failed \cup {Current(m)}
       \/ /\ \/ DeviceOf[Current(m)] \notin KnownDevice
             \/ "failure write" \in Faults
          /\ UNCHANGED failed
    /\ Goto(m, "next")
    /\ idx' = [idx EXCEPT ![m] = @ + 1]
    /\ UNCHANGED <<pos, conflict, lockVars, ledger, stock, active, systemUser, crashes>>

Ack(m) ==
    /\ pc[m] = "next" /\ ~HasNext(m)
    /\ Goto(m, "acked")
    /\ UNCHANGED <<idx, pos, conflict, lockVars, tableVars, crashes>>

-----------------------------------------------------------------------------
(* The environment of the handlers. *)

\* The process dies: open transactions roll back, RabbitMQ requeues what was
\* delivered and not acknowledged.
Crash ==
    LET H == {m \in Message : pc[m] \in Running} IN
    /\ crashes < MaxCrashes
    /\ H # {}
    /\ crashes' = crashes + 1
    /\ pc' = [m \in Message |-> IF m \in H THEN "queued" ELSE pc[m]]
    /\ Release(H)
    /\ UNCHANGED <<idx, pos, conflict, tableVars>>

\* Prisma gives an interactive transaction five seconds.
TransactionTimeout(m) ==
    /\ "timeout" \in Faults
    /\ pc[m] \in InTransaction
    /\ Abort(m)

\* ProductsService.remove and update: an UPDATE of is_active, which waits for
\* FOR UPDATE on the row but not for FOR KEY SHARE.
RemoveProduct(p) ==
    /\ p \in active
    /\ lock[p] = None
    /\ active' = active \ {p}
    /\ UNCHANGED <<handlerVars, lockVars, ledger, stock, failed, systemUser, crashes>>

ReactivateProduct(p) ==
    /\ p \notin active
    /\ lock[p] = None
    /\ active' = active \cup {p}
    /\ UNCHANGED <<handlerVars, lockVars, ledger, stock, failed, systemUser, crashes>>

Step(m) ==
    \/ Receive(m) \/ SkipExisting(m) \/ BeginTransaction(m)
    \/ CheckStock(m)
    \/ CreateTransactionHeader(m) \/ RejectHeader(m)
    \/ CreateTransactionDetails(m) \/ RejectDetails(m)
    \/ DeductInventory(m) \/ RejectHistory(m)
    \/ Commit(m) \/ DeadlockVictim(m)
    \/ HandleFailure(m) \/ Ack(m)

Terminating ==
    /\ \A m \in Message : pc[m] = "acked"
    /\ UNCHANGED vars

Next ==
    \/ \E m \in Message : Step(m)
    \/ \E m \in Message : TransactionTimeout(m)
    \/ Crash
    \/ \E p \in Catalog : RemoveProduct(p) \/ ReactivateProduct(p)
    \/ Terminating

Spec == Init /\ [][Next]_vars

\* Node runs every ready callback, PostgreSQL wakes a waiter whose lock is
\* free and resolves deadlocks; nothing obliges the process to crash.
FairSpec == Spec /\ \A m \in Message : WF_vars(Step(m))

-----------------------------------------------------------------------------
(* Properties. *)

\* The refinement mapping: the committed rows, as they are.
Promise == INSTANCE SaleLedger WITH
    ledger <- ledger, stock <- stock, active <- active

\* The handlers implement the ledger of SaleLedger: rows and stock change
\* together, for the whole sale, and what was found covered or uncovered
\* still is when the row commits.
ImplementsSaleLedger == Promise!Spec

TypeOK ==
    /\ pc \in [Message -> Running \cup {"queued", "acked"}]
    /\ idx \in [Message -> Nat \ {0}]
    /\ pos \in [Message -> Nat \ {0}]
    /\ conflict \in [Message -> BOOLEAN]
    /\ taken \in [Message -> [Product -> Nat]]
    /\ lock \in [Product -> Message \cup {None}]
    /\ shared \in [Product -> SUBSET Message]
    /\ reserved \in [Uuid -> Message \cup {None}]
    /\ ledger \in Seq(Row)
    /\ stock \in [Product -> Int]
    /\ active \subseteq Catalog
    /\ failed \subseteq Sale
    /\ systemUser \in BOOLEAN
    /\ crashes \in 0 .. MaxCrashes

\* What the clients send when they merge the lines of one product; the DTO
\* does not ask for it.
DistinctLines ==
    \A s \in Sale : \A j, k \in DOMAIN LinesOf[s] :
        LinesOf[s][j].product = LinesOf[s][k].product => j = k

\* However the handlers interleave, the committed stock of a product never
\* goes below zero: the row locks of checkStockAvailability are held until
\* deductInventory has committed.
NoOversell == \A p \in Product : stock[p] >= 0

\* A sale delivered twice, at once or again after a crash, gets one row.
OneRowPerUuid ==
    \A i, j \in DOMAIN ledger :
        UuidOf[ledger[i].sale] = UuidOf[ledger[j].sale] => i = j

\* What line k of sale s asks of product p, what the whole sale asks.
Wanted(s, p) ==
    [k \in DOMAIN LinesOf[s] |->
        IF LinesOf[s][k].product = p THEN LinesOf[s][k].quantity ELSE 0]
Demand(s, p) == Total(Wanted(s, p))

Sold(p) ==
    [i \in DOMAIN ledger |->
        IF ledger[i].status = "CONFIRMED" THEN Demand(ledger[i].sale, p) ELSE 0]

\* The stock is what the confirmed rows, each counted once, leave of the
\* initial stock: no deduction without its row, none missing, none doubled
\* by a redelivery, none for a PENDING row.
StockMatchesLedger ==
    \A p \in Product : stock[p] = InitialStock[p] - Total(Sold(p))

Traced(s) == Existing(s) \/ s \in failed

\* When the handler acknowledges a message, every sale of the batch has left
\* a trace, a Transaction row or a SYNC_FAILED row, if its device is known.
AckedMeansRecorded ==
    \A m \in Message : pc[m] = "acked" =>
        \A i \in DOMAIN Batch[m] :
            DeviceOf[Batch[m][i]] \in KnownDevice => Traced(Batch[m][i])

\* A sale is reported SYNC_FAILED for a reason that lies in the sale, never
\* because of what other handlers happened to be doing.
RejectedForCause ==
    \A s \in failed :
        \/ s \notin Sound
        \/ \E k \in DOMAIN LinesOf[s] : LinesOf[s][k].product \notin Catalog
        \/ \E r \in Rows : UuidOf[r.sale] = UuidOf[s]

-----------------------------------------------------------------------------
(* Why NoOversell and OneRowPerUuid hold: the inductive invariant. *)

\* A handler inside a transaction points at a line of a sale of its batch.
InBatch ==
    \A m \in Message :
        /\ pc[m] \in InTransaction \cup {"failing"} => HasNext(m)
        /\ pc[m] \in InTransaction => pos[m] <= Len(Lines(m))

\* Only an open transaction holds row locks or has decremented anything.
HeldInTransaction ==
    /\ \A p \in Product : lock[p] # None => pc[lock[p]] \in InTransaction
    /\ \A m \in Message : pc[m] \notin {"deduct", "commit"} => taken[m] = Nothing

\* Line k of m's sale is locked by m and covered by what m has not taken yet.
Backed(m, k) ==
    LET p == Lines(m)[k].product IN
    /\ lock[p] = m
    /\ taken[m][p] + Lines(m)[k].quantity <= stock[p]

ToBeDeducted(m) ==
    CASE pc[m] = "check" -> 1 .. pos[m] - 1
      [] pc[m] = "deduct" -> pos[m] .. Len(Lines(m))
      [] pc[m] \in {"header", "details"} /\ ~conflict[m] -> 1 .. Len(Lines(m))
      [] OTHER -> {}

CheckedIsBacked == \A m \in Message : \A k \in ToBeDeducted(m) : Backed(m, k)

TakenIsLocked ==
    \A m \in Message, p \in Product :
        taken[m][p] > 0 => lock[p] = m /\ taken[m][p] <= stock[p]

\* The unique index entry is held from the insert to the end of the
\* transaction, and only by a sale whose uuid has no committed row.
ReservedIsFresh ==
    /\ \A m \in Message : pc[m] \in {"details", "deduct", "commit"} =>
          reserved[UuidOf[Current(m)]] = m
    /\ \A u \in Uuid : reserved[u] # None =>
          /\ pc[reserved[u]] \in {"details", "deduct", "commit"}
          /\ UuidOf[Current(reserved[u])] = u
          /\ \A r \in Rows : UuidOf[r.sale] # u

\* The inductive invariant, all parts together.
Inductive ==
    /\ TypeOK
    /\ InBatch
    /\ HeldInTransaction
    /\ CheckedIsBacked
    /\ TakenIsLocked
    /\ ReservedIsFresh
    /\ NoOversell
    /\ OneRowPerUuid

-----------------------------------------------------------------------------
\* Every delivered message is eventually acknowledged: locks are released,
\* deadlocks broken, no handler loops.
EveryMessageAcked == \A m \in Message : <>(pc[m] = "acked")
=============================================================================
