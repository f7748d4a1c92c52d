-------------------------- MODULE SyncWorkerProofs --------------------------
(***************************************************************************)
(* Proofs about SyncWorker, for any number of messages, sales, products    *)
(* and crashes: no offline_uuid gets two rows, the stock is what the rows  *)
(* leave of it, what is acknowledged is recorded and, as long as a sale    *)
(* names each product on one line, the stock is never oversold and the     *)
(* handlers implement SaleLedger.  Whatever the sales, some handler can    *)
(* always go on.                                                           *)
(***************************************************************************)
EXTENDS SyncWorker, SumProofs, SequenceTheorems, TLAPS

(* What a handler points at is a sale and one of its lines. *)
LEMMA CurrentTyped ==
    ASSUME TypeOK, InBatch, NEW m \in Message,
           pc[m] \in InTransaction \cup {"failing"}
    PROVE  /\ idx[m] \in DOMAIN Batch[m]
           /\ Current(m) \in Sale
           /\ UuidOf[Current(m)] \in Uuid
           /\ DeviceOf[Current(m)] \in Device
           /\ Lines(m) \in Seq(Line)
           /\ Len(Lines(m)) \in Nat \ {0}
           /\ DOMAIN Lines(m) = 1 .. Len(Lines(m))
<1>1. Batch[m] \in Seq(Sale)
  BY SalesAssumption
<1>2. idx[m] \in 1 .. Len(Batch[m])
  BY <1>1 DEF TypeOK, InBatch, HasNext
<1>3. Current(m) \in Sale
  BY <1>1, <1>2, ElementOfSeq DEF Current
<1>4. Lines(m) \in Seq(Line) /\ Lines(m) # <<>>
  BY <1>3, SalesAssumption DEF Lines
<1>5. QED
  BY <1>1, <1>2, <1>3, <1>4, SalesAssumption

LEMMA LineTyped ==
    ASSUME TypeOK, InBatch, NEW m \in Message, pc[m] \in InTransaction,
           NEW k \in 1 .. Len(Lines(m))
    PROVE  /\ Lines(m)[k] \in Line
           /\ Lines(m)[k].product \in Product
           /\ Lines(m)[k].quantity \in Nat \ {0}
<1>1. Lines(m) \in Seq(Line)
  BY CurrentTyped
<1>2. Lines(m)[k] \in Line
  BY <1>1, ElementOfSeq
<1>3. QED
  BY <1>2, SalesAssumption

LEMMA HereTyped ==
    ASSUME TypeOK, InBatch, NEW m \in Message, pc[m] \in InTransaction
    PROVE  /\ pos[m] \in 1 .. Len(Lines(m))
           /\ Here(m) \in Line
           /\ Here(m).product \in Product
           /\ Here(m).quantity \in Nat \ {0}
<1>1. pos[m] \in 1 .. Len(Lines(m))
  BY CurrentTyped DEF TypeOK, InBatch
<1>2. QED
  BY <1>1, LineTyped DEF Here

LEMMA NothingTyped == Nothing \in [Product -> Nat] /\ \A p \in Product : Nothing[p] = 0
BY DEF Nothing

LEMMA InitialStockTyped ==
    /\ InitialStock \in [Product -> Int]
    /\ \A p \in Product : InitialStock[p] >= 0
<1>1. InitialStock \in [Product -> Nat]
  BY DatabaseAssumption
<1>2. QED
  BY <1>1

LEMMA InitInductive == Init => Inductive
<1> SUFFICES ASSUME Init PROVE Inductive
  OBVIOUS
<1> USE DEF Init
<1>1. TypeOK
  <2>1. ledger \in Seq(Row)
    BY EmptySeq
  <2>2. taken \in [Message -> [Product -> Nat]]
    BY NothingTyped
  <2>3. /\ pc \in [Message -> Running \cup {"queued", "acked"}]
        /\ idx \in [Message -> Nat \ {0}]
        /\ pos \in [Message -> Nat \ {0}]
        /\ conflict \in [Message -> BOOLEAN]
    OBVIOUS
  <2>4. /\ stock \in [Product -> Int]
        /\ active \subseteq Catalog
        /\ failed \subseteq Sale
    BY InitialStockTyped
  <2>5. crashes \in 0 .. MaxCrashes
    <3>1. MaxCrashes \in Nat
      BY DatabaseAssumption
    <3>2. QED
      BY <3>1
  <2>6. /\ lock \in [Product -> Message \cup {None}]
        /\ shared \in [Product -> SUBSET Message]
        /\ reserved \in [Uuid -> Message \cup {None}]
    OBVIOUS
  <2>7. systemUser \in BOOLEAN
    BY DatabaseAssumption
  <2>8. QED
    BY <2>1, <2>2, <2>3, <2>4, <2>6, <2>5, <2>7 DEF TypeOK
<1>2. InBatch /\ HeldInTransaction /\ CheckedIsBacked
  BY DEF InBatch, HeldInTransaction, CheckedIsBacked, ToBeDeducted, InTransaction
<1>3. TakenIsLocked
  BY NothingTyped DEF TakenIsLocked
<1>4. ReservedIsFresh
  BY DEF ReservedIsFresh
<1>5. NoOversell /\ OneRowPerUuid
  BY InitialStockTyped DEF NoOversell, OneRowPerUuid
<1>6. QED
  BY <1>1, <1>2, <1>3, <1>4, <1>5 DEF Inductive

-----------------------------------------------------------------------------
(* What a step leaves alone in the other handlers. *)

SameHandler(n) ==
    /\ pc'[n] = pc[n]
    /\ idx'[n] = idx[n]
    /\ pos'[n] = pos[n]
    /\ conflict'[n] = conflict[n]

LEMMA SameHandlerFrame ==
    ASSUME NEW n \in Message, SameHandler(n)
    PROVE  /\ Current(n)' = Current(n)
           /\ Lines(n)' = Lines(n)
           /\ HasNext(n)' = HasNext(n)
           /\ ToBeDeducted(n)' = ToBeDeducted(n)
BY DEF SameHandler, Current, Lines, HasNext, ToBeDeducted

(* A step of a handler that has no open transaction, up to the BEGIN of one. *)
LEMMA StepOutsideTransaction ==
    ASSUME Inductive, TypeOK', NEW m \in Message,
           pc[m] \notin InTransaction,
           UNCHANGED <<lockVars, ledger, stock>>,
           \A n \in Message \ {m} : SameHandler(n),
           pc'[m] \in {"queued", "next", "acked", "failing", "check"},
           pc'[m] \in {"check", "failing"} => HasNext(m)',
           pc'[m] = "check" => pos'[m] = 1 /\ (Lines(m) # <<>>)' /\ Lines(m)' \in Seq(Line)
    PROVE  Inductive'
<1> USE DEF Inductive, lockVars
<1>1. InBatch'
  <2>1. ASSUME NEW n \in Message \ {m}
        PROVE  /\ pc'[n] \in InTransaction \cup {"failing"} => HasNext(n)'
               /\ pc'[n] \in InTransaction => pos'[n] <= Len(Lines(n))'
    BY SameHandlerFrame DEF InBatch, SameHandler
  <2>2. pc'[m] = "check" => pos'[m] <= Len(Lines(m))'
    OBVIOUS
  <2>3. /\ pc'[m] \in InTransaction \cup {"failing"} => HasNext(m)'
        /\ pc'[m] \in InTransaction => pos'[m] <= Len(Lines(m))'
    BY <2>2 DEF InTransaction
  <2>4. QED
    BY <2>1, <2>3 DEF InBatch
<1>2. HeldInTransaction'
  <2>1. ASSUME NEW p \in Product, lock'[p] # None
        PROVE  pc'[lock'[p]] \in InTransaction
    <3>1. lock[p] \in Message /\ pc[lock[p]] \in InTransaction
      BY <2>1 DEF HeldInTransaction, TypeOK
    <3>2. lock[p] \in Message \ {m}
      BY <3>1
    <3>3. QED
      BY <3>1, <3>2 DEF SameHandler
  <2>2. ASSUME NEW n \in Message, pc'[n] \notin {"deduct", "commit"}
        PROVE  taken'[n] = Nothing
    <3>1. pc[n] \notin {"deduct", "commit"}
      BY <2>2 DEF SameHandler, InTransaction
    <3>2. QED
      BY <3>1 DEF HeldInTransaction
  <2>3. QED
    BY <2>1, <2>2 DEF HeldInTransaction, Nothing
<1>3. CheckedIsBacked'
  <2>1. ASSUME NEW n \in Message, NEW k \in ToBeDeducted(n)'
        PROVE  Backed(n, k)'
    <3>1. n # m
      BY <2>1 DEF ToBeDeducted
    <3>2. k \in ToBeDeducted(n) /\ Lines(n)' = Lines(n)
      BY <3>1, SameHandlerFrame
    <3>3. Backed(n, k)
      BY <3>2 DEF CheckedIsBacked
    <3>4. QED
      BY <3>2, <3>3 DEF Backed
  <2>2. QED
    BY <2>1 DEF CheckedIsBacked
<1>4. TakenIsLocked'
  BY DEF TakenIsLocked
<1>5. ReservedIsFresh'
  <2>1. ASSUME NEW n \in Message, pc'[n] \in {"details", "deduct", "commit"}
        PROVE  reserved'[UuidOf[Current(n)']] = n
    <3>1. n # m
      BY <2>1
    <3>2. QED
      BY <2>1, <3>1, SameHandlerFrame DEF ReservedIsFresh, SameHandler
  <2>2. ASSUME NEW u \in Uuid, reserved'[u] # None
        PROVE  /\ pc'[reserved'[u]] \in {"details", "deduct", "commit"}
               /\ UuidOf[Current(reserved[u])'] = u
               /\ \A r \in Rows' : UuidOf[r.sale] # u
    <3>1. reserved[u] \in Message /\ pc[reserved[u]] \in {"details", "deduct", "commit"}
      BY <2>2 DEF ReservedIsFresh, TypeOK
    <3>2. reserved[u] \in Message \ {m}
      BY <3>1 DEF InTransaction
    <3>3. SameHandler(reserved[u])
      BY <3>2
    <3>4. QED
      BY <2>2, <3>1, <3>3, SameHandlerFrame DEF ReservedIsFresh, SameHandler, Rows
  <2>3. QED
    BY <2>1, <2>2 DEF ReservedIsFresh
<1>6. NoOversell' /\ OneRowPerUuid'
  BY DEF NoOversell, OneRowPerUuid
<1>7. QED
  BY <1>1, <1>2, <1>3, <1>4, <1>5, <1>6

(* The rollback of the transactions of H, by an exception or by a crash. *)
LEMMA StepRollback ==
    ASSUME Inductive, TypeOK', NEW H \in SUBSET Message,
           Release(H),
           UNCHANGED <<ledger, stock>>,
           \A n \in Message \ H : SameHandler(n),
           \A n \in H : pc'[n] \in {"queued", "failing"},
           \A n \in H : pc'[n] = "failing" => HasNext(n)'
    PROVE  Inductive'
<1> USE DEF Inductive
<1>1. None \notin H
  BY DatabaseAssumption
<1>2. ASSUME NEW p \in Product
      PROVE  lock'[p] = IF lock[p] \in H THEN None ELSE lock[p]
  BY DEF Release
<1>3. ASSUME NEW n \in Message
      PROVE  taken'[n] = IF n \in H THEN Nothing ELSE taken[n]
  BY DEF Release
<1>4. ASSUME NEW u \in Uuid
      PROVE  reserved'[u] = IF reserved[u] \in H THEN None ELSE reserved[u]
  BY DEF Release
<1>5. InBatch'
  <2>1. ASSUME NEW n \in Message
        PROVE  /\ pc'[n] \in InTransaction \cup {"failing"} => HasNext(n)'
               /\ pc'[n] \in InTransaction => pos'[n] <= Len(Lines(n))'
    <3>1. CASE n \in H
      BY <3>1 DEF InTransaction
    <3>2. CASE n \notin H
      BY <3>2, SameHandlerFrame DEF InBatch, SameHandler
    <3>3. QED
      BY <3>1, <3>2
  <2>2. QED
    BY <2>1 DEF InBatch
<1>6. HeldInTransaction'
  <2>1. ASSUME NEW p \in Product, lock'[p] # None
        PROVE  pc'[lock'[p]] \in InTransaction
    <3>1. lock'[p] = lock[p] /\ lock[p] \in Message \ H
      BY <2>1, <1>2 DEF TypeOK
    <3>2. QED
      BY <2>1, <3>1 DEF HeldInTransaction, SameHandler
  <2>2. ASSUME NEW n \in Message, pc'[n] \notin {"deduct", "commit"}
        PROVE  taken'[n] = Nothing
    BY <2>2, <1>3 DEF HeldInTransaction, SameHandler
  <2>3. QED
    BY <2>1, <2>2 DEF HeldInTransaction, Nothing
<1>7. CheckedIsBacked'
  <2>1. ASSUME NEW n \in Message, NEW k \in ToBeDeducted(n)'
        PROVE  Backed(n, k)'
    <3>1. n \notin H
      BY <2>1 DEF ToBeDeducted
    <3>2. k \in ToBeDeducted(n) /\ Lines(n)' = Lines(n)
      BY <3>1, SameHandlerFrame
    <3>3. Backed(n, k)
      BY <3>2 DEF CheckedIsBacked
    <3>4. pc[n] \in InTransaction /\ k \in 1 .. Len(Lines(n))
      BY <3>2, CurrentTyped DEF ToBeDeducted, InTransaction, InBatch, TypeOK
    <3>5. Lines(n)[k].product \in Product
      BY <3>4, LineTyped
    <3>6. QED
      BY <3>1, <3>2, <3>3, <3>5, <1>2, <1>3 DEF Backed
  <2>2. QED
    BY <2>1 DEF CheckedIsBacked
<1>8. TakenIsLocked'
  <2>1. ASSUME NEW n \in Message, NEW p \in Product, taken'[n][p] > 0
        PROVE  lock'[p] = n /\ taken'[n][p] <= stock'[p]
    <3>1. n \notin H /\ taken'[n] = taken[n]
      BY <2>1, <1>3, NothingTyped
    <3>2. QED
      BY <2>1, <3>1, <1>2 DEF TakenIsLocked
  <2>2. QED
    BY <2>1 DEF TakenIsLocked
<1>9. ReservedIsFresh'
  <2>1. ASSUME NEW n \in Message, pc'[n] \in {"details", "deduct", "commit"}
        PROVE  reserved'[UuidOf[Current(n)']] = n
    <3>1. n \notin H
      BY <2>1
    <3>2. Current(n)' = Current(n) /\ pc[n] = pc'[n]
      BY <3>1, SameHandlerFrame DEF SameHandler
    <3>3. UuidOf[Current(n)] \in Uuid
      BY <2>1, <3>2, CurrentTyped DEF InTransaction
    <3>4. reserved[UuidOf[Current(n)]] = n
      BY <2>1, <3>2 DEF ReservedIsFresh
    <3>5. QED
      BY <3>1, <3>2, <3>3, <3>4, <1>4
  <2>2. ASSUME NEW u \in Uuid, reserved'[u] # None
        PROVE  /\ pc'[reserved'[u]] \in {"details", "deduct", "commit"}
               /\ UuidOf[Current(reserved[u])'] = u
               /\ reserved'[u] = reserved[u]
               /\ \A r \in Rows' : UuidOf[r.sale] # u
    <3>1. reserved'[u] = reserved[u] /\ reserved[u] \in Message \ H
      BY <2>2, <1>4 DEF TypeOK
    <3>2. SameHandler(reserved[u])
      BY <3>1
    <3>3. QED
      BY <2>2, <3>1, <3>2, SameHandlerFrame DEF ReservedIsFresh, SameHandler, Rows
  <2>3. QED
    BY <2>1, <2>2 DEF ReservedIsFresh
<1>10. NoOversell' /\ OneRowPerUuid'
  BY DEF NoOversell, OneRowPerUuid
<1>11. QED
  BY <1>5, <1>6, <1>7, <1>8, <1>9, <1>10

LEMMA ReleaseTyped ==
    ASSUME TypeOK, NEW H \in SUBSET Message, Release(H)
    PROVE  /\ taken' \in [Message -> [Product -> Nat]]
           /\ lock' \in [Product -> Message \cup {None}]
           /\ shared' \in [Product -> SUBSET Message]
           /\ reserved' \in [Uuid -> Message \cup {None}]
BY NothingTyped DEF TypeOK, Release

LEMMA AbortInductive ==
    ASSUME Inductive, NEW m \in Message, pc[m] \in InTransaction, Abort(m)
    PROVE  Inductive'
<1> USE DEF Inductive
<1>1. TypeOK'
  BY ReleaseTyped DEF TypeOK, Abort, Goto, tableVars, Running
<1>2. HasNext(m)'
  BY DEF InBatch, HasNext, Abort
<1>3. \A n \in Message \ {m} : SameHandler(n)
  BY DEF Abort, Goto, SameHandler, TypeOK
<1>4. pc'[m] = "failing"
  BY DEF Abort, Goto, TypeOK
<1>5. Release({m}) /\ UNCHANGED <<ledger, stock>>
  BY DEF Abort, tableVars
<1>6. QED
  BY <1>1, <1>2, <1>3, <1>4, <1>5, StepRollback

LEMMA CrashInductive == Inductive /\ Crash => Inductive'
<1> SUFFICES ASSUME Inductive, Crash PROVE Inductive'
  OBVIOUS
<1> DEFINE H == {m \in Message : pc[m] \in Running}
<1> USE DEF Inductive
<1>1. TypeOK'
  <2>1. Release(H) /\ H \in SUBSET Message
    BY DEF Crash
  <2>2. crashes' \in 0 .. MaxCrashes
    <3>1. MaxCrashes \in Nat
      BY DatabaseAssumption
    <3>2. QED
      BY <3>1 DEF Crash, TypeOK
  <2>3. pc' \in [Message -> Running \cup {"queued", "acked"}]
    BY DEF Crash, TypeOK
  <2>4. QED
    BY <2>1, <2>2, <2>3, ReleaseTyped DEF TypeOK, Crash, tableVars
<1>2. \A n \in Message \ H : SameHandler(n)
  BY DEF Crash, SameHandler
<1>3. \A n \in H : pc'[n] = "queued"
  BY DEF Crash
<1>4. Release(H) /\ UNCHANGED <<ledger, stock>>
  BY DEF Crash, tableVars
<1>5. QED
  BY <1>1, <1>2, <1>3, <1>4, StepRollback

-----------------------------------------------------------------------------
(* One lemma per action. *)

LEMMA ReceiveInductive ==
    ASSUME Inductive, NEW m \in Message, Receive(m) PROVE Inductive'
<1> USE DEF Inductive
<1>1. TypeOK'
  BY DEF TypeOK, Receive, Goto, lockVars, tableVars, Running
<1>2. \A n \in Message \ {m} : SameHandler(n)
  BY DEF Receive, Goto, SameHandler, TypeOK
<1>3. pc[m] \notin InTransaction /\ pc'[m] = "next"
  BY DEF Receive, Goto, TypeOK, InTransaction
<1>4. UNCHANGED <<lockVars, ledger, stock>>
  BY DEF Receive, tableVars
<1>5. QED
  BY <1>1, <1>2, <1>3, <1>4, StepOutsideTransaction

LEMMA SkipExistingInductive ==
    ASSUME Inductive, NEW m \in Message, SkipExisting(m) PROVE Inductive'
<1> USE DEF Inductive
<1>1. TypeOK'
  BY DEF TypeOK, SkipExisting, lockVars, tableVars
<1>2. \A n \in Message \ {m} : SameHandler(n)
  BY DEF SkipExisting, SameHandler, TypeOK
<1>3. pc[m] \notin InTransaction /\ pc'[m] = "next"
  BY DEF SkipExisting, InTransaction
<1>4. UNCHANGED <<lockVars, ledger, stock>>
  BY DEF SkipExisting, tableVars
<1>5. QED
  BY <1>1, <1>2, <1>3, <1>4, StepOutsideTransaction

LEMMA BeginTransactionInductive ==
    ASSUME Inductive, NEW m \in Message, BeginTransaction(m) PROVE Inductive'
<1> USE DEF Inductive
<1>1. TypeOK'
  BY DEF TypeOK, BeginTransaction, Goto, lockVars, tableVars, Running, InTransaction
<1>2. \A n \in Message \ {m} : SameHandler(n)
  BY DEF BeginTransaction, Goto, SameHandler, TypeOK
<1>3. /\ pc[m] \notin InTransaction
      /\ pc'[m] \in {"check", "failing"}
      /\ pos'[m] = 1
      /\ HasNext(m)'
  BY DEF BeginTransaction, Goto, TypeOK, InTransaction, HasNext
<1>4. UNCHANGED <<lockVars, ledger, stock>>
  BY DEF BeginTransaction, tableVars
<1>5. (Lines(m) # <<>>)' /\ Lines(m)' \in Seq(Line)
  <2>1. Batch[m] \in Seq(Sale)
    BY SalesAssumption
  <2>2. idx'[m] \in 1 .. Len(Batch[m])
    BY <1>1, <1>3, <2>1 DEF TypeOK, HasNext
  <2>3. Current(m)' \in Sale
    BY <2>1, <2>2, ElementOfSeq DEF Current
  <2>4. QED
    BY <2>3, SalesAssumption DEF Lines
<1>6. QED
  BY <1>1, <1>2, <1>3, <1>4, <1>5, StepOutsideTransaction

LEMMA HandleFailureInductive ==
    ASSUME Inductive, NEW m \in Message, HandleFailure(m) PROVE Inductive'
<1> USE DEF Inductive
<1>1. TypeOK'
  <2>1. pc[m] = "failing"
    BY DEF HandleFailure
  <2>2. Current(m) \in Sale
    BY <2>1, CurrentTyped
  <2>3. failed' = failed \cup {Current(m)} \/ failed' = failed
    BY DEF HandleFailure
  <2>4. failed' \subseteq Sale
    BY <2>2, <2>3 DEF TypeOK
  <2>5. /\ pc' \in [Message -> Running \cup {"queued", "acked"}]
        /\ idx' \in [Message -> Nat \ {0}]
    <3>1. pc' = [pc EXCEPT ![m] = "next"] /\ idx' = [idx EXCEPT ![m] = @ + 1]
      BY DEF HandleFailure, Goto
    <3>2. QED
      BY <3>1 DEF TypeOK, Running
  <2>6. UNCHANGED <<pos, conflict, taken, lock, shared, reserved,
                    ledger, stock, active, systemUser, crashes>>
    BY DEF HandleFailure, lockVars
  <2>7. QED
    BY <2>4, <2>5, <2>6 DEF TypeOK
<1>2. \A n \in Message \ {m} : SameHandler(n)
  BY DEF HandleFailure, Goto, SameHandler, TypeOK
<1>3. pc[m] \notin InTransaction /\ pc'[m] = "next"
  BY DEF HandleFailure, Goto, TypeOK, InTransaction
<1>4. UNCHANGED <<lockVars, ledger, stock>>
  BY DEF HandleFailure
<1>5. QED
  BY <1>1, <1>2, <1>3, <1>4, StepOutsideTransaction

LEMMA AckInductive ==
    ASSUME Inductive, NEW m \in Message, Ack(m) PROVE Inductive'
<1> USE DEF Inductive
<1>1. TypeOK'
  BY DEF TypeOK, Ack, Goto, lockVars, tableVars, Running
<1>2. \A n \in Message \ {m} : SameHandler(n)
  BY DEF Ack, Goto, SameHandler, TypeOK
<1>3. pc[m] \notin InTransaction /\ pc'[m] = "acked"
  BY DEF Ack, Goto, TypeOK, InTransaction
<1>4. UNCHANGED <<lockVars, ledger, stock>>
  BY DEF Ack, tableVars
<1>5. QED
  BY <1>1, <1>2, <1>3, <1>4, StepOutsideTransaction

-----------------------------------------------------------------------------
(* The steps of an open transaction. *)

LEMMA LabelTyped ==
    ASSUME TypeOK, NEW m \in Message, NEW label \in Running,
           pc' = pc \/ pc' = [pc EXCEPT ![m] = label]
    PROVE  pc' \in [Message -> Running \cup {"queued", "acked"}]
BY DEF TypeOK

LEMMA PositionTyped ==
    ASSUME TypeOK, NEW m \in Message,
           \/ pos' = [pos EXCEPT ![m] = pos[m] + 1]
           \/ pos' = [pos EXCEPT ![m] = 1]
    PROVE  pos' \in [Message -> Nat \ {0}]
<1>1. pos \in [Message -> Nat \ {0}] /\ pos[m] + 1 \in Nat \ {0}
  BY DEF TypeOK
<1>2. CASE pos' = [pos EXCEPT ![m] = pos[m] + 1]
  BY <1>1, <1>2
<1>3. CASE pos' = [pos EXCEPT ![m] = 1]
  BY <1>1, <1>3
<1>4. QED
  BY <1>2, <1>3

LEMMA NextLineEffect ==
    ASSUME TypeOK, InBatch, NEW m \in Message, pc[m] \in InTransaction,
           NEW label, NextLine(m, label)
    PROVE  \/ /\ pos[m] < Len(Lines(m))
              /\ pos' = [pos EXCEPT ![m] = pos[m] + 1]
              /\ pc' = pc
           \/ /\ pos[m] = Len(Lines(m))
              /\ pos' = [pos EXCEPT ![m] = 1]
              /\ pc' = [pc EXCEPT ![m] = label]
<1>1. pos[m] \in 1 .. Len(Lines(m)) /\ Len(Lines(m)) \in Nat
  BY HereTyped, CurrentTyped
<1>2. QED
  BY <1>1 DEF NextLine, Goto

(* A step before the deduction: it may take free locks and a free index entry,
   and has to show that the lines it relies on from now on are backed. *)
LEMMA StepBeforeDeduction ==
    ASSUME Inductive, TypeOK', NEW m \in Message,
           pc[m] \in {"check", "header", "details"},
           pc'[m] \in InTransaction,
           pc[m] = "details" => pc'[m] \in {"details", "deduct", "commit"},
           UNCHANGED <<idx, taken, ledger, stock>>,
           pos'[m] <= Len(Lines(m)),
           \A n \in Message \ {m} : SameHandler(n),
           \A p \in Product :
              lock'[p] = lock[p] \/ (lock[p] \in {m, None} /\ lock'[p] = m),
           \A u \in Uuid :
              \/ reserved'[u] = reserved[u]
              \/ /\ reserved[u] \in {m, None} /\ reserved'[u] = m
                 /\ pc'[m] = "details" /\ u = UuidOf[Current(m)]
                 /\ ~UniqueViolation(Current(m)),
           pc'[m] \in {"details", "deduct", "commit"} =>
              reserved'[UuidOf[Current(m)]] = m,
           \A k \in ToBeDeducted(m)' : k \in ToBeDeducted(m) \/ Backed(m, k)'
    PROVE  Inductive'
<1> USE DEF Inductive
<1>1. Current(m)' = Current(m) /\ Lines(m)' = Lines(m) /\ HasNext(m)' = HasNext(m)
  BY DEF Current, Lines, HasNext
<1>2. None \notin Message
  BY DatabaseAssumption
<1>3. pc[m] \in InTransaction /\ pc[m] \notin {"deduct", "commit"}
  BY DEF InTransaction
<1>4. InBatch'
  <2>1. ASSUME NEW n \in Message
        PROVE  /\ pc'[n] \in InTransaction \cup {"failing"} => HasNext(n)'
               /\ pc'[n] \in InTransaction => pos'[n] <= Len(Lines(n))'
    <3>1. CASE n = m
      BY <3>1, <1>1, <1>3 DEF InBatch
    <3>2. CASE n # m
      BY <3>2, SameHandlerFrame DEF InBatch, SameHandler
    <3>3. QED
      BY <3>1, <3>2
  <2>2. QED
    BY <2>1 DEF InBatch
<1>5. HeldInTransaction'
  <2>1. ASSUME NEW p \in Product, lock'[p] # None
        PROVE  pc'[lock'[p]] \in InTransaction
    <3>1. CASE lock'[p] = m
      BY <3>1
    <3>2. CASE lock'[p] # m
      <4>1. lock'[p] = lock[p] /\ lock[p] \in Message \ {m}
        BY <2>1, <3>2 DEF TypeOK
      <4>2. QED
        BY <2>1, <4>1 DEF HeldInTransaction, SameHandler
    <3>3. QED
      BY <3>1, <3>2
  <2>2. ASSUME NEW n \in Message, pc'[n] \notin {"deduct", "commit"}
        PROVE  taken'[n] = Nothing
    BY <2>2, <1>3 DEF HeldInTransaction, SameHandler
  <2>3. QED
    BY <2>1, <2>2 DEF HeldInTransaction, Nothing
<1>6. ASSUME NEW n \in Message, NEW k, Backed(n, k),
             Lines(n)[k].product \in Product, Lines(n)' = Lines(n)
      PROVE  Backed(n, k)'
  BY <1>2, <1>6 DEF Backed
<1>7. CheckedIsBacked'
  <2>1. ASSUME NEW n \in Message, NEW k \in ToBeDeducted(n)'
        PROVE  Backed(n, k)'
    <3>1. ASSUME k \in ToBeDeducted(n), Lines(n)' = Lines(n)
          PROVE  Backed(n, k)'
      <4>1. Backed(n, k)
        BY <3>1 DEF CheckedIsBacked
      <4>2. pc[n] \in InTransaction /\ k \in 1 .. Len(Lines(n))
        BY <3>1, CurrentTyped DEF ToBeDeducted, InTransaction, InBatch, TypeOK
      <4>3. Lines(n)[k].product \in Product
        BY <4>2, LineTyped
      <4>4. QED
        BY <3>1, <4>1, <4>3, <1>6
    <3>2. CASE n = m
      BY <2>1, <3>1, <3>2, <1>1
    <3>3. CASE n # m
      BY <2>1, <3>1, <3>3, SameHandlerFrame
    <3>4. QED
      BY <3>2, <3>3
  <2>2. QED
    BY <2>1 DEF CheckedIsBacked
<1>8. TakenIsLocked'
  <2>1. ASSUME NEW n \in Message, NEW p \in Product, taken'[n][p] > 0
        PROVE  lock'[p] = n /\ taken'[n][p] <= stock'[p]
    <3>1. lock[p] = n /\ taken[n][p] <= stock[p]
      BY <2>1 DEF TakenIsLocked
    <3>2. QED
      BY <3>1, <1>2
  <2>2. QED
    BY <2>1 DEF TakenIsLocked
<1>9. ReservedIsFresh'
  <2>1. ASSUME NEW n \in Message, pc'[n] \in {"details", "deduct", "commit"}
        PROVE  reserved'[UuidOf[Current(n)']] = n
    <3>1. CASE n = m
      BY <2>1, <3>1, <1>1
    <3>2. CASE n # m
      <4>1. Current(n)' = Current(n) /\ pc[n] = pc'[n]
        BY <3>2, SameHandlerFrame DEF SameHandler
      <4>2. UuidOf[Current(n)] \in Uuid
        BY <2>1, <4>1, CurrentTyped DEF InTransaction
      <4>3. reserved[UuidOf[Current(n)]] = n
        BY <2>1, <4>1 DEF ReservedIsFresh
      <4>4. QED
        BY <3>2, <4>1, <4>2, <4>3, <1>2
    <3>3. QED
      BY <3>1, <3>2
  <2>2. ASSUME NEW u \in Uuid, reserved'[u] # None
        PROVE  /\ pc'[reserved'[u]] \in {"details", "deduct", "commit"}
               /\ UuidOf[Current(reserved[u])'] = u
               /\ \A r \in Rows' : UuidOf[r.sale] # u
    <3>1. Rows' = Rows
      BY DEF Rows
    <3>2. CASE reserved'[u] = reserved[u]
      <4>1. /\ pc[reserved[u]] \in {"details", "deduct", "commit"}
            /\ UuidOf[Current(reserved[u])] = u
            /\ \A r \in Rows : UuidOf[r.sale] # u
            /\ reserved[u] \in Message
        BY <2>2, <3>2 DEF ReservedIsFresh, TypeOK
      <4>2. CASE reserved[u] = m
        BY <4>1, <4>2, <3>1, <3>2, <1>1 DEF Current
      <4>3. CASE reserved[u] # m
        <5>1. SameHandler(reserved[u])
          BY <4>1, <4>3
        <5>2. QED
          BY <5>1, <4>1, <3>1, <3>2, SameHandlerFrame DEF SameHandler
      <4>4. QED
        BY <4>2, <4>3
    <3>3. CASE reserved'[u] # reserved[u]
      BY <3>1, <3>3, <1>1 DEF UniqueViolation, Current
    <3>4. QED
      BY <3>2, <3>3
  <2>3. QED
    BY <2>1, <2>2 DEF ReservedIsFresh
<1>10. NoOversell' /\ OneRowPerUuid'
  BY DEF NoOversell, OneRowPerUuid
<1>11. QED
  BY <1>4, <1>5, <1>7, <1>8, <1>9, <1>10

LEMMA CheckStockInductive ==
    ASSUME Inductive, NEW m \in Message, CheckStock(m) PROVE Inductive'
<1> USE DEF Inductive
<1> DEFINE p == Here(m).product
<1>1. pc[m] = "check" /\ pc[m] \in InTransaction
  BY DEF CheckStock, InTransaction
<1>2. /\ pos[m] \in 1 .. Len(Lines(m))
      /\ p \in Product
      /\ Here(m).quantity \in Nat \ {0}
      /\ Len(Lines(m)) \in Nat \ {0}
  BY <1>1, HereTyped, CurrentTyped
<1>3. \/ /\ Covered(m)
         /\ pos[m] < Len(Lines(m))
         /\ pos' = [pos EXCEPT ![m] = pos[m] + 1]
         /\ pc' = pc
      \/ /\ Covered(m)
         /\ pos[m] = Len(Lines(m))
         /\ pos' = [pos EXCEPT ![m] = 1]
         /\ pc' = [pc EXCEPT ![m] = "header"]
      \/ /\ ~Covered(m)
         /\ pos' = [pos EXCEPT ![m] = 1]
         /\ pc' = [pc EXCEPT ![m] = "header"]
  <2>1. CASE Covered(m)
    <3>1. NextLine(m, "header")
      BY <2>1 DEF CheckStock
    <3>2. QED
      BY <2>1, <3>1, <1>1, NextLineEffect
  <2>2. CASE ~Covered(m)
    BY <2>2 DEF CheckStock, Goto
  <2>3. QED
    BY <2>1, <2>2
<1>4. /\ conflict' = [conflict EXCEPT ![m] = ~Covered(m)]
      /\ lock' = IF p \in Catalog THEN [lock EXCEPT ![p] = m] ELSE lock
      /\ UNCHANGED <<idx, taken, shared, reserved,
                      ledger, stock, active, failed, systemUser, crashes>>
  BY DEF CheckStock, tableVars
<1>5. TypeOK'
  <2>1. pc' \in [Message -> Running \cup {"queued", "acked"}]
    BY <1>3 DEF TypeOK, Running, InTransaction
  <2>2. pos' \in [Message -> Nat \ {0}]
    BY <1>3, PositionTyped
  <2>3. lock' \in [Product -> Message \cup {None}]
    BY <1>2, <1>4 DEF TypeOK
  <2>4. conflict' \in [Message -> BOOLEAN]
    BY <1>4 DEF TypeOK
  <2>5. QED
    BY <1>4, <2>1, <2>2, <2>3, <2>4 DEF TypeOK
<1>6. \A n \in Message \ {m} : SameHandler(n)
  BY <1>3, <1>4 DEF SameHandler, TypeOK
<1>7. /\ pc'[m] \in {"check", "header"}
      /\ pos'[m] \in 1 .. Len(Lines(m))
  BY <1>1, <1>2, <1>3 DEF TypeOK
<1>8. \A q \in Product :
          lock'[q] = lock[q] \/ (lock[q] \in {m, None} /\ lock'[q] = m)
  <2>1. p \in Catalog => lock[p] \in {m, None}
    BY <1>1 DEF CheckStock, Blockers, ExclusiveBlockers
  <2>2. QED
    BY <2>1, <1>2, <1>4 DEF TypeOK
<1>9. ASSUME NEW k \in ToBeDeducted(m)'
      PROVE  k \in ToBeDeducted(m) \/ Backed(m, k)'
  <2>1. Lines(m)' = Lines(m)
    BY <1>4 DEF Lines, Current
  <2>2. ToBeDeducted(m) = 1 .. pos[m] - 1
    BY <1>1 DEF ToBeDeducted
  <2>3. Covered(m)
    <3>1. CASE ~Covered(m)
      <4>1. pc'[m] = "header" /\ conflict'[m] = TRUE
        BY <3>1, <1>3, <1>4 DEF TypeOK
      <4>2. ToBeDeducted(m)' = {}
        BY <4>1 DEF ToBeDeducted
      <4>3. QED
        BY <4>2, <1>9
    <3>2. QED
      BY <3>1
  <2>4. k \in 1 .. pos[m]
    <3>1. CASE pos[m] < Len(Lines(m)) /\ pc' = pc /\ pos' = [pos EXCEPT ![m] = pos[m] + 1]
      <4>1. pc'[m] = "check" /\ pos'[m] = pos[m] + 1
        BY <3>1, <1>1 DEF TypeOK
      <4>2. ToBeDeducted(m)' = 1 .. (pos[m] + 1) - 1
        BY <4>1 DEF ToBeDeducted
      <4>3. QED
        BY <4>2, <1>2
    <3>2. CASE pos[m] = Len(Lines(m)) /\ pc' = [pc EXCEPT ![m] = "header"]
      <4>1. pc'[m] = "header" /\ conflict'[m] = FALSE
        BY <3>2, <2>3, <1>4 DEF TypeOK
      <4>2. ToBeDeducted(m)' = 1 .. Len(Lines(m))
        BY <4>1, <2>1 DEF ToBeDeducted
      <4>3. QED
        BY <4>2, <3>2
    <3>3. QED
      BY <3>1, <3>2, <2>3, <1>3
  <2>5. CASE k = pos[m]
    <3>1. Lines(m)[k] = Here(m)
      BY <2>5 DEF Here
    <3>2. p \in Catalog /\ stock[p] >= Here(m).quantity
      BY <2>3 DEF Covered, TypeOK
    <3>3. taken[m][p] = 0
      <4>1. taken[m] = Nothing
        BY <1>1 DEF HeldInTransaction
      <4>2. QED
        BY <4>1, <1>2, NothingTyped
    <3>4. lock'[p] = m
      BY <3>2, <1>2, <1>4 DEF TypeOK
    <3>5. stock[p] \in Int
      BY <1>2 DEF TypeOK
    <3>6. taken[m][p] + Here(m).quantity <= stock[p]
      BY <3>2, <3>3, <3>5, <1>2
    <3>7. QED
      BY <3>1, <3>4, <3>6, <2>1, <1>4 DEF Backed
  <2>6. CASE k # pos[m]
    BY <2>2, <2>4, <2>6, <1>2
  <2>7. QED
    BY <2>5, <2>6
<1>10. pc'[m] \in InTransaction
  BY <1>7 DEF InTransaction
<1>11. pos'[m] <= Len(Lines(m))
  BY <1>2, <1>7
<1>12. QED
  BY <1>1, <1>4, <1>5, <1>6, <1>7, <1>8, <1>9, <1>10, <1>11, StepBeforeDeduction

LEMMA CreateTransactionHeaderInductive ==
    ASSUME Inductive, NEW m \in Message, CreateTransactionHeader(m)
    PROVE  Inductive'
<1> USE DEF Inductive
<1>1. pc[m] = "header" /\ pc[m] \in InTransaction
  BY DEF CreateTransactionHeader, InTransaction
<1>2. /\ pos[m] \in 1 .. Len(Lines(m))
      /\ UuidOf[Current(m)] \in Uuid
      /\ Len(Lines(m)) \in Nat
  BY <1>1, HereTyped, CurrentTyped
<1>3. /\ pc' = [pc EXCEPT ![m] = "details"]
      /\ reserved' = [reserved EXCEPT ![UuidOf[Current(m)]] = m]
      /\ UNCHANGED <<idx, pos, conflict, taken, lock, shared,
                      ledger, stock, active, failed, systemUser, crashes>>
  BY DEF CreateTransactionHeader, Goto, tableVars
<1>4. TypeOK'
  BY <1>2, <1>3 DEF TypeOK, Running, InTransaction
<1>5. \A n \in Message \ {m} : SameHandler(n)
  BY <1>3 DEF SameHandler, TypeOK
<1>6. pc'[m] = "details" /\ pc'[m] \in InTransaction
  BY <1>3 DEF TypeOK, InTransaction
<1>7. \A u \in Uuid :
          \/ reserved'[u] = reserved[u]
          \/ /\ reserved[u] \in {m, None} /\ reserved'[u] = m
             /\ pc'[m] = "details" /\ u = UuidOf[Current(m)]
             /\ ~UniqueViolation(Current(m))
  <2>1. reserved[UuidOf[Current(m)]] \in {m, None} /\ ~UniqueViolation(Current(m))
    BY <1>1 DEF CreateTransactionHeader, Blockers, IndexBlockers
  <2>2. QED
    BY <2>1, <1>2, <1>3, <1>6 DEF TypeOK
<1>8. reserved'[UuidOf[Current(m)]] = m
  BY <1>2, <1>3 DEF TypeOK
<1>9. ToBeDeducted(m)' = ToBeDeducted(m)
  BY <1>1, <1>3, <1>6 DEF ToBeDeducted, Lines, Current
<1>10. pos'[m] <= Len(Lines(m))
  BY <1>2, <1>3
<1>11. QED
  BY <1>1, <1>3, <1>4, <1>5, <1>6, <1>7, <1>8, <1>9, <1>10, StepBeforeDeduction

LEMMA CreateTransactionDetailsInductive ==
    ASSUME Inductive, NEW m \in Message, CreateTransactionDetails(m)
    PROVE  Inductive'
<1> USE DEF Inductive
<1> DEFINE after == IF conflict[m] THEN "commit" ELSE "deduct"
<1>1. pc[m] = "details" /\ pc[m] \in InTransaction
  BY DEF CreateTransactionDetails, InTransaction
<1>2. /\ pos[m] \in 1 .. Len(Lines(m))
      /\ UuidOf[Current(m)] \in Uuid
      /\ Len(Lines(m)) \in Nat \ {0}
      /\ Here(m).product \in Product
  BY <1>1, HereTyped, CurrentTyped
<1>3. /\ NextLine(m, after)
      /\ shared' = [shared EXCEPT ![Here(m).product] = @ \cup {m}]
      /\ UNCHANGED <<idx, conflict, taken, lock, reserved,
                      ledger, stock, active, failed, systemUser, crashes>>
  BY DEF CreateTransactionDetails, tableVars
<1>4. \/ /\ pos[m] < Len(Lines(m))
         /\ pos' = [pos EXCEPT ![m] = pos[m] + 1]
         /\ pc' = pc
      \/ /\ pos[m] = Len(Lines(m))
         /\ pos' = [pos EXCEPT ![m] = 1]
         /\ pc' = [pc EXCEPT ![m] = after]
  BY <1>1, <1>3, NextLineEffect
<1>5. TypeOK'
  <2>1. pc' \in [Message -> Running \cup {"queued", "acked"}]
    <3>1. after \in Running
      BY DEF Running, InTransaction
    <3>2. QED
      BY <1>4, <3>1, LabelTyped
  <2>2. pos' \in [Message -> Nat \ {0}]
    BY <1>4, PositionTyped
  <2>3. shared' \in [Product -> SUBSET Message]
    BY <1>2, <1>3 DEF TypeOK
  <2>4. QED
    BY <1>3, <2>1, <2>2, <2>3 DEF TypeOK
<1>6. \A n \in Message \ {m} : SameHandler(n)
  BY <1>3, <1>4 DEF SameHandler, TypeOK
<1>7. /\ pc'[m] \in {"details", "deduct", "commit"}
      /\ pc'[m] \in InTransaction
      /\ pos'[m] \in 1 .. Len(Lines(m))
  BY <1>1, <1>2, <1>4 DEF TypeOK, InTransaction
<1>8. reserved'[UuidOf[Current(m)]] = m
  BY <1>1, <1>3 DEF ReservedIsFresh
<1>9. ASSUME NEW k \in ToBeDeducted(m)'
      PROVE  k \in ToBeDeducted(m)
  <2>1. Lines(m)' = Lines(m)
    BY <1>3 DEF Lines, Current
  <2>2. CASE pc' = pc
    BY <1>1, <1>3, <2>1, <2>2, <1>9 DEF ToBeDeducted
  <2>3. CASE pos' = [pos EXCEPT ![m] = 1] /\ pc' = [pc EXCEPT ![m] = after]
    <3>1. pos'[m] = 1 /\ pc'[m] = after
      BY <2>3 DEF TypeOK
    <3>2. CASE conflict[m]
      <4>1. pc'[m] = "commit"
        BY <3>1, <3>2
      <4>2. QED
        BY <4>1, <1>9 DEF ToBeDeducted
    <3>3. CASE ~conflict[m]
      <4>1. pc'[m] = "deduct"
        BY <3>1, <3>3
      <4>2. ToBeDeducted(m)' = 1 .. Len(Lines(m))
        BY <4>1, <3>1, <2>1 DEF ToBeDeducted
      <4>3. ToBeDeducted(m) = 1 .. Len(Lines(m))
        BY <1>1, <3>3 DEF ToBeDeducted
      <4>4. QED
        BY <4>2, <4>3, <1>9
    <3>4. QED
      BY <3>2, <3>3
  <2>4. QED
    BY <2>2, <2>3, <1>4
<1>10. pos'[m] <= Len(Lines(m))
  BY <1>2, <1>7
<1>11. \A p \in Product : lock'[p] = lock[p]
  BY <1>3
<1>12. \A u \in Uuid : reserved'[u] = reserved[u]
  BY <1>3
<1>13. QED
  BY <1>1, <1>3, <1>5, <1>6, <1>7, <1>8, <1>9, <1>10, <1>11, <1>12,
     StepBeforeDeduction

LEMMA DeductInventoryInductive ==
    ASSUME DistinctLines, Inductive, NEW m \in Message, DeductInventory(m)
    PROVE  Inductive'
<1> USE DEF Inductive
<1> DEFINE p == Here(m).product
<1> DEFINE q == Here(m).quantity
<1>1. pc[m] = "deduct" /\ pc[m] \in InTransaction
  BY DEF DeductInventory, InTransaction
<1>2. /\ pos[m] \in 1 .. Len(Lines(m))
      /\ Current(m) \in Sale
      /\ Len(Lines(m)) \in Nat \ {0}
      /\ DOMAIN Lines(m) = 1 .. Len(Lines(m))
      /\ p \in Product
      /\ q \in Nat \ {0}
  BY <1>1, HereTyped, CurrentTyped
<1>3. /\ NextLine(m, "commit")
      /\ taken' = [taken EXCEPT ![m][p] = @ + q]
      /\ UNCHANGED <<idx, conflict, lock, shared, reserved,
                      ledger, stock, active, failed, systemUser, crashes>>
  BY DEF DeductInventory, tableVars
<1>4. \/ /\ pos[m] < Len(Lines(m))
         /\ pos' = [pos EXCEPT ![m] = pos[m] + 1]
         /\ pc' = pc
      \/ /\ pos[m] = Len(Lines(m))
         /\ pos' = [pos EXCEPT ![m] = 1]
         /\ pc' = [pc EXCEPT ![m] = "commit"]
  BY <1>1, <1>3, NextLineEffect
<1>5. /\ taken' \in [Message -> [Product -> Nat]]
      /\ taken'[m][p] = taken[m][p] + q
      /\ \A o \in Product \ {p} : taken'[m][o] = taken[m][o]
      /\ \A n \in Message \ {m} : taken'[n] = taken[n]
  BY <1>2, <1>3 DEF TypeOK
<1>6. TypeOK'
  <2>1. pc' \in [Message -> Running \cup {"queued", "acked"}]
    <3>1. "commit" \in Running
      BY DEF Running, InTransaction
    <3>2. QED
      BY <1>4, <3>1, LabelTyped
  <2>2. pos' \in [Message -> Nat \ {0}]
    BY <1>4, PositionTyped
  <2>3. QED
    BY <1>3, <1>5, <2>1, <2>2 DEF TypeOK
<1>7. \A n \in Message \ {m} : SameHandler(n)
  BY <1>3, <1>4 DEF SameHandler, TypeOK
<1>8. /\ pc'[m] \in {"deduct", "commit"}
      /\ pos'[m] \in 1 .. Len(Lines(m))
  BY <1>1, <1>2, <1>4 DEF TypeOK
<1>9. Current(m)' = Current(m) /\ Lines(m)' = Lines(m) /\ HasNext(m)' = HasNext(m)
  BY <1>3 DEF Current, Lines, HasNext
<1>10. Backed(m, pos[m])
  <2>1. pos[m] \in ToBeDeducted(m)
    BY <1>1, <1>2 DEF ToBeDeducted
  <2>2. QED
    BY <2>1 DEF CheckedIsBacked
<1>11. lock[p] = m /\ taken[m][p] + q <= stock[p]
  BY <1>10 DEF Backed, Here
<1>12. InBatch'
  <2>1. ASSUME NEW n \in Message
        PROVE  /\ pc'[n] \in InTransaction \cup {"failing"} => HasNext(n)'
               /\ pc'[n] \in InTransaction => pos'[n] <= Len(Lines(n))'
    <3>1. CASE n = m
      BY <3>1, <1>1, <1>2, <1>8, <1>9 DEF InBatch
    <3>2. CASE n # m
      BY <3>2, <1>7, SameHandlerFrame DEF InBatch, SameHandler
    <3>3. QED
      BY <3>1, <3>2
  <2>2. QED
    BY <2>1 DEF InBatch
<1>13. HeldInTransaction'
  <2>1. ASSUME NEW o \in Product, lock'[o] # None
        PROVE  pc'[lock'[o]] \in InTransaction
    <3>1. lock'[o] = lock[o] /\ lock[o] \in Message
      BY <2>1, <1>3 DEF TypeOK
    <3>2. CASE lock[o] = m
      BY <3>1, <3>2, <1>8 DEF InTransaction
    <3>3. CASE lock[o] # m
      BY <2>1, <3>1, <3>3, <1>7 DEF HeldInTransaction, SameHandler
    <3>4. QED
      BY <3>2, <3>3
  <2>2. ASSUME NEW n \in Message, pc'[n] \notin {"deduct", "commit"}
        PROVE  taken'[n] = Nothing
    BY <2>2, <1>5, <1>7, <1>8 DEF HeldInTransaction, SameHandler
  <2>3. QED
    BY <2>1, <2>2 DEF HeldInTransaction, Nothing
<1>14. CheckedIsBacked'
  <2>1. ASSUME NEW n \in Message, NEW k \in ToBeDeducted(n)'
        PROVE  Backed(n, k)'
    <3>1. CASE n = m
      <4>1. k \in pos[m] + 1 .. Len(Lines(m))
        <5>1. CASE pc' = pc /\ pos' = [pos EXCEPT ![m] = pos[m] + 1]
          <6>1. pc'[m] = "deduct" /\ pos'[m] = pos[m] + 1
            BY <5>1, <1>1 DEF TypeOK
          <6>2. QED
            BY <2>1, <3>1, <6>1, <1>9 DEF ToBeDeducted
        <5>2. CASE pc' = [pc EXCEPT ![m] = "commit"]
          <6>1. pc'[m] = "commit"
            BY <5>2 DEF TypeOK
          <6>2. QED
            BY <2>1, <3>1, <6>1 DEF ToBeDeducted
        <5>3. QED
          BY <5>1, <5>2, <1>4
      <4>2. k \in 1 .. Len(Lines(m)) /\ k # pos[m] /\ k \in pos[m] .. Len(Lines(m))
        BY <4>1, <1>2
      <4>3. Backed(m, k)
        BY <4>2, <1>1 DEF CheckedIsBacked, ToBeDeducted
      <4>4. Lines(m)[k].product # p
        BY <4>2, <1>2 DEF DistinctLines, Lines, Here
      <4>5. Lines(m)[k].product \in Product
        BY <4>2, <1>1, LineTyped
      <4>6. QED
        BY <3>1, <4>3, <4>4, <4>5, <1>3, <1>5, <1>9 DEF Backed
    <3>2. CASE n # m
      <4>1. k \in ToBeDeducted(n) /\ Lines(n)' = Lines(n)
        BY <2>1, <3>2, <1>7, SameHandlerFrame
      <4>2. Backed(n, k)
        BY <4>1 DEF CheckedIsBacked
      <4>3. QED
        BY <3>2, <4>1, <4>2, <1>3, <1>5 DEF Backed
    <3>3. QED
      BY <3>1, <3>2
  <2>2. QED
    BY <2>1 DEF CheckedIsBacked
<1>15. TakenIsLocked'
  <2>1. ASSUME NEW n \in Message, NEW o \in Product, taken'[n][o] > 0
        PROVE  lock'[o] = n /\ taken'[n][o] <= stock'[o]
    <3>1. CASE n = m /\ o = p
      BY <3>1, <1>3, <1>5, <1>11
    <3>2. CASE ~(n = m /\ o = p)
      <4>1. taken'[n][o] = taken[n][o]
        BY <3>2, <1>5
      <4>2. QED
        BY <2>1, <4>1, <1>3 DEF TakenIsLocked
    <3>3. QED
      BY <3>1, <3>2
  <2>2. QED
    BY <2>1 DEF TakenIsLocked
<1>16. ReservedIsFresh'
  <2>1. ASSUME NEW n \in Message, pc'[n] \in {"details", "deduct", "commit"}
        PROVE  reserved'[UuidOf[Current(n)']] = n
    <3>1. CASE n = m
      BY <3>1, <1>1, <1>3, <1>9 DEF ReservedIsFresh
    <3>2. CASE n # m
      BY <2>1, <3>2, <1>3, <1>7, SameHandlerFrame DEF ReservedIsFresh, SameHandler
    <3>3. QED
      BY <3>1, <3>2
  <2>2. ASSUME NEW u \in Uuid, reserved'[u] # None
        PROVE  /\ pc'[reserved'[u]] \in {"details", "deduct", "commit"}
               /\ UuidOf[Current(reserved[u])'] = u
               /\ \A r \in Rows' : UuidOf[r.sale] # u
    <3>1. Rows' = Rows
      BY <1>3 DEF Rows
    <3>2. /\ reserved'[u] = reserved[u]
          /\ reserved[u] \in Message
          /\ pc[reserved[u]] \in {"details", "deduct", "commit"}
          /\ UuidOf[Current(reserved[u])] = u
          /\ \A r \in Rows' : UuidOf[r.sale] # u
      BY <2>2, <3>1, <1>3 DEF ReservedIsFresh, TypeOK
    <3>3. CASE reserved[u] = m
      BY <3>2, <3>3, <1>3, <1>8 DEF Current
    <3>4. CASE reserved[u] # m
      <4>1. SameHandler(reserved[u])
        BY <3>2, <3>4, <1>7
      <4>2. QED
        BY <4>1, <3>2, SameHandlerFrame DEF SameHandler
    <3>5. QED
      BY <3>3, <3>4
  <2>3. QED
    BY <2>1, <2>2 DEF ReservedIsFresh
<1>17. NoOversell' /\ OneRowPerUuid'
  BY <1>3 DEF NoOversell, OneRowPerUuid
<1>18. QED
  BY <1>6, <1>12, <1>13, <1>14, <1>15, <1>16, <1>17

(* The commit turns the index entry of the sale into the only row of its uuid. *)
LEMMA CommitRecords ==
    ASSUME reserved \in [Uuid -> Message \cup {None}], ledger \in Seq(Row),
           pc \in [Message -> Running \cup {"queued", "acked"}], DOMAIN idx = Message,
           \A n \in Message : pc[n] \in InTransaction => Current(n) \in Sale,
           ReservedIsFresh, OneRowPerUuid, NEW m \in Message, Commit(m)
    PROVE  ReservedIsFresh' /\ OneRowPerUuid'
<1> DEFINE row == [sale |-> Current(m),
                   status |-> IF conflict[m] THEN "PENDING" ELSE "CONFIRMED"]
<1>1. pc[m] = "commit" /\ pc[m] \in InTransaction
  BY DEF Commit, InTransaction
<1>2. Current(m) \in Sale /\ UuidOf[Current(m)] \in Uuid
  BY <1>1, SalesAssumption
<1>3. row \in Row
  BY <1>2 DEF Row
<1>4. ledger' = Append(ledger, row)
  BY DEF Commit
<1>5. ASSUME NEW u \in Uuid
      PROVE  reserved'[u] = IF reserved[u] = m THEN None ELSE reserved[u]
  BY DEF Commit, Release
<1>6. ASSUME NEW n \in Message \ {m}
      PROVE  pc'[n] = pc[n] /\ Current(n)' = Current(n)
  BY DEF Commit, Goto, Current
<1>7. pc'[m] = "next"
  BY DEF Commit, Goto
<1>8. Rows' = Rows \cup {row}
  <2>1. ledger \in Seq(Row)
    OBVIOUS
  <2>2. QED
    BY <2>1, <1>3, <1>4, AppendProperties DEF Rows
<1>9. \A r \in Rows : UuidOf[r.sale] # UuidOf[Current(m)]
  <2>1. reserved[UuidOf[Current(m)]] = m
    BY <1>1 DEF ReservedIsFresh
  <2>2. m # None
    BY DatabaseAssumption
  <2>3. QED
    BY <2>1, <2>2, <1>2 DEF ReservedIsFresh
<1>10. ReservedIsFresh'
  <2>1. ASSUME NEW n \in Message, pc'[n] \in {"details", "deduct", "commit"}
        PROVE  reserved'[UuidOf[Current(n)']] = n
    <3>1. n # m
      BY <2>1, <1>7
    <3>2. Current(n)' = Current(n) /\ pc[n] = pc'[n]
      BY <3>1, <1>6
    <3>3. UuidOf[Current(n)] \in Uuid
      BY <2>1, <3>2, SalesAssumption DEF InTransaction
    <3>4. reserved[UuidOf[Current(n)]] = n
      BY <2>1, <3>2 DEF ReservedIsFresh
    <3>5. QED
      BY <3>1, <3>2, <3>3, <3>4, <1>5
  <2>2. ASSUME NEW u \in Uuid, reserved'[u] # None
        PROVE  /\ pc'[reserved'[u]] \in {"details", "deduct", "commit"}
               /\ UuidOf[Current(reserved[u])'] = u
               /\ reserved'[u] = reserved[u]
               /\ \A r \in Rows' : UuidOf[r.sale] # u
    <3>1. reserved'[u] = reserved[u] /\ reserved[u] \in Message \ {m}
      BY <2>2, <1>5
    <3>2. /\ pc'[reserved[u]] = pc[reserved[u]]
          /\ Current(reserved[u])' = Current(reserved[u])
      BY <3>1, <1>6
    <3>3. reserved[UuidOf[Current(m)]] = m
      BY <1>1 DEF ReservedIsFresh
    <3>4. UuidOf[row.sale] # u
      BY <3>1, <3>3
    <3>5. \A r \in Rows : UuidOf[r.sale] # u
      BY <2>2, <3>1 DEF ReservedIsFresh
    <3>6. \A r \in Rows' : UuidOf[r.sale] # u
      BY <3>4, <3>5, <1>8
    <3>7. QED
      BY <2>2, <3>1, <3>2, <3>6 DEF ReservedIsFresh
  <2>3. QED
    BY <2>1, <2>2 DEF ReservedIsFresh
<1>11. OneRowPerUuid'
  <2>1. ledger \in Seq(Row)
    OBVIOUS
  <2>2. /\ DOMAIN ledger' = 1 .. Len(ledger) + 1
        /\ DOMAIN ledger = 1 .. Len(ledger)
        /\ Len(ledger) \in Nat
        /\ \A i \in 1 .. Len(ledger) : ledger'[i] = ledger[i]
        /\ ledger'[Len(ledger) + 1] = row
    BY <2>1, <1>3, <1>4, AppendProperties
  <2>3. \A i \in 1 .. Len(ledger) : ledger[i] \in Rows
    BY <2>2 DEF Rows
  <2>4. \A i \in 1 .. Len(ledger) :
            UuidOf[ledger'[i].sale] # UuidOf[ledger'[Len(ledger) + 1].sale]
    BY <2>2, <2>3, <1>9
  <2>5. ASSUME NEW i \in DOMAIN ledger', NEW j \in DOMAIN ledger',
               UuidOf[ledger'[i].sale] = UuidOf[ledger'[j].sale]
        PROVE  i = j
    <3>1. CASE i \in 1 .. Len(ledger) /\ j \in 1 .. Len(ledger)
      BY <2>2, <2>5, <3>1 DEF OneRowPerUuid
    <3>2. CASE i = Len(ledger) + 1 \/ j = Len(ledger) + 1
      BY <2>2, <2>4, <2>5, <3>2
    <3>3. QED
      BY <2>2, <3>1, <3>2
  <2>6. QED
    BY <2>5 DEF OneRowPerUuid
<1>12. QED
  BY <1>10, <1>11

LEMMA CommitInductive ==
    ASSUME Inductive, NEW m \in Message, Commit(m) PROVE Inductive'
<1> USE DEF Inductive
<1> DEFINE row == [sale |-> Current(m),
                   status |-> IF conflict[m] THEN "PENDING" ELSE "CONFIRMED"]
<1>1. pc[m] = "commit" /\ pc[m] \in InTransaction
  BY DEF Commit, InTransaction
<1>2. Current(m) \in Sale /\ UuidOf[Current(m)] \in Uuid
  BY <1>1, CurrentTyped
<1>3. row \in Row
  BY <1>2 DEF Row
<1>4. /\ ledger' = Append(ledger, row)
      /\ stock' = [p \in Product |-> stock[p] - taken[m][p]]
      /\ Release({m})
      /\ pc' = [pc EXCEPT ![m] = "next"]
      /\ idx' = [idx EXCEPT ![m] = @ + 1]
      /\ UNCHANGED <<pos, conflict, active, failed, systemUser, crashes>>
  BY DEF Commit, Goto
<1>5. ASSUME NEW p \in Product
      PROVE  /\ lock'[p] = IF lock[p] = m THEN None ELSE lock[p]
             /\ stock'[p] = stock[p] - taken[m][p]
             /\ stock[p] \in Int /\ taken[m][p] \in Nat
  BY <1>4 DEF Release, TypeOK
<1>6. ASSUME NEW n \in Message
      PROVE  taken'[n] = IF n = m THEN Nothing ELSE taken[n]
  BY <1>4 DEF Release
<1>7. ASSUME NEW u \in Uuid
      PROVE  reserved'[u] = IF reserved[u] = m THEN None ELSE reserved[u]
  BY <1>4 DEF Release
<1>8. \A n \in Message \ {m} : SameHandler(n)
  BY <1>4 DEF SameHandler, TypeOK
<1>9. pc'[m] = "next"
  BY <1>4 DEF TypeOK
<1>10. TypeOK'
  <2>1. ledger' \in Seq(Row)
    BY <1>3, <1>4, AppendProperties DEF TypeOK
  <2>2. stock' \in [Product -> Int]
    BY <1>4, <1>5
  <2>3. pc' \in [Message -> Running \cup {"queued", "acked"}]
    BY <1>4 DEF TypeOK, Running
  <2>4. idx' \in [Message -> Nat \ {0}]
    BY <1>4 DEF TypeOK
  <2>5. QED
    BY <1>4, <2>1, <2>2, <2>3, <2>4, ReleaseTyped DEF TypeOK
\* What another handler holds is not m's, so its stock does not move.
<1>11. ASSUME NEW p \in Product, lock[p] # m
       PROVE  stock'[p] = stock[p]
  <2>1. ~(taken[m][p] > 0)
    BY <1>11 DEF TakenIsLocked
  <2>2. QED
    BY <2>1, <1>5
<1>12. InBatch'
  <2>1. ASSUME NEW n \in Message
        PROVE  /\ pc'[n] \in InTransaction \cup {"failing"} => HasNext(n)'
               /\ pc'[n] \in InTransaction => pos'[n] <= Len(Lines(n))'
    <3>1. CASE n = m
      BY <3>1, <1>9 DEF InTransaction
    <3>2. CASE n # m
      BY <3>2, <1>8, SameHandlerFrame DEF InBatch, SameHandler
    <3>3. QED
      BY <3>1, <3>2
  <2>2. QED
    BY <2>1 DEF InBatch
<1>13. HeldInTransaction'
  <2>1. ASSUME NEW p \in Product, lock'[p] # None
        PROVE  pc'[lock'[p]] \in InTransaction
    <3>1. lock'[p] = lock[p] /\ lock[p] \in Message \ {m}
      BY <2>1, <1>5 DEF TypeOK
    <3>2. QED
      BY <2>1, <3>1, <1>8 DEF HeldInTransaction, SameHandler
  <2>2. ASSUME NEW n \in Message, pc'[n] \notin {"deduct", "commit"}
        PROVE  taken'[n] = Nothing
    BY <2>2, <1>6, <1>8 DEF HeldInTransaction, SameHandler
  <2>3. QED
    BY <2>1, <2>2 DEF HeldInTransaction, Nothing
<1>14. CheckedIsBacked'
  <2>1. ASSUME NEW n \in Message, NEW k \in ToBeDeducted(n)'
        PROVE  Backed(n, k)'
    <3>1. n # m
      BY <2>1, <1>9 DEF ToBeDeducted
    <3>2. k \in ToBeDeducted(n) /\ Lines(n)' = Lines(n)
      BY <3>1, <1>8, <2>1, SameHandlerFrame
    <3>3. Backed(n, k)
      BY <3>2 DEF CheckedIsBacked
    <3>4. pc[n] \in InTransaction /\ k \in 1 .. Len(Lines(n))
      BY <3>2, CurrentTyped DEF ToBeDeducted, InTransaction, InBatch, TypeOK
    <3>5. Lines(n)[k].product \in Product
      BY <3>4, LineTyped
    <3>6. lock[Lines(n)[k].product] = n
      BY <3>3 DEF Backed
    <3>7. QED
      BY <3>1, <3>2, <3>3, <3>5, <3>6, <1>5, <1>6, <1>11 DEF Backed
  <2>2. QED
    BY <2>1 DEF CheckedIsBacked
<1>15. TakenIsLocked'
  <2>1. ASSUME NEW n \in Message, NEW p \in Product, taken'[n][p] > 0
        PROVE  lock'[p] = n /\ taken'[n][p] <= stock'[p]
    <3>1. n # m /\ taken'[n] = taken[n]
      BY <2>1, <1>6, NothingTyped
    <3>2. lock[p] = n /\ taken[n][p] <= stock[p]
      BY <2>1, <3>1 DEF TakenIsLocked
    <3>3. QED
      BY <3>1, <3>2, <1>5, <1>11
  <2>2. QED
    BY <2>1 DEF TakenIsLocked
<1>16. ReservedIsFresh' /\ OneRowPerUuid'
  <2>1. \A n \in Message : pc[n] \in InTransaction => Current(n) \in Sale
    BY CurrentTyped
  <2>2. QED
    BY <2>1, CommitRecords DEF TypeOK
<1>17. NoOversell'
  <2>1. ASSUME NEW p \in Product
        PROVE  stock'[p] >= 0
    <3>1. CASE taken[m][p] > 0
      BY <3>1, <1>5 DEF TakenIsLocked
    <3>2. CASE ~(taken[m][p] > 0)
      BY <3>2, <1>5 DEF NoOversell
    <3>3. QED
      BY <3>1, <3>2
  <2>2. QED
    BY <2>1 DEF NoOversell
<1>18. QED
  BY <1>10, <1>12, <1>13, <1>14, <1>15, <1>16, <1>17

LEMMA UpdateProductInductive ==
    ASSUME Inductive, NEW p \in Catalog, RemoveProduct(p) \/ ReactivateProduct(p)
    PROVE  Inductive'
<1> USE DEF Inductive
<1>1. active' \subseteq Catalog
  BY DEF RemoveProduct, ReactivateProduct, TypeOK
<1>2. UNCHANGED <<pc, idx, pos, conflict, taken, lock, shared, reserved,
                  ledger, stock, failed, systemUser, crashes>>
  BY DEF RemoveProduct, ReactivateProduct, handlerVars, lockVars
<1>3. TypeOK'
  BY <1>1, <1>2 DEF TypeOK
<1>4. \A m \in Message : SameHandler(m)
  BY <1>2 DEF SameHandler
<1>5. Inductive' <=> Inductive /\ TypeOK'
  BY <1>2, <1>3 DEF InBatch, HeldInTransaction, CheckedIsBacked, TakenIsLocked,
     ReservedIsFresh, NoOversell, OneRowPerUuid, HasNext, Lines, Current, Backed,
     ToBeDeducted, Rows
<1>6. QED
  BY <1>3, <1>5

-----------------------------------------------------------------------------
(* The theorems. *)

LEMMA NextInductive ==
    ASSUME DistinctLines, Inductive, [Next]_vars
    PROVE  Inductive'
<1>1. ASSUME NEW m \in Message, Step(m)
      PROVE  Inductive'
  <2>1. CASE Receive(m) \/ SkipExisting(m) \/ BeginTransaction(m)
    BY <2>1, ReceiveInductive, SkipExistingInductive, BeginTransactionInductive
  <2>2. CASE CheckStock(m)
    BY <2>2, CheckStockInductive
  <2>3. CASE CreateTransactionHeader(m)
    BY <2>3, CreateTransactionHeaderInductive
  <2>4. CASE CreateTransactionDetails(m)
    BY <2>4, CreateTransactionDetailsInductive
  <2>5. CASE DeductInventory(m)
    BY <2>5, DeductInventoryInductive
  <2>6. CASE Commit(m)
    BY <2>6, CommitInductive
  <2>7. CASE HandleFailure(m) \/ Ack(m)
    BY <2>7, HandleFailureInductive, AckInductive
  <2>8. CASE RejectHeader(m) \/ RejectDetails(m) \/ RejectHistory(m)
    BY <2>8, AbortInductive DEF RejectHeader, RejectDetails, RejectHistory, InTransaction
  <2>9. CASE DeadlockVictim(m)
    <3>1. pc[m] \in InTransaction
      BY <2>9 DEF DeadlockVictim, InDeadlock, Blockers, InTransaction
    <3>2. QED
      BY <2>9, <3>1, AbortInductive DEF DeadlockVictim
  <2>10. QED
    BY <1>1, <2>1, <2>2, <2>3, <2>4, <2>5, <2>6, <2>7, <2>8, <2>9 DEF Step
<1>2. CASE \E m \in Message : TransactionTimeout(m)
  BY <1>2, AbortInductive DEF TransactionTimeout
<1>3. CASE Crash
  BY <1>3, CrashInductive
<1>4. CASE \E p \in Catalog : RemoveProduct(p) \/ ReactivateProduct(p)
  BY <1>4, UpdateProductInductive
<1>5. CASE UNCHANGED vars
  <2>1. /\ UNCHANGED <<pc, idx, pos, conflict>>
        /\ UNCHANGED <<taken, lock, shared, reserved>>
        /\ UNCHANGED <<ledger, stock, active, failed, systemUser, crashes>>
    BY <1>5 DEF vars, handlerVars, lockVars, tableVars
  <2>2. TypeOK'
    BY <2>1 DEF Inductive, TypeOK
  <2>3. InBatch' /\ NoOversell' /\ OneRowPerUuid'
    BY <2>1 DEF Inductive, InBatch, HasNext, Lines, Current, NoOversell, OneRowPerUuid
  <2>4. HeldInTransaction' /\ TakenIsLocked' /\ ReservedIsFresh'
    BY <2>1 DEF Inductive, HeldInTransaction, TakenIsLocked, ReservedIsFresh, Lines, Current, Rows
  <2>5. CheckedIsBacked'
    BY <2>1 DEF Inductive, CheckedIsBacked, Backed, ToBeDeducted, Lines, Current
  <2>6. QED
    BY <2>2, <2>3, <2>4, <2>5 DEF Inductive
<1>6. QED
  BY <1>1, <1>2, <1>3, <1>4, <1>5 DEF Next, Terminating

(* The inductive invariant holds of every behaviour of the consumer whose
   sales name each product on one line. *)
THEOREM WorkerInductive == ASSUME DistinctLines PROVE Spec => []Inductive
<1>1. Init => Inductive
  BY InitInductive
<1>2. Inductive /\ [Next]_vars => Inductive'
  BY NextInductive
<1>3. QED
  BY <1>1, <1>2, PTL DEF Spec

(* checkStockAvailability and deductInventory never oversell a product,
   whatever the number of concurrent deliveries, duplicates and crashes. *)
THEOREM WorkerNeverOversells == ASSUME DistinctLines PROVE Spec => []NoOversell
<1>1. Inductive => NoOversell
  BY DEF Inductive
<1>2. QED
  BY <1>1, WorkerInductive, PTL

-----------------------------------------------------------------------------
(* What is acknowledged is recorded, repeated lines or not.                 *)

Held(s) == DeviceOf[s] \in KnownDevice => Traced(s)

(* The sales before the current one have left their trace.                  *)
Walking ==
    /\ pc \in [Message -> Running \cup {"queued", "acked"}]
    /\ idx \in [Message -> Nat \ {0}]
    /\ ledger \in Seq(Row)
    /\ \A m \in Message : pc[m] \in InTransaction \cup {"failing"} => HasNext(m)
    /\ \A m \in Message : \A i \in DOMAIN Batch[m] :
          pc[m] = "acked" \/ (pc[m] \in Running /\ i < idx[m]) => Held(Batch[m][i])

LEMMA InitWalking == Init => Walking
<1>1. Init => TypeOK /\ \A m \in Message : pc[m] = "queued"
  BY InitInductive DEF Init, Inductive
<1>2. QED
  BY <1>1 DEF TypeOK, Walking, Running, InTransaction

LEMMA StepWalking ==
    ASSUME Walking, NEW m \in Message,
           pc' \in [Message -> Running \cup {"queued", "acked"}],
           idx' \in [Message -> Nat \ {0}],
           ledger' \in Seq(Row),
           \A n \in Message \ {m} : pc'[n] = pc[n] /\ idx'[n] = idx[n],
           Rows \subseteq Rows', failed \subseteq failed',
           pc'[m] \in InTransaction \cup {"failing"} => HasNext(m)',
           \A i \in DOMAIN Batch[m] :
              pc'[m] = "acked" \/ (pc'[m] \in Running /\ i < idx'[m]) => Held(Batch[m][i])'
    PROVE  Walking'
<1>1. \A s : Held(s) => Held(s)'
  BY DEF Held, Traced, Existing
<1>2. ASSUME NEW n \in Message, pc'[n] \in InTransaction \cup {"failing"}
      PROVE  HasNext(n)'
  BY <1>2 DEF Walking, HasNext
<1>3. ASSUME NEW n \in Message, NEW i \in DOMAIN Batch[n],
             pc'[n] = "acked" \/ (pc'[n] \in Running /\ i < idx'[n])
      PROVE  Held(Batch[n][i])'
  BY <1>1, <1>3 DEF Walking
<1>4. QED
  BY <1>2, <1>3 DEF Walking

(* A statement of an open transaction, or what breaks it off.               *)
LEMMA StatementWalking ==
    ASSUME Walking, NEW m \in Message, pc[m] \in InTransaction,
           UNCHANGED <<idx, ledger, failed>>,
           NEW label \in InTransaction \cup {"failing"},
           pc' = pc \/ pc' = [pc EXCEPT ![m] = label]
    PROVE  Walking'
<1>1. /\ pc' \in [Message -> Running \cup {"queued", "acked"}]
      /\ pc'[m] \in InTransaction \cup {"failing"}
      /\ \A n \in Message \ {m} : pc'[n] = pc[n]
  BY DEF Walking, Running
<1>2. HasNext(m)'
  BY DEF Walking, HasNext
<1>3. \A i \in DOMAIN Batch[m] :
         pc'[m] = "acked" \/ (pc'[m] \in Running /\ i < idx'[m]) => Held(Batch[m][i])'
  BY <1>1 DEF Walking, Held, Traced, Existing, Rows, Running, InTransaction
<1>4. QED
  BY <1>1, <1>2, <1>3, StepWalking DEF Walking, Rows

(* The handler turns to the next sale.                                      *)
LEMMA AdvanceWalking ==
    ASSUME Walking, NEW m \in Message, pc[m] \in Running, HasNext(m),
           pc' = [pc EXCEPT ![m] = "next"], idx' = [idx EXCEPT ![m] = @ + 1],
           ledger' \in Seq(Row), Rows \subseteq Rows', failed \subseteq failed',
           NEW s, s = Current(m), Held(s)'
    PROVE  Walking'
<1>1. /\ pc' \in [Message -> Running \cup {"queued", "acked"}]
      /\ idx' \in [Message -> Nat \ {0}]
      /\ \A n \in Message \ {m} : pc'[n] = pc[n] /\ idx'[n] = idx[n]
      /\ pc'[m] = "next" /\ idx'[m] = idx[m] + 1 /\ idx[m] \in Nat
  BY DEF Walking, Running
<1>2. ASSUME NEW i \in DOMAIN Batch[m], i < idx'[m] PROVE Held(Batch[m][i])'
  <2>1. i \in Nat
    BY SalesAssumption, LenProperties
  <2>2. CASE i = idx[m]
    BY <2>2 DEF Current
  <2>3. CASE i < idx[m]
    <3>1. Held(Batch[m][i])
      BY <2>3 DEF Walking
    <3>2. QED
      BY <3>1 DEF Held, Traced, Existing
  <2>4. QED
    BY <1>1, <1>2, <2>1, <2>2, <2>3
<1>3. pc'[m] \notin InTransaction \cup {"failing", "acked"}
  BY <1>1 DEF InTransaction
<1>4. QED
  BY <1>1, <1>2, <1>3, StepWalking

LEMMA CommitWalking ==
    ASSUME Walking, NEW m \in Message, Commit(m)
    PROVE  Walking'
<1> SUFFICES ASSUME NEW s, s = Current(m) PROVE Walking'
  OBVIOUS
<1> DEFINE r == [sale |-> s, status |-> IF conflict[m] THEN "PENDING" ELSE "CONFIRMED"]
<1>1. /\ pc[m] = "commit"
      /\ ledger' = Append(ledger, r)
      /\ pc' = [pc EXCEPT ![m] = "next"] /\ idx' = [idx EXCEPT ![m] = @ + 1]
      /\ failed' = failed
  BY DEF Commit, Goto
<1>2. pc[m] \in Running /\ HasNext(m)
  BY <1>1 DEF Running, InTransaction, Walking
<1>3. s \in Sale
  <2>1. Batch[m] \in Seq(Sale) /\ idx[m] \in 1 .. Len(Batch[m])
    BY <1>2, SalesAssumption, LenProperties DEF Walking, HasNext
  <2>2. QED
    BY <2>1, ElementOfSeq DEF Current
<1>4. r \in Row /\ r.sale = s
  BY <1>3 DEF Row
<1> HIDE DEF r
<1>5. ledger \in Seq(Row) /\ ledger' \in Seq(Row) /\ Rows \subseteq Rows' /\ r \in Rows'
  <2>1. ledger \in Seq(Row)
    BY DEF Walking
  <2>2. /\ ledger' \in Seq(Row)
        /\ Len(ledger') = Len(ledger) + 1
        /\ \A i \in 1 .. Len(ledger) : ledger'[i] = ledger[i]
        /\ ledger'[Len(ledger) + 1] = r
    BY <1>1, <1>4, <2>1, AppendProperties
  <2>3. /\ DOMAIN ledger = 1 .. Len(ledger) /\ Len(ledger) \in Nat
        /\ DOMAIN ledger' = 1 .. Len(ledger')
    BY <2>1, <2>2, LenProperties
  <2>4. QED
    BY <2>1, <2>2, <2>3 DEF Rows
<1>6. Held(s)'
  BY <1>4, <1>5 DEF Held, Traced, Existing
<1>7. QED
  BY <1>1, <1>2, <1>5, <1>6, AdvanceWalking

LEMMA HandleFailureWalking ==
    ASSUME "failure write" \notin Faults, Walking, NEW m \in Message, HandleFailure(m)
    PROVE  Walking'
<1> SUFFICES ASSUME NEW s, s = Current(m) PROVE Walking'
  OBVIOUS
<1>1. /\ pc[m] = "failing"
      /\ DeviceOf[s] \in KnownDevice => s \in failed'
      /\ failed \subseteq failed'
      /\ pc' = [pc EXCEPT ![m] = "next"] /\ idx' = [idx EXCEPT ![m] = @ + 1]
      /\ ledger' = ledger
  BY DEF HandleFailure, Goto
<1>2. pc[m] \in Running /\ HasNext(m)
  BY <1>1 DEF Running, Walking
<1>3. Held(s)'
  BY <1>1 DEF Held, Traced
<1>4. ledger' \in Seq(Row) /\ Rows' = Rows
  BY <1>1 DEF Walking, Rows
<1>5. QED
  BY <1>1, <1>2, <1>3, <1>4, AdvanceWalking

LEMMA LoopWalking ==
    ASSUME Walking, NEW m \in Message,
           Receive(m) \/ SkipExisting(m) \/ BeginTransaction(m) \/ Ack(m)
    PROVE  Walking'
<1>1. CASE Receive(m)
  <2>1. /\ pc' = [pc EXCEPT ![m] = "next"] /\ idx' = [idx EXCEPT ![m] = 1]
        /\ UNCHANGED <<ledger, failed>>
    BY <1>1 DEF Receive, Goto, tableVars
  <2>2. \A i \in DOMAIN Batch[m] : ~ (i < 1)
    BY SalesAssumption, LenProperties
  <2>3. QED
    BY <2>1, <2>2, StepWalking DEF Walking, Rows, Running, InTransaction
<1>2. CASE SkipExisting(m)
  <2> SUFFICES ASSUME NEW s, s = Current(m) PROVE Walking'
    OBVIOUS
  <2>1. /\ pc[m] = "next" /\ HasNext(m) /\ Existing(s)
        /\ idx' = [idx EXCEPT ![m] = @ + 1]
        /\ UNCHANGED <<pc, ledger, failed>>
    BY <1>2 DEF SkipExisting, tableVars
  <2>2. pc' = [pc EXCEPT ![m] = "next"] /\ pc[m] \in Running
    BY <2>1 DEF Walking, Running
  <2>3. ledger' \in Seq(Row) /\ Rows' = Rows
    BY <2>1 DEF Walking, Rows
  <2>4. Held(s)'
    BY <2>1, <2>3 DEF Held, Traced, Existing
  <2>5. QED
    BY <2>1, <2>2, <2>3, <2>4, AdvanceWalking
<1>3. CASE BeginTransaction(m)
  <2>1. PICK label \in {"check", "failing"} : pc' = [pc EXCEPT ![m] = label]
    BY <1>3 DEF BeginTransaction, Goto
  <2>2. /\ pc[m] = "next" /\ HasNext(m)
        /\ UNCHANGED <<idx, ledger, failed>>
    BY <1>3 DEF BeginTransaction, tableVars
  <2>3. /\ pc' \in [Message -> Running \cup {"queued", "acked"}]
        /\ pc'[m] = label
        /\ \A n \in Message \ {m} : pc'[n] = pc[n]
    BY <2>1 DEF Walking, Running, InTransaction
  <2>4. ASSUME NEW i \in DOMAIN Batch[m], i < idx'[m] PROVE Held(Batch[m][i])'
    BY <2>2, <2>4 DEF Walking, Running, Held, Traced, Existing, Rows
  <2>5. HasNext(m)' /\ ledger' \in Seq(Row) /\ Rows' = Rows
    BY <2>2 DEF HasNext, Walking, Rows
  <2>6. QED
    BY <2>2, <2>3, <2>4, <2>5, StepWalking DEF Walking
<1>4. CASE Ack(m)
  <2>1. /\ pc[m] = "next" /\ ~HasNext(m)
        /\ pc' = [pc EXCEPT ![m] = "acked"]
        /\ UNCHANGED <<idx, ledger, failed>>
    BY <1>4 DEF Ack, Goto, tableVars
  <2>2. ASSUME NEW i \in DOMAIN Batch[m] PROVE Held(Batch[m][i])'
    <3>1. i < idx[m]
      BY <2>1, SalesAssumption, LenProperties DEF HasNext, Walking
    <3>2. QED
      BY <2>1, <3>1 DEF Walking, Running, Held, Traced, Existing, Rows
  <2>3. /\ pc' \in [Message -> Running \cup {"queued", "acked"}]
        /\ pc'[m] = "acked"
        /\ \A n \in Message \ {m} : pc'[n] = pc[n]
    BY <2>1 DEF Walking
  <2>4. ledger' \in Seq(Row) /\ Rows' = Rows
    BY <2>1 DEF Walking, Rows
  <2>5. QED
    BY <2>1, <2>2, <2>3, <2>4, StepWalking DEF Walking, InTransaction
<1>5. QED
  BY <1>1, <1>2, <1>3, <1>4

LEMMA AbortWalking ==
    ASSUME Walking, NEW m \in Message, pc[m] \in InTransaction, Abort(m)
    PROVE  Walking'
BY StatementWalking DEF Abort, Goto, tableVars

LEMMA NextWalking ==
    ASSUME "failure write" \notin Faults, Walking, [Next]_vars
    PROVE  Walking'
<1>1. ASSUME NEW m \in Message, Step(m)
      PROVE  Walking'
  <2>1. CASE CheckStock(m)
    BY <2>1, StatementWalking DEF CheckStock, NextLine, Goto, tableVars, InTransaction
  <2>2. CASE CreateTransactionHeader(m)
    BY <2>2, StatementWalking DEF CreateTransactionHeader, Goto, tableVars, InTransaction
  <2>3. CASE CreateTransactionDetails(m)
    <3>1. PICK label \in {"commit", "deduct"} : pc' = pc \/ pc' = [pc EXCEPT ![m] = label]
      BY <2>3 DEF CreateTransactionDetails, NextLine, Goto
    <3>2. pc[m] = "details" /\ UNCHANGED <<idx, ledger, failed>>
      BY <2>3 DEF CreateTransactionDetails, tableVars
    <3>3. pc[m] \in InTransaction /\ label \in InTransaction \cup {"failing"}
      BY <3>2 DEF InTransaction
    <3>4. QED
      BY <3>1, <3>2, <3>3, StatementWalking
  <2>4. CASE DeductInventory(m)
    <3>1. pc' = pc \/ pc' = [pc EXCEPT ![m] = "commit"]
      BY <2>4 DEF DeductInventory, NextLine, Goto
    <3>2. pc[m] = "deduct" /\ UNCHANGED <<idx, ledger, failed>>
      BY <2>4 DEF DeductInventory, tableVars
    <3>3. pc[m] \in InTransaction /\ "commit" \in InTransaction \cup {"failing"}
      BY <3>2 DEF InTransaction
    <3>4. QED
      BY <3>1, <3>2, <3>3, StatementWalking
  <2>5. CASE RejectHeader(m) \/ RejectDetails(m) \/ RejectHistory(m)
    BY <2>5, AbortWalking DEF RejectHeader, RejectDetails, RejectHistory, InTransaction
  <2>6. CASE DeadlockVictim(m)
    <3>1. pc[m] \in InTransaction
      BY <2>6 DEF DeadlockVictim, InDeadlock, Blockers, InTransaction
    <3>2. QED
      BY <2>6, <3>1, AbortWalking DEF DeadlockVictim
  <2>7. QED
    BY <1>1, <2>1, <2>2, <2>3, <2>4, <2>5, <2>6, LoopWalking, CommitWalking,
       HandleFailureWalking DEF Step
<1>2. CASE \E m \in Message : TransactionTimeout(m)
  BY <1>2, AbortWalking DEF TransactionTimeout
<1>3. CASE Crash
  <2>1. /\ \A m \in Message : pc'[m] = IF pc[m] \in Running THEN "queued" ELSE pc[m]
        /\ pc' \in [Message -> Running \cup {"queued", "acked"}]
        /\ UNCHANGED <<idx, ledger, failed>>
    BY <1>3 DEF Crash, tableVars, Walking
  <2>2. \A m \in Message : pc'[m] = "queued" \/ (pc'[m] = "acked" /\ pc[m] = "acked")
    BY <2>1 DEF Walking, Running, InTransaction
  <2>3. \A s : Held(s)' <=> Held(s)
    BY <2>1 DEF Held, Traced, Existing, Rows
  <2>4. \A m \in Message : pc'[m] \notin InTransaction \cup {"failing"}
    BY <2>2 DEF InTransaction
  <2>5. \A m \in Message : pc'[m] \in Running => FALSE
    BY <2>2 DEF Running, InTransaction
  <2>6. QED
    BY <2>1, <2>2, <2>3, <2>4, <2>5 DEF Walking
<1>4. CASE UNCHANGED <<pc, idx, ledger, failed>>
  <2>1. \A s : Held(s)' <=> Held(s)
    BY <1>4 DEF Held, Traced, Existing, Rows
  <2>2. QED
    BY <1>4, <2>1 DEF Walking, HasNext
<1>5. CASE \E p \in Catalog : RemoveProduct(p) \/ ReactivateProduct(p)
  BY <1>4, <1>5 DEF RemoveProduct, ReactivateProduct, handlerVars
<1>6. QED
  BY <1>1, <1>2, <1>3, <1>4, <1>5 DEF Next, Terminating, vars, handlerVars, tableVars

(* Whatever the interleavings, crashes, deadlocks and timeouts, a message is
   acknowledged only when each of its sales is a Transaction or SYNC_FAILED
   row, unless its device is unknown.  It takes that the write of handleFailure
   goes through, whose error is swallowed; sales may repeat a product. *)
THEOREM WorkerRecordsAcked ==
    ASSUME "failure write" \notin Faults
    PROVE  Spec => []AckedMeansRecorded
<1>1. Init => Walking
  BY InitWalking
<1>2. Walking /\ [Next]_vars => Walking'
  BY NextWalking
<1>3. Walking => AckedMeansRecorded
  BY DEF Walking, AckedMeansRecorded, Held
<1>4. QED
  BY <1>1, <1>2, <1>3, PTL DEF Spec

-----------------------------------------------------------------------------
(* What is deducted is recorded, repeated lines or not.                     *)

(* What the open transaction of m has deducted of p by now.                 *)
Owed(m, p) ==
    CASE pc[m] = "deduct" -> SumTo(Wanted(Current(m), p), pos[m] - 1)
      [] pc[m] = "commit" /\ ~conflict[m] -> Demand(Current(m), p)
      [] OTHER -> 0

CountTyped ==
    /\ pc \in [Message -> Running \cup {"queued", "acked"}]
    /\ idx \in [Message -> Nat \ {0}]
    /\ pos \in [Message -> Nat \ {0}]
    /\ DOMAIN conflict = Message
    /\ taken \in [Message -> [Product -> Int]]
    /\ ledger \in Seq(Row)
    /\ stock \in [Product -> Int]

Counting ==
    /\ CountTyped
    /\ InBatch
    /\ \A m \in Message : pc[m] = "deduct" => ~conflict[m]
    /\ \A m \in Message, p \in Product : taken[m][p] = Owed(m, p)
    /\ StockMatchesLedger

LEMMA WantedTyped ==
    ASSUME NEW s \in Sale, NEW p \in Product
    PROVE  /\ LinesOf[s] \in Seq(Line)
           /\ Len(LinesOf[s]) \in Nat /\ DOMAIN LinesOf[s] = 1 .. Len(LinesOf[s])
           /\ Wanted(s, p) \in Seq(Int)
           /\ Len(Wanted(s, p)) = Len(LinesOf[s])
           /\ \A k \in 1 .. Len(LinesOf[s]) :
                 /\ LinesOf[s][k].product \in Product
                 /\ LinesOf[s][k].quantity \in Nat \ {0}
                 /\ Wanted(s, p)[k] = IF LinesOf[s][k].product = p
                                      THEN LinesOf[s][k].quantity ELSE 0
           /\ Demand(s, p) \in Int
<1>1. /\ LinesOf[s] \in Seq(Line)
      /\ Len(LinesOf[s]) \in Nat /\ DOMAIN LinesOf[s] = 1 .. Len(LinesOf[s])
  BY SalesAssumption, LenProperties
<1>2. \A k \in 1 .. Len(LinesOf[s]) : LinesOf[s][k].product \in Product
                                      /\ LinesOf[s][k].quantity \in Nat \ {0}
  <2>1. \A k \in 1 .. Len(LinesOf[s]) : LinesOf[s][k] \in Line
    BY <1>1, ElementOfSeq
  <2>2. QED
    BY <2>1, SalesAssumption
<1>3. Wanted(s, p) = [k \in 1 .. Len(LinesOf[s]) |->
                         IF LinesOf[s][k].product = p THEN LinesOf[s][k].quantity ELSE 0]
  BY <1>1 DEF Wanted
<1>4. Wanted(s, p) \in Seq(Int) /\ Len(Wanted(s, p)) = Len(LinesOf[s])
  BY <1>1, <1>2, <1>3
<1>5. QED
  BY <1>1, <1>2, <1>3, <1>4, TotalInt DEF Demand

LEMMA CountCurrent ==
    ASSUME Counting, NEW m \in Message, pc[m] \in InTransaction
    PROVE  /\ Current(m) \in Sale
           /\ Len(Lines(m)) \in Nat
           /\ pos[m] \in 1 .. Len(Lines(m))
<1>1. Batch[m] \in Seq(Sale) /\ idx[m] \in 1 .. Len(Batch[m])
  BY SalesAssumption, LenProperties DEF Counting, CountTyped, InBatch, HasNext
<1>2. Current(m) \in Sale
  BY <1>1, ElementOfSeq DEF Current
<1>3. Len(Lines(m)) \in Nat
  BY <1>2, SalesAssumption, LenProperties DEF Lines
<1>4. QED
  BY <1>2, <1>3 DEF Counting, CountTyped, InBatch

(* A step of handler m that commits nothing.                                *)
LEMMA StepCounting ==
    ASSUME Counting, CountTyped', NEW m \in Message,
           \A n \in Message \ {m} : SameHandler(n) /\ taken'[n] = taken[n],
           UNCHANGED <<ledger, stock>>,
           pc'[m] \in InTransaction \cup {"failing"} => HasNext(m)',
           pc'[m] \in InTransaction => pos'[m] <= Len(Lines(m)'),
           pc'[m] = "deduct" => ~conflict'[m],
           \A p \in Product : taken'[m][p] = Owed(m, p)'
    PROVE  Counting'
<1>1. ASSUME NEW n \in Message \ {m}
      PROVE  /\ \A p \in Product : Owed(n, p)' = Owed(n, p)
             /\ Current(n)' = Current(n) /\ Lines(n)' = Lines(n) /\ HasNext(n)' = HasNext(n)
  BY DEF SameHandler, Owed, Current, Lines, HasNext
<1>2. InBatch'
  BY <1>1 DEF InBatch, Counting, SameHandler
<1>3. \A n \in Message : pc'[n] = "deduct" => ~conflict'[n]
  BY DEF Counting, SameHandler
<1>4. \A n \in Message, p \in Product : taken'[n][p] = Owed(n, p)'
  BY <1>1 DEF Counting
<1>5. StockMatchesLedger'
  BY DEF StockMatchesLedger, Sold, Counting
<1>6. QED
  BY <1>2, <1>3, <1>4, <1>5 DEF Counting

(* Steps of the loop, and of a transaction before it deducts.               *)
LEMMA QuietCounting ==
    ASSUME Counting, NEW m \in Message, pc[m] \notin {"deduct", "commit"},
           NEW label \in Running \cup {"queued", "acked"},
           label \notin {"deduct", "commit"},
           pc' = [pc EXCEPT ![m] = label],
           idx' \in [Message -> Nat \ {0}], pos' \in [Message -> Nat \ {0}],
           DOMAIN conflict' = Message,
           \A n \in Message \ {m} : /\ idx'[n] = idx[n] /\ pos'[n] = pos[n]
                                    /\ conflict'[n] = conflict[n],
           label \in InTransaction \cup {"failing"} => HasNext(m)',
           label \in InTransaction => pos'[m] <= Len(Lines(m)'),
           UNCHANGED <<taken, ledger, stock>>
    PROVE  Counting'
<1>1. /\ pc'[m] = label /\ \A n \in Message \ {m} : pc'[n] = pc[n]
      /\ CountTyped'
  BY DEF Counting, CountTyped
<1>2. \A p \in Product : Owed(m, p) = 0 /\ Owed(m, p)' = 0
  BY <1>1 DEF Owed
<1>3. \A n \in Message \ {m} : SameHandler(n) /\ taken'[n] = taken[n]
  BY <1>1 DEF SameHandler
<1>4. \A p \in Product : taken'[m][p] = Owed(m, p)'
  BY <1>2 DEF Counting
<1>5. QED
  BY <1>1, <1>3, <1>4, StepCounting

LEMMA LoopCounting ==
    ASSUME Counting, NEW m \in Message,
           Receive(m) \/ SkipExisting(m) \/ BeginTransaction(m) \/ HandleFailure(m) \/ Ack(m)
    PROVE  Counting'
<1>1. /\ pc \in [Message -> Running \cup {"queued", "acked"}]
      /\ idx \in [Message -> Nat \ {0}] /\ pos \in [Message -> Nat \ {0}]
      /\ DOMAIN conflict = Message
  BY DEF Counting, CountTyped
<1>2. CASE Receive(m)
  <2>1. /\ pc[m] = "queued"
        /\ pc' = [pc EXCEPT ![m] = "next"] /\ idx' = [idx EXCEPT ![m] = 1]
        /\ UNCHANGED <<pos, conflict, taken, ledger, stock>>
    BY <1>2 DEF Receive, Goto, tableVars, lockVars
  <2>2. idx' \in [Message -> Nat \ {0}] /\ "next" \in Running /\ "next" \notin InTransaction
    BY <1>1, <2>1 DEF Running, InTransaction
  <2>3. QED
    BY <1>1, <2>1, <2>2, QuietCounting
<1>3. CASE SkipExisting(m) \/ HandleFailure(m)
  <2>1. /\ pc[m] \in {"next", "failing"}
        /\ pc' = [pc EXCEPT ![m] = "next"] /\ idx' = [idx EXCEPT ![m] = idx[m] + 1]
        /\ UNCHANGED <<pos, conflict, taken, ledger, stock>>
    BY <1>1, <1>3 DEF SkipExisting, HandleFailure, Goto, tableVars, lockVars
  <2>2. /\ idx' \in [Message -> Nat \ {0}]
        /\ \A n \in Message \ {m} : idx'[n] = idx[n]
    BY <1>1, <2>1
  <2>3. "next" \in Running /\ "next" \notin InTransaction
    BY DEF Running, InTransaction
  <2>4. QED
    BY <1>1, <2>1, <2>2, <2>3, QuietCounting
<1>4. CASE BeginTransaction(m)
  <2>1. PICK label \in {"check", "failing"} : pc' = [pc EXCEPT ![m] = label]
    BY <1>4 DEF BeginTransaction, Goto
  <2>2. /\ pc[m] = "next" /\ HasNext(m)
        /\ pos' = [pos EXCEPT ![m] = 1]
        /\ UNCHANGED <<idx, conflict, taken, ledger, stock>>
    BY <1>4 DEF BeginTransaction, tableVars, lockVars
  <2>3. HasNext(m)' /\ Lines(m)' = Lines(m) /\ pos'[m] = 1
    BY <1>1, <2>2 DEF HasNext, Lines, Current
  <2>4. 1 <= Len(Lines(m))
    <3>1. Batch[m] \in Seq(Sale) /\ idx[m] \in 1 .. Len(Batch[m])
      <4>1. Batch[m] \in Seq(Sale) /\ Len(Batch[m]) \in Nat
        BY SalesAssumption, LenProperties
      <4>2. idx[m] \in Nat \ {0} /\ idx[m] <= Len(Batch[m])
        BY <1>1, <2>2 DEF HasNext
      <4>3. QED
        BY <4>1, <4>2
    <3>2. Current(m) \in Sale
      BY <3>1, ElementOfSeq DEF Current
    <3>3. Lines(m) \in Seq(Line) /\ Lines(m) # <<>>
      BY <3>2, SalesAssumption DEF Lines
    <3>4. Len(Lines(m)) \in Nat /\ Len(Lines(m)) # 0
      BY <3>3, LenProperties, EmptySeq
    <3>5. QED
      BY <3>4
  <2>5. label \in Running /\ label \notin {"deduct", "commit"}
    BY DEF Running, InTransaction
  <2>6. /\ pos' \in [Message -> Nat \ {0}]
        /\ \A n \in Message \ {m} : pos'[n] = pos[n]
    BY <1>1, <2>2
  <2>7. /\ pos'[m] <= Len(Lines(m)')
        /\ pc[m] \notin {"deduct", "commit"}
        /\ idx' \in [Message -> Nat \ {0}]
        /\ DOMAIN conflict' = Message
        /\ \A n \in Message \ {m} : idx'[n] = idx[n] /\ conflict'[n] = conflict[n]
    BY <1>1, <2>2, <2>3, <2>4
  <2>8. QED
    BY <2>1, <2>2, <2>3, <2>5, <2>6, <2>7, QuietCounting
<1>5. CASE Ack(m)
  <2>1. /\ pc[m] = "next" /\ pc' = [pc EXCEPT ![m] = "acked"]
        /\ UNCHANGED <<idx, pos, conflict, taken, ledger, stock>>
    BY <1>5 DEF Ack, Goto, tableVars, lockVars
  <2>2. "acked" \notin InTransaction
    BY DEF InTransaction
  <2>3. QED
    BY <1>1, <2>1, <2>2, QuietCounting
<1>6. QED
  BY <1>2, <1>3, <1>4, <1>5

LEMMA CheckCounting ==
    ASSUME Counting, NEW m \in Message, CheckStock(m) \/ CreateTransactionHeader(m)
    PROVE  Counting'
<1>1. /\ pc \in [Message -> Running \cup {"queued", "acked"}]
      /\ idx \in [Message -> Nat \ {0}] /\ pos \in [Message -> Nat \ {0}]
      /\ DOMAIN conflict = Message
  BY DEF Counting, CountTyped
<1>2. pc[m] \in {"check", "header"} /\ pc[m] \in InTransaction
  BY DEF CheckStock, CreateTransactionHeader, InTransaction
<1>3. pos[m] \in 1 .. Len(Lines(m)) /\ Len(Lines(m)) \in Nat
  BY <1>2, CountCurrent
<1>4. /\ UNCHANGED <<idx, taken, ledger, stock>>
      /\ Lines(m)' = Lines(m) /\ HasNext(m)' = HasNext(m) /\ HasNext(m)
  BY <1>2 DEF CheckStock, CreateTransactionHeader, tableVars, lockVars, Lines, Current, HasNext, InBatch, Counting
<1>5. /\ DOMAIN conflict' = Message
      /\ \A n \in Message \ {m} : conflict'[n] = conflict[n]
  BY <1>1 DEF CheckStock, CreateTransactionHeader
<1>6. PICK label \in {"check", "header", "details"}, k \in {1, pos[m], pos[m] + 1} :
         /\ pc' = [pc EXCEPT ![m] = label]
         /\ pos' = [pos EXCEPT ![m] = k]
         /\ k <= Len(Lines(m))
  <2>1. CASE CheckStock(m)
    <3>1. \/ pos' = [pos EXCEPT ![m] = pos[m] + 1] /\ pos[m] < Len(Lines(m)) /\ pc' = pc
          \/ pos' = [pos EXCEPT ![m] = 1] /\ pc' = [pc EXCEPT ![m] = "header"]
      BY <2>1 DEF CheckStock, NextLine, Goto
    <3>2. CASE pos' = [pos EXCEPT ![m] = pos[m] + 1] /\ pos[m] < Len(Lines(m)) /\ pc' = pc
      <4>1. pc[m] = "check" /\ pc' = [pc EXCEPT ![m] = "check"]
        BY <1>1, <2>1, <3>2 DEF CheckStock
      <4>2. pos[m] + 1 <= Len(Lines(m))
        BY <1>3, <3>2
      <4>3. QED
        BY <3>2, <4>1, <4>2
    <3>3. CASE pos' = [pos EXCEPT ![m] = 1] /\ pc' = [pc EXCEPT ![m] = "header"]
      BY <1>3, <3>3
    <3>4. QED
      BY <3>1, <3>2, <3>3
  <2>2. CASE CreateTransactionHeader(m)
    <3>1. pc' = [pc EXCEPT ![m] = "details"] /\ pos' = [pos EXCEPT ![m] = pos[m]]
      BY <1>1, <2>2 DEF CreateTransactionHeader, Goto
    <3>2. QED
      BY <1>3, <3>1
  <2>3. QED
    BY <2>1, <2>2
<1>7. /\ pos' \in [Message -> Nat \ {0}] /\ pos'[m] = k
      /\ \A n \in Message \ {m} : pos'[n] = pos[n]
  <2>1. k \in Nat \ {0}
    BY <1>3
  <2>2. QED
    BY <1>1, <1>6, <2>1
<1>8. label \in Running /\ label \notin {"deduct", "commit"}
  BY DEF Running, InTransaction
<1>9. idx' \in [Message -> Nat \ {0}] /\ \A n \in Message \ {m} : idx'[n] = idx[n]
  BY <1>1, <1>4
<1>10. pc[m] \notin {"deduct", "commit"}
  BY <1>2
<1>11. QED
  BY <1>4, <1>5, <1>6, <1>7, <1>8, <1>9, <1>10, QuietCounting

(* NextLine, one way or the other.                                          *)
LEMMA CountNextLine ==
    ASSUME Counting, NEW m \in Message, pc[m] \in InTransaction,
           NEW label \in Running, NextLine(m, label)
    PROVE  /\ \/ /\ pos[m] < Len(Lines(m)) /\ pos'[m] = pos[m] + 1
                 /\ pos[m] + 1 <= Len(Lines(m)) /\ pc' = pc
              \/ /\ pos[m] = Len(Lines(m)) /\ pos'[m] = 1
                 /\ pc'[m] = label /\ pc' = [pc EXCEPT ![m] = label]
           /\ pos' \in [Message -> Nat \ {0}]
           /\ pc' \in [Message -> Running \cup {"queued", "acked"}]
           /\ \A n \in Message \ {m} : pos'[n] = pos[n] /\ pc'[n] = pc[n]
<1>1. /\ pos[m] \in 1 .. Len(Lines(m)) /\ Len(Lines(m)) \in Nat
      /\ pos \in [Message -> Nat \ {0}]
      /\ pc \in [Message -> Running \cup {"queued", "acked"}]
  BY CountCurrent DEF Counting, CountTyped
<1>2. CASE pos[m] < Len(Lines(m))
  <2>1. pos' = [pos EXCEPT ![m] = pos[m] + 1] /\ pc' = pc
    BY <1>2 DEF NextLine
  <2>2. pos[m] + 1 \in Nat \ {0} /\ pos[m] + 1 <= Len(Lines(m))
    BY <1>1, <1>2
  <2>3. QED
    BY <1>1, <1>2, <2>1, <2>2
<1>3. CASE pos[m] = Len(Lines(m))
  <2>1. pos' = [pos EXCEPT ![m] = 1] /\ pc' = [pc EXCEPT ![m] = label]
    BY <1>1, <1>3 DEF NextLine, Goto
  <2>2. QED
    BY <1>1, <1>3, <2>1
<1>4. QED
  BY <1>1, <1>2, <1>3

LEMMA DetailsCounting ==
    ASSUME Counting, NEW m \in Message, CreateTransactionDetails(m)
    PROVE  Counting'
<1> SUFFICES ASSUME NEW label, label = IF conflict[m] THEN "commit" ELSE "deduct"
             PROVE  Counting'
  OBVIOUS
<1>1. /\ pc[m] = "details" /\ NextLine(m, label)
      /\ UNCHANGED <<idx, conflict, taken, ledger, stock>>
  BY DEF CreateTransactionDetails, tableVars
<1>2. /\ label \in Running /\ label \in InTransaction /\ pc[m] \in InTransaction
      /\ label \in {"commit", "deduct"}
  BY <1>1 DEF Running, InTransaction
<1>3. /\ \/ /\ pos'[m] = pos[m] + 1
            /\ pos[m] + 1 <= Len(Lines(m)) /\ pc' = pc
         \/ /\ pos'[m] = 1 /\ pc'[m] = label
      /\ pos' \in [Message -> Nat \ {0}]
      /\ pc' \in [Message -> Running \cup {"queued", "acked"}]
      /\ \A n \in Message \ {m} : pos'[n] = pos[n] /\ pc'[n] = pc[n]
  BY <1>1, <1>2, CountNextLine
<1>4. Current(m)' = Current(m) /\ Lines(m)' = Lines(m) /\ HasNext(m)' = HasNext(m) /\ HasNext(m)
  BY <1>1, <1>2 DEF Current, Lines, HasNext, Counting, InBatch
<1>5. 1 <= Len(Lines(m)) /\ Len(Lines(m)) \in Nat
  <2>1. Len(Lines(m)) \in Nat /\ pos[m] \in 1 .. Len(Lines(m))
    BY <1>2, CountCurrent
  <2>2. QED
    BY <2>1
<1>6. CountTyped' /\ \A n \in Message \ {m} : SameHandler(n) /\ taken'[n] = taken[n]
  BY <1>1, <1>3 DEF SameHandler, Counting, CountTyped
<1>7. pos'[m] <= Len(Lines(m)')
  BY <1>3, <1>4, <1>5
<1>8. pc'[m] = "deduct" => ~conflict'[m]
  BY <1>1, <1>3
<1>9. ASSUME NEW p \in Product PROVE taken'[m][p] = Owed(m, p)'
  <2>1. taken'[m][p] = 0
    BY <1>1 DEF Counting, Owed
  <2>2. CASE pc'[m] = "details"
    BY <2>1, <2>2 DEF Owed
  <2>3. CASE pc'[m] = "commit"
    BY <1>1, <1>3, <2>1, <2>3 DEF Owed
  <2>4. CASE pc'[m] = "deduct"
    <3>1. pos'[m] - 1 = 0
      BY <1>1, <1>3, <2>4
    <3>2. SumTo(Wanted(Current(m), p), 0) = 0
      BY SumToStep
    <3>3. Owed(m, p)' = SumTo(Wanted(Current(m), p), 0)
      BY <1>4, <2>4, <3>1 DEF Owed, Wanted
    <3>4. QED
      BY <2>1, <3>2, <3>3
  <2>5. QED
    BY <1>1, <1>2, <1>3, <2>2, <2>3, <2>4
<1>10. QED
  BY <1>1, <1>4, <1>6, <1>7, <1>8, <1>9, StepCounting

LEMMA DeductCounting ==
    ASSUME Counting, NEW m \in Message, DeductInventory(m)
    PROVE  Counting'
<1> SUFFICES ASSUME NEW s, s = Current(m), NEW l, l = Here(m), NEW k, k = pos[m]
             PROVE  Counting'
  OBVIOUS
<1>1. /\ pc[m] = "deduct" /\ NextLine(m, "commit")
      /\ taken' = [taken EXCEPT ![m][l.product] = @ + l.quantity]
      /\ UNCHANGED <<idx, conflict, ledger, stock>>
  BY DEF DeductInventory, tableVars
<1>2. "commit" \in Running /\ pc[m] \in InTransaction
  BY <1>1 DEF Running, InTransaction
<1>3. /\ \/ /\ k < Len(Lines(m)) /\ pos'[m] = k + 1
            /\ k + 1 <= Len(Lines(m)) /\ pc' = pc
         \/ /\ k = Len(Lines(m)) /\ pos'[m] = 1 /\ pc'[m] = "commit"
      /\ pos' \in [Message -> Nat \ {0}]
      /\ pc' \in [Message -> Running \cup {"queued", "acked"}]
      /\ \A n \in Message \ {m} : pos'[n] = pos[n] /\ pc'[n] = pc[n]
  BY <1>1, <1>2, CountNextLine
<1>4. Current(m)' = s /\ Lines(m)' = Lines(m) /\ HasNext(m)' = HasNext(m) /\ HasNext(m)
  BY <1>1, <1>2 DEF Current, Lines, HasNext, Counting, InBatch
<1>5. /\ s \in Sale /\ Len(Lines(m)) \in Nat /\ k \in 1 .. Len(Lines(m))
      /\ Lines(m) = LinesOf[s] /\ l = LinesOf[s][k]
  BY <1>2, CountCurrent DEF Lines, Here
<1>6. l.product \in Product /\ l.quantity \in Nat
  <2>1. \A p \in Product : LinesOf[s][k].product \in Product /\ LinesOf[s][k].quantity \in Nat \ {0}
    BY <1>5, WantedTyped
  <2>2. LinesOf[s] \in Seq(Line) /\ k \in 1 .. Len(LinesOf[s])
    BY <1>5, SalesAssumption
  <2>3. l \in Line
    BY <1>5, <2>2, ElementOfSeq
  <2>4. QED
    BY <2>3, SalesAssumption
<1>7. /\ taken \in [Message -> [Product -> Int]]
      /\ DOMAIN conflict = Message
  BY DEF Counting, CountTyped
<1>8. /\ taken' = [taken EXCEPT ![m] = [taken[m] EXCEPT ![l.product] = @ + l.quantity]]
      /\ taken[m] \in [Product -> Int]
  BY <1>1, <1>7
<1>9. \A p \in Product :
         taken'[m][p] = taken[m][p] + (IF p = l.product THEN l.quantity ELSE 0)
  <2>1. \A p \in Product : taken[m][p] \in Int
    BY <1>8
  <2>2. taken'[m] = [taken[m] EXCEPT ![l.product] = @ + l.quantity]
    BY <1>7, <1>8
  <2>3. QED
    BY <1>6, <1>8, <2>1, <2>2
<1>10. taken' \in [Message -> [Product -> Int]] /\ \A n \in Message \ {m} : taken'[n] = taken[n]
  BY <1>6, <1>7, <1>8
<1>11. CountTyped' /\ \A n \in Message \ {m} : SameHandler(n)
  BY <1>1, <1>3, <1>7, <1>10 DEF SameHandler, Counting, CountTyped
<1>12. pc'[m] \in InTransaction => pos'[m] <= Len(Lines(m)')
  BY <1>3, <1>4, <1>5
<1>13. ~conflict'[m]
  BY <1>1 DEF Counting
<1>14. ASSUME NEW p \in Product PROVE taken'[m][p] = Owed(m, p)'
  <2>1. taken[m][p] = SumTo(Wanted(s, p), k - 1)
    BY <1>1 DEF Counting, Owed
  <2>2. Wanted(s, p)[k] = IF l.product = p THEN l.quantity ELSE 0
    BY <1>5, WantedTyped
  <2>3. SumTo(Wanted(s, p), k) = SumTo(Wanted(s, p), k - 1) + Wanted(s, p)[k]
    <3>1. k - 1 \in Nat /\ (k - 1) + 1 = k
      BY <1>5
    <3>2. SumTo(Wanted(s, p), (k - 1) + 1) = SumTo(Wanted(s, p), k - 1) + Wanted(s, p)[(k - 1) + 1]
      BY <3>1, SumToStep
    <3>3. QED
      BY <3>1, <3>2
  <2>4. taken'[m][p] = SumTo(Wanted(s, p), k)
    BY <1>9, <2>1, <2>2, <2>3
  <2>5. CASE pos'[m] = k + 1 /\ pc' = pc
    <3>1. pos'[m] - 1 = k
      BY <1>5, <2>5
    <3>2. Owed(m, p)' = SumTo(Wanted(s, p), k)
      BY <1>1, <1>4, <2>5, <3>1 DEF Owed, Wanted
    <3>3. QED
      BY <2>4, <3>2
  <2>6. CASE k = Len(Lines(m)) /\ pc'[m] = "commit"
    <3>1. Owed(m, p)' = Demand(s, p)
      BY <1>4, <1>13, <2>6 DEF Owed, Demand, Wanted
    <3>2. Demand(s, p) = SumTo(Wanted(s, p), k)
      BY <1>5, <2>6, WantedTyped DEF Demand, Total
    <3>3. QED
      BY <2>4, <3>1, <3>2
  <2>7. QED
    BY <1>3, <2>5, <2>6
<1>15. QED
  BY <1>1, <1>4, <1>10, <1>11, <1>12, <1>13, <1>14, StepCounting

(* A row more on the ledger.                                                *)
LEMMA SoldAppend ==
    ASSUME ledger \in Seq(Row), NEW r \in Row, ledger' = Append(ledger, r), NEW p \in Product
    PROVE  /\ Total(Sold(p)) \in Int
           /\ Demand(r.sale, p) \in Int
           /\ Total(Sold(p)') = Total(Sold(p))
                 + (IF r.status = "CONFIRMED" THEN Demand(r.sale, p) ELSE 0)
<1> DEFINE x == IF r.status = "CONFIRMED" THEN Demand(r.sale, p) ELSE 0
           n == Len(ledger)
<1>1. Demand(r.sale, p) \in Int /\ \A i \in 1 .. n : Demand(ledger[i].sale, p) \in Int
  <2>1. r.sale \in Sale /\ \A i \in 1 .. n : ledger[i].sale \in Sale
    <3>1. \A i \in 1 .. n : ledger[i] \in Row
      BY ElementOfSeq
    <3>2. QED
      BY <3>1 DEF Row
  <2>2. QED
    BY <2>1, WantedTyped
<1>2. n \in Nat /\ DOMAIN ledger = 1 .. n
  BY LenProperties
<1>3. Sold(p) = [i \in 1 .. n |->
                   IF ledger[i].status = "CONFIRMED" THEN Demand(ledger[i].sale, p) ELSE 0]
  BY <1>2 DEF Sold
<1>4. Sold(p) \in Seq(Int) /\ Len(Sold(p)) = n
  BY <1>1, <1>2, <1>3
<1>5. /\ DOMAIN ledger' = 1 .. n + 1
      /\ \A i \in 1 .. n : ledger'[i] = ledger[i]
      /\ ledger'[n + 1] = r
  BY <1>2
<1>6. Sold(p)' = [i \in 1 .. n + 1 |-> IF i = n + 1 THEN x ELSE Sold(p)[i]]
  <2>1. Sold(p)' = [i \in 1 .. n + 1 |->
              IF ledger'[i].status = "CONFIRMED" THEN Demand(ledger'[i].sale, p) ELSE 0]
    BY <1>5 DEF Sold, Demand, Wanted
  <2>2. \A i \in 1 .. n + 1 :
           (IF ledger'[i].status = "CONFIRMED" THEN Demand(ledger'[i].sale, p) ELSE 0)
         = (IF i = n + 1 THEN x ELSE Sold(p)[i])
    BY <1>2, <1>3, <1>5
  <2>3. QED
    BY <2>1, <2>2
<1>7. x \in Int
  BY <1>1
<1> HIDE DEF x
<1>8. SumTo(Sold(p)', n) = SumTo(Sold(p), n)
  <2>1. \A i \in 1 .. n : Sold(p)'[i] = Sold(p)[i]
    BY <1>2, <1>6
  <2>2. QED
    BY <1>2, <2>1, SumToSame
<1>9. Total(Sold(p)') = Total(Sold(p)) + x
  <2>1. Len(Sold(p)') = n + 1 /\ Sold(p)'[n + 1] = x
    BY <1>2, <1>6
  <2>2. SumTo(Sold(p)', n + 1) = SumTo(Sold(p)', n) + Sold(p)'[n + 1]
    BY <1>2, SumToStep
  <2>3. QED
    BY <1>4, <1>8, <2>1, <2>2 DEF Total
<1>10. QED
  BY <1>1, <1>4, <1>9, TotalInt DEF x

LEMMA CommitCounting ==
    ASSUME Counting, NEW m \in Message, Commit(m)
    PROVE  Counting'
<1> SUFFICES ASSUME NEW s, s = Current(m),
                    NEW r, r = [sale |-> s, status |-> IF conflict[m] THEN "PENDING" ELSE "CONFIRMED"]
             PROVE  Counting'
  OBVIOUS
<1>1. /\ pc[m] = "commit"
      /\ ledger' = Append(ledger, r)
      /\ stock' = [p \in Product |-> stock[p] - taken[m][p]]
      /\ Release({m})
      /\ pc' = [pc EXCEPT ![m] = "next"] /\ idx' = [idx EXCEPT ![m] = @ + 1]
      /\ UNCHANGED <<pos, conflict>>
  BY DEF Commit, Goto
<1>2. pc[m] \in InTransaction /\ s \in Sale
  BY <1>1, CountCurrent DEF InTransaction
<1>3. r \in Row /\ r.sale = s /\ (r.status = "CONFIRMED" <=> ~conflict[m])
  BY <1>2 DEF Row
<1>4. CountTyped
  BY DEF Counting
<1>5. taken' = [n \in Message |-> IF n = m THEN Nothing ELSE taken[n]]
  BY <1>1 DEF Release
<1>6. CountTyped'
  <2>1. taken' \in [Message -> [Product -> Int]]
    BY <1>4, <1>5, NothingTyped DEF CountTyped
  <2>2. ledger' \in Seq(Row)
    BY <1>1, <1>3, <1>4, AppendProperties DEF CountTyped
  <2>3. stock' \in [Product -> Int]
    <3>1. \A p \in Product : stock[p] \in Int /\ taken[m][p] \in Int
      BY <1>4 DEF CountTyped
    <3>2. QED
      BY <1>1, <3>1
  <2>4. pc' \in [Message -> Running \cup {"queued", "acked"}]
    BY <1>1, <1>4 DEF CountTyped, Running
  <2>5. idx' \in [Message -> Nat \ {0}]
    BY <1>1, <1>4 DEF CountTyped
  <2>6. QED
    BY <1>1, <1>4, <2>1, <2>2, <2>3, <2>4, <2>5 DEF CountTyped
<1>7. pc'[m] = "next" /\ \A n \in Message \ {m} : SameHandler(n) /\ taken'[n] = taken[n]
  BY <1>1, <1>4, <1>5 DEF SameHandler, CountTyped
<1>8. ASSUME NEW n \in Message \ {m}
      PROVE  /\ \A p \in Product : Owed(n, p)' = Owed(n, p)
             /\ Current(n)' = Current(n) /\ Lines(n)' = Lines(n) /\ HasNext(n)' = HasNext(n)
  BY <1>7 DEF SameHandler, Owed, Current, Lines, HasNext
<1>9. InBatch' /\ \A n \in Message : pc'[n] = "deduct" => ~conflict'[n]
  BY <1>7, <1>8 DEF InBatch, Counting, SameHandler, InTransaction
<1>10. \A n \in Message, p \in Product : taken'[n][p] = Owed(n, p)'
  <2>1. \A p \in Product : Owed(m, p)' = 0 /\ taken'[m][p] = 0
    BY <1>5, <1>7, NothingTyped DEF Owed
  <2>2. \A n \in Message \ {m}, p \in Product : taken'[n][p] = Owed(n, p)'
    BY <1>7, <1>8 DEF Counting
  <2>3. QED
    BY <2>1, <2>2
<1>11. ASSUME NEW p \in Product
       PROVE  stock'[p] = InitialStock[p] - Total(Sold(p)')
  <2>1. /\ Total(Sold(p)) \in Int /\ Demand(s, p) \in Int
        /\ Total(Sold(p)') = Total(Sold(p)) + (IF ~conflict[m] THEN Demand(s, p) ELSE 0)
    BY <1>1, <1>3, <1>4, SoldAppend DEF CountTyped
  <2>2. taken[m][p] = IF ~conflict[m] THEN Demand(s, p) ELSE 0
    BY <1>1 DEF Counting, Owed
  <2>3. stock'[p] = stock[p] - taken[m][p] /\ stock[p] = InitialStock[p] - Total(Sold(p))
    BY <1>1 DEF Counting, StockMatchesLedger
  <2>4. InitialStock[p] \in Int
    BY InitialStockTyped
  <2>5. QED
    BY <2>1, <2>2, <2>3, <2>4
<1>12. StockMatchesLedger'
  BY <1>11 DEF StockMatchesLedger
<1>13. QED
  BY <1>6, <1>9, <1>10, <1>12 DEF Counting

(* Open transactions are rolled back: of H their handlers go to label.      *)
LEMMA RollbackCounting ==
    ASSUME Counting, NEW H \in SUBSET Message, NEW label \in {"failing", "queued"},
           label = "failing" => \A m \in H : HasNext(m),
           Release(H), UNCHANGED <<idx, pos, conflict, ledger, stock>>,
           pc' = [m \in Message |-> IF m \in H THEN label ELSE pc[m]]
    PROVE  Counting'
<1>1. CountTyped
  BY DEF Counting
<1>2. taken' = [n \in Message |-> IF n \in H THEN Nothing ELSE taken[n]]
  BY DEF Release
<1>3. CountTyped'
  <2>1. taken' \in [Message -> [Product -> Int]]
    BY <1>1, <1>2, NothingTyped DEF CountTyped
  <2>2. pc' \in [Message -> Running \cup {"queued", "acked"}]
    BY <1>1 DEF CountTyped, Running
  <2>3. QED
    BY <1>1, <2>1, <2>2 DEF CountTyped
<1>4. \A n \in Message : HasNext(n)' = HasNext(n) /\ Lines(n)' = Lines(n)
  BY DEF HasNext, Lines, Current
<1>5. InBatch'
  BY <1>4 DEF InBatch, Counting, InTransaction
<1>6. \A n \in Message : pc'[n] = "deduct" => ~conflict'[n]
  BY DEF Counting
<1>7. ASSUME NEW n \in Message, NEW p \in Product PROVE taken'[n][p] = Owed(n, p)'
  <2>1. CASE n \in H
    <3>1. taken'[n][p] = 0 /\ pc'[n] = label
      BY <1>2, <2>1, NothingTyped
    <3>2. QED
      BY <3>1 DEF Owed
  <2>2. CASE n \notin H
    <3>1. pc'[n] = pc[n] /\ taken'[n] = taken[n]
      BY <1>2, <2>2
    <3>2. Owed(n, p)' = Owed(n, p)
      BY <3>1 DEF Owed, Current
    <3>3. QED
      BY <3>1, <3>2 DEF Counting
  <2>3. QED
    BY <2>1, <2>2
<1>8. StockMatchesLedger'
  BY DEF StockMatchesLedger, Sold, Counting
<1>9. QED
  BY <1>3, <1>5, <1>6, <1>7, <1>8 DEF Counting

LEMMA AbortCounting ==
    ASSUME Counting, NEW m \in Message, pc[m] \in InTransaction, Abort(m)
    PROVE  Counting'
<1>1. HasNext(m) /\ pc \in [Message -> Running \cup {"queued", "acked"}]
  BY DEF Counting, InBatch, CountTyped
<1>2. /\ Release({m}) /\ UNCHANGED <<idx, pos, conflict, ledger, stock>>
      /\ pc' = [pc EXCEPT ![m] = "failing"]
  BY DEF Abort, Goto, tableVars
<1>3. pc' = [n \in Message |-> IF n \in {m} THEN "failing" ELSE pc[n]]
  BY <1>1, <1>2
<1>4. QED
  BY <1>1, <1>2, <1>3, RollbackCounting

LEMMA InitCounting == Init => Counting
<1> SUFFICES ASSUME Init PROVE Counting
  OBVIOUS
<1>1. TypeOK /\ InBatch
  BY InitInductive DEF Inductive
<1>2. CountTyped
  BY <1>1 DEF TypeOK, CountTyped
<1>3. \A m \in Message : pc[m] = "queued" /\ taken[m] = Nothing
  BY DEF Init
<1>4. \A m \in Message, p \in Product : taken[m][p] = Owed(m, p)
  BY <1>3, NothingTyped DEF Owed
<1>5. ASSUME NEW p \in Product PROVE stock[p] = InitialStock[p] - Total(Sold(p))
  <2>1. ledger = << >> /\ stock[p] = InitialStock[p]
    BY DEF Init
  <2>2. Sold(p) = << >>
    BY <2>1 DEF Sold
  <2>3. Total(Sold(p)) = 0
    BY <2>2, TotalEmpty
  <2>4. QED
    BY <2>1, <2>3, InitialStockTyped
<1>6. QED
  BY <1>1, <1>2, <1>3, <1>4, <1>5 DEF Counting, StockMatchesLedger

LEMMA NextCounting == Counting /\ [Next]_vars => Counting'
<1> SUFFICES ASSUME Counting, [Next]_vars PROVE Counting'
  OBVIOUS
<1>1. ASSUME NEW m \in Message, Step(m)
      PROVE  Counting'
  <2>1. CASE RejectHeader(m) \/ RejectDetails(m) \/ RejectHistory(m)
    BY <2>1, AbortCounting DEF RejectHeader, RejectDetails, RejectHistory, InTransaction
  <2>2. CASE DeadlockVictim(m)
    <3>1. pc[m] \in InTransaction
      BY <2>2 DEF DeadlockVictim, InDeadlock, Blockers, InTransaction
    <3>2. QED
      BY <2>2, <3>1, AbortCounting DEF DeadlockVictim
  <2>3. QED
    BY <1>1, <2>1, <2>2, LoopCounting, CheckCounting, DetailsCounting, DeductCounting,
       CommitCounting DEF Step
<1>2. CASE \E m \in Message : TransactionTimeout(m)
  BY <1>2, AbortCounting DEF TransactionTimeout
<1>3. CASE Crash
  <2>1. PICK H \in SUBSET Message :
           /\ Release(H) /\ UNCHANGED <<idx, pos, conflict, ledger, stock>>
           /\ pc' = [m \in Message |-> IF m \in H THEN "queued" ELSE pc[m]]
    <3>1. {m \in Message : pc[m] \in Running} \in SUBSET Message
      OBVIOUS
    <3>2. QED
      BY <1>3, <3>1 DEF Crash, tableVars
  <2>2. QED
    BY <2>1, RollbackCounting
<1>4. CASE UNCHANGED <<pc, idx, pos, conflict, taken, ledger, stock>>
  <2>1. CountTyped'
    BY <1>4 DEF Counting, CountTyped
  <2>2. InBatch'
    BY <1>4 DEF Counting, InBatch, HasNext, Lines, Current
  <2>3. \A m \in Message, p \in Product : Owed(m, p)' = Owed(m, p)
    BY <1>4 DEF Owed, Current
  <2>4. StockMatchesLedger'
    BY <1>4 DEF Counting, StockMatchesLedger, Sold
  <2>5. QED
    BY <1>4, <2>1, <2>2, <2>3, <2>4 DEF Counting
<1>5. CASE \E p \in Catalog : RemoveProduct(p) \/ ReactivateProduct(p)
  BY <1>4, <1>5 DEF RemoveProduct, ReactivateProduct, handlerVars, lockVars
<1>6. QED
  BY <1>1, <1>2, <1>3, <1>4, <1>5 DEF Next, Terminating, vars, handlerVars, lockVars, tableVars

(* However deliveries, duplicates, crashes, deadlocks and timeouts interleave,
   the stock is the initial stock less what the confirmed rows ask for: every
   row is deducted once and whole, and nothing else is.  Sales may repeat a
   product. *)
THEOREM WorkerStockMatches == Spec => []StockMatchesLedger
<1>1. Counting => StockMatchesLedger
  BY DEF Counting
<1>2. QED
  BY <1>1, InitCounting, NextCounting, PTL DEF Spec

-----------------------------------------------------------------------------
(* One row per offline_uuid, repeated lines or not.                         *)

Holding == {"details", "deduct", "commit"}

Recording ==
    /\ reserved \in [Uuid -> Message \cup {None}]
    /\ ReservedIsFresh
    /\ OneRowPerUuid

LEMMA CountedSales ==
    ASSUME Counting
    PROVE  \A n \in Message : pc[n] \in InTransaction =>
              Current(n) \in Sale /\ UuidOf[Current(n)] \in Uuid
BY CountCurrent, SalesAssumption

(* A step in which m neither takes nor gives up its index entry.            *)
LEMMA QuietRecording ==
    ASSUME Counting, Recording, NEW m \in Message,
           UNCHANGED <<reserved, ledger>>,
           \A n \in Message \ {m} : pc'[n] = pc[n] /\ idx'[n] = idx[n],
           pc[m] \in Holding <=> pc'[m] \in Holding,
           pc[m] \in Holding => idx'[m] = idx[m]
    PROVE  Recording'
<1>1. \A n \in Message : /\ pc[n] \in Holding <=> pc'[n] \in Holding
                         /\ pc[n] \in Holding => Current(n)' = Current(n)
  BY DEF Current
<1>2. Rows' = Rows
  BY DEF Rows
<1>3. ReservedIsFresh'
  BY <1>1, <1>2 DEF ReservedIsFresh, Recording, Holding
<1>4. QED
  BY <1>3 DEF Recording, OneRowPerUuid

(* The handlers of H roll back.                                             *)
LEMMA RollbackRecording ==
    ASSUME Counting, Recording, NEW H \in SUBSET Message,
           Release(H), UNCHANGED <<idx, ledger>>,
           \A n \in H : pc'[n] \notin Holding,
           \A n \in Message \ H : pc'[n] = pc[n]
    PROVE  Recording'
<1>1. \A n \in Message : Current(n)' = Current(n)
  BY DEF Current
<1>2. Rows' = Rows
  BY DEF Rows
<1>3. /\ reserved' \in [Uuid -> Message \cup {None}]
      /\ \A u \in Uuid : reserved'[u] = IF reserved[u] \in H THEN None ELSE reserved[u]
  BY DEF Release, Recording
<1>4. ASSUME NEW n \in Message, pc'[n] \in Holding
      PROVE  reserved'[UuidOf[Current(n)]] = n
  <2>1. n \notin H /\ pc[n] \in Holding
    BY <1>4
  <2>2. UuidOf[Current(n)] \in Uuid /\ reserved[UuidOf[Current(n)]] = n
    BY <2>1, CountedSales DEF Recording, ReservedIsFresh, Holding, InTransaction
  <2>3. QED
    BY <1>3, <2>1, <2>2
<1>5. ASSUME NEW u \in Uuid, reserved'[u] # None
      PROVE  /\ pc'[reserved'[u]] \in Holding
             /\ UuidOf[Current(reserved'[u])] = u
             /\ reserved'[u] \in Message
             /\ \A r \in Rows : UuidOf[r.sale] # u
  <2>1. reserved'[u] = reserved[u] /\ reserved[u] \in Message \ H
    BY <1>3, <1>5 DEF Recording
  <2>2. QED
    BY <1>5, <2>1 DEF Recording, ReservedIsFresh, Holding
<1>6. ReservedIsFresh'
  BY <1>1, <1>2, <1>4, <1>5 DEF ReservedIsFresh, Holding
<1>7. QED
  BY <1>3, <1>6 DEF Recording, OneRowPerUuid

LEMMA AbortRecording ==
    ASSUME Counting, Recording, NEW m \in Message, Abort(m)
    PROVE  Recording'
<1>1. /\ Release({m}) /\ UNCHANGED <<idx, ledger>>
      /\ pc'[m] = "failing" /\ \A n \in Message \ {m} : pc'[n] = pc[n]
  BY DEF Abort, Goto, tableVars, Counting, CountTyped
<1>2. QED
  BY <1>1, RollbackRecording DEF Holding

(* The insert takes the entry of a uuid that is neither held nor recorded.  *)
LEMMA HeaderRecording ==
    ASSUME Counting, Recording, NEW m \in Message, CreateTransactionHeader(m)
    PROVE  Recording'
<1> DEFINE v == UuidOf[Current(m)]
<1>1. /\ pc[m] = "header"
      /\ pc'[m] = "details" /\ \A n \in Message \ {m} : pc'[n] = pc[n]
      /\ reserved' = [reserved EXCEPT ![v] = m]
      /\ UNCHANGED <<idx, ledger>>
      /\ \A r \in Rows : UuidOf[r.sale] # v
  BY DEF CreateTransactionHeader, Goto, tableVars, Counting, CountTyped, UniqueViolation
<1>2. v \in Uuid
  BY <1>1, CountedSales DEF InTransaction
<1>3. Rows' = Rows /\ \A n \in Message : Current(n)' = Current(n)
  BY <1>1 DEF Rows, Current
<1>4. reserved[v] = None
  <2>1. IndexBlockers(m, v) = {}
    BY <1>1 DEF CreateTransactionHeader, Blockers
  <2>2. ASSUME reserved[v] = m PROVE FALSE
    <3>1. reserved[v] # None
      BY <2>2, DatabaseAssumption
    <3>2. pc[reserved[v]] \in Holding
      BY <1>2, <3>1 DEF Recording, ReservedIsFresh, Holding
    <3>3. QED
      BY <1>1, <2>2, <3>2 DEF Holding
  <2>3. QED
    BY <2>1, <2>2 DEF IndexBlockers
<1> HIDE DEF v
<1>5. ASSUME NEW n \in Message, pc'[n] \in Holding
      PROVE  reserved'[UuidOf[Current(n)]] = n
  <2>1. CASE n = m
    BY <1>1, <1>2, <2>1 DEF Recording, v
  <2>2. CASE n # m
    <3>1. reserved[UuidOf[Current(n)]] = n
      BY <1>1, <1>5, <2>2 DEF Recording, ReservedIsFresh, Holding
    <3>2. UuidOf[Current(n)] # v
      BY <1>4, <3>1, DatabaseAssumption
    <3>3. QED
      BY <1>1, <3>1, <3>2 DEF Recording
  <2>3. QED
    BY <2>1, <2>2
<1>6. ASSUME NEW u \in Uuid, reserved'[u] # None
      PROVE  /\ pc'[reserved'[u]] \in Holding
             /\ UuidOf[Current(reserved'[u])] = u
             /\ reserved'[u] \in Message
             /\ \A r \in Rows : UuidOf[r.sale] # u
  <2>1. CASE u = v
    BY <1>1, <1>2, <2>1 DEF Recording, Holding, v
  <2>2. CASE u # v
    <3>1. reserved'[u] = reserved[u] /\ reserved[u] \in Message
      BY <1>1, <1>6, <2>2 DEF Recording
    <3>2. pc[reserved[u]] \in Holding
      BY <1>6, <3>1 DEF Recording, ReservedIsFresh, Holding
    <3>3. pc'[reserved[u]] = pc[reserved[u]]
      BY <1>1, <3>1, <3>2 DEF Holding
    <3>4. QED
      BY <1>6, <3>1, <3>2, <3>3 DEF Recording, ReservedIsFresh
  <2>3. QED
    BY <2>1, <2>2
<1>7. ReservedIsFresh'
  BY <1>3, <1>5, <1>6 DEF ReservedIsFresh, Holding
<1>8. QED
  BY <1>1, <1>7 DEF Recording, OneRowPerUuid

LEMMA CommitRecording ==
    ASSUME Counting, Recording, NEW m \in Message, Commit(m)
    PROVE  Recording'
<1>1. ReservedIsFresh' /\ OneRowPerUuid'
  <2>1. /\ ledger \in Seq(Row) /\ DOMAIN idx = Message
        /\ pc \in [Message -> Running \cup {"queued", "acked"}]
    BY DEF Counting, CountTyped
  <2>2. QED
    BY <2>1, CountedSales, CommitRecords DEF Recording
<1>2. reserved' \in [Uuid -> Message \cup {None}]
  BY DEF Commit, Release, Recording
<1>3. QED
  BY <1>1, <1>2 DEF Recording

LEMMA InitRecording == Init => Recording
BY InitInductive DEF Inductive, TypeOK, Recording

LEMMA NextRecording == Counting /\ Recording /\ [Next]_vars => Recording'
<1> SUFFICES ASSUME Counting, Recording, [Next]_vars PROVE Recording'
  OBVIOUS
<1> USE DEF Holding
<1>1. pc \in [Message -> Running \cup {"queued", "acked"}]
  BY DEF Counting, CountTyped
<1>2. ASSUME NEW m \in Message, Step(m)
      PROVE  Recording'
  <2>1. CASE RejectHeader(m) \/ RejectDetails(m) \/ RejectHistory(m) \/ DeadlockVictim(m)
    BY <2>1, AbortRecording DEF RejectHeader, RejectDetails, RejectHistory, DeadlockVictim
  <2>2. CASE Receive(m) \/ SkipExisting(m) \/ BeginTransaction(m) \/ HandleFailure(m) \/ Ack(m)
    <3>1. /\ pc[m] \notin Holding /\ pc'[m] \notin Holding
          /\ \A n \in Message \ {m} : pc'[n] = pc[n] /\ idx'[n] = idx[n]
          /\ UNCHANGED <<reserved, ledger>>
      BY <1>1, <2>2 DEF Receive, SkipExisting, BeginTransaction, HandleFailure, Ack, Goto,
         lockVars, tableVars, Counting, CountTyped
    <3>2. QED
      BY <3>1, QuietRecording
  <2>3. CASE CheckStock(m)
    <3>1. /\ pc[m] = "check" /\ UNCHANGED <<idx, reserved, ledger>>
          /\ pc' = pc \/ pc' = [pc EXCEPT ![m] = "header"]
      BY <2>3 DEF CheckStock, NextLine, Goto, tableVars
    <3>2. QED
      BY <1>1, <3>1, QuietRecording
  <2>4. CASE CreateTransactionDetails(m) \/ DeductInventory(m)
    <3>1. PICK label \in {"deduct", "commit"} : pc' = pc \/ pc' = [pc EXCEPT ![m] = label]
      BY <2>4 DEF CreateTransactionDetails, DeductInventory, NextLine, Goto
    <3>2. pc[m] \in {"details", "deduct"} /\ UNCHANGED <<idx, reserved, ledger>>
      BY <2>4 DEF CreateTransactionDetails, DeductInventory, tableVars
    <3>3. QED
      BY <1>1, <3>1, <3>2, QuietRecording
  <2>5. QED
    BY <1>2, <2>1, <2>2, <2>3, <2>4, HeaderRecording, CommitRecording DEF Step
<1>3. CASE \E m \in Message : TransactionTimeout(m)
  BY <1>3, AbortRecording DEF TransactionTimeout
<1>4. CASE Crash
  <2>1. PICK H \in SUBSET Message :
           /\ Release(H) /\ UNCHANGED <<idx, ledger>>
           /\ pc' = [m \in Message |-> IF m \in H THEN "queued" ELSE pc[m]]
    <3>1. {m \in Message : pc[m] \in Running} \in SUBSET Message
      OBVIOUS
    <3>2. QED
      BY <1>4, <3>1 DEF Crash, tableVars
  <2>2. QED
    BY <2>1, RollbackRecording
<1>5. CASE UNCHANGED <<pc, idx, reserved, ledger>>
  BY <1>5 DEF Recording, ReservedIsFresh, OneRowPerUuid, Rows, Current
<1>6. CASE \E p \in Catalog : RemoveProduct(p) \/ ReactivateProduct(p)
  BY <1>5, <1>6 DEF RemoveProduct, ReactivateProduct, handlerVars, lockVars
<1>7. QED
  BY <1>2, <1>3, <1>4, <1>5, <1>6 DEF Next, Terminating, vars, handlerVars, lockVars, tableVars

(* createTransactionHeader records an offline_uuid at most once, whatever the
   number of concurrent deliveries, duplicates and crashes: the entry of the
   unique index is held until the transaction ends.  Sales may repeat a
   product. *)
THEOREM WorkerRecordsOnce == Spec => []OneRowPerUuid
<1>1. Init => Counting /\ Recording
  BY InitCounting, InitRecording
<1>2. Counting /\ Recording /\ [Next]_vars => (Counting /\ Recording)'
  BY NextCounting, NextRecording
<1>3. Recording => OneRowPerUuid
  BY DEF Recording
<1>4. QED
  BY <1>1, <1>2, <1>3, PTL DEF Spec

-----------------------------------------------------------------------------
(* What was found covered or uncovered still is when the row commits.       *)

(* The lines whose product the handler has found in stock.                  *)
Cleared(m) ==
    CASE pc[m] = "check" -> 1 .. pos[m] - 1
      [] pc[m] \in {"header", "details", "deduct", "commit"} /\ ~conflict[m] ->
            1 .. Len(Lines(m))
      [] OTHER -> {}

StillActive(m) ==
    \A k \in Cleared(m) : LET p == Lines(m)[k].product IN lock[p] = m /\ p \in active

StillShort(m) ==
    pc[m] \in {"header", "details", "deduct", "commit"} /\ conflict[m] =>
        \E k \in 1 .. Len(Lines(m)) : LET l == Lines(m)[k] IN
            /\ l.product \notin Catalog \/ lock[l.product] = m
            /\ l.product \notin active \/ stock[l.product] < l.quantity

Judged == \A m \in Message : StillActive(m) /\ StillShort(m)

LEMMA ClearedLines ==
    ASSUME TypeOK, InBatch, NEW m \in Message
    PROVE  /\ pc[m] \notin InTransaction => Cleared(m) = {} /\ StillActive(m) /\ StillShort(m)
           /\ pc[m] \in InTransaction => Cleared(m) \subseteq 1 .. Len(Lines(m))
<1>1. CASE pc[m] \notin InTransaction
  <2>1. Cleared(m) = {}
    BY <1>1 DEF Cleared, InTransaction
  <2>2. QED
    BY <1>1, <2>1 DEF StillActive, StillShort, InTransaction
<1>2. CASE pc[m] \in InTransaction
  <2>1. pos[m] \in 1 .. Len(Lines(m)) /\ Len(Lines(m)) \in Nat
    BY <1>2, HereTyped, CurrentTyped
  <2>2. QED
    BY <1>2, <2>1 DEF Cleared
<1>3. QED
  BY <1>1, <1>2

(* A handler keeps its judgement while nobody touches what it has locked.   *)
LEMMA JudgementKept ==
    ASSUME TypeOK, InBatch, TypeOK', NEW n \in Message, StillActive(n) /\ StillShort(n),
           SameHandler(n),
           \A p \in Product : lock[p] = n =>
              /\ lock'[p] = n
              /\ p \in active' <=> p \in active
              /\ stock'[p] = stock[p]
    PROVE  StillActive(n)' /\ StillShort(n)'
<1>1. /\ Lines(n)' = Lines(n) /\ Cleared(n)' = Cleared(n) /\ pc'[n] = pc[n]
      /\ conflict'[n] = conflict[n]
      /\ active' \subseteq Catalog
  BY DEF SameHandler, Lines, Current, Cleared, TypeOK
<1>2. CASE pc[n] \notin InTransaction
  BY <1>1, <1>2, ClearedLines DEF StillActive, StillShort, InTransaction
<1>3. CASE pc[n] \in InTransaction
  <2>1. \A k \in 1 .. Len(Lines(n)) : Lines(n)[k].product \in Product
    BY <1>3, LineTyped
  <2>2. Cleared(n) \subseteq 1 .. Len(Lines(n))
    BY <1>3, ClearedLines
  <2>3. StillActive(n)'
    BY <1>1, <2>1, <2>2 DEF StillActive
  <2>4. StillShort(n)'
    <3>1. SUFFICES ASSUME pc[n] \in {"header", "details", "deduct", "commit"} /\ conflict[n]
                   PROVE  \E k \in 1 .. Len(Lines(n)) :
                             /\ Lines(n)[k].product \notin Catalog \/ lock'[Lines(n)[k].product] = n
                             /\ \/ Lines(n)[k].product \notin active'
                                \/ stock'[Lines(n)[k].product] < Lines(n)[k].quantity
      BY <1>1 DEF StillShort
    <3>2. PICK k \in 1 .. Len(Lines(n)) :
             /\ Lines(n)[k].product \notin Catalog \/ lock[Lines(n)[k].product] = n
             /\ \/ Lines(n)[k].product \notin active
                \/ stock[Lines(n)[k].product] < Lines(n)[k].quantity
      BY <3>1 DEF StillShort
    <3>3. QED
      BY <1>1, <2>1, <3>2
  <2>5. QED
    BY <2>3, <2>4
<1>4. QED
  BY <1>2, <1>3

(* A step of m that touches no lock of another handler.                     *)
LEMMA StepJudged ==
    ASSUME TypeOK, InBatch, TypeOK', Judged, NEW m \in Message,
           \A n \in Message \ {m} : SameHandler(n),
           \A n \in Message \ {m}, p \in Product : lock[p] = n =>
              lock'[p] = n /\ stock'[p] = stock[p],
           active' = active,
           StillActive(m)' /\ StillShort(m)'
    PROVE  Judged'
<1>1. ASSUME NEW n \in Message \ {m} PROVE StillActive(n)' /\ StillShort(n)'
  BY JudgementKept DEF Judged
<1>2. QED
  BY <1>1 DEF Judged

(* A handler that has left its transaction judges nothing.                  *)
LEMMA LeaveJudged ==
    ASSUME TypeOK, InBatch, TypeOK', Judged, NEW m \in Message,
           \A n \in Message \ {m} : SameHandler(n),
           \A n \in Message \ {m}, p \in Product : lock[p] = n =>
              lock'[p] = n /\ stock'[p] = stock[p],
           active' = active,
           pc'[m] \notin InTransaction \/ (pc'[m] = "check" /\ pos'[m] = 1)
    PROVE  Judged'
<1>1. Cleared(m)' = {}
  BY DEF Cleared, InTransaction
<1>2. StillActive(m)' /\ StillShort(m)'
  BY <1>1 DEF StillActive, StillShort, InTransaction
<1>3. QED
  BY <1>2, StepJudged

LEMMA LoopJudged ==
    ASSUME Inductive, Inductive', Judged, NEW m \in Message,
           Receive(m) \/ SkipExisting(m) \/ BeginTransaction(m) \/ HandleFailure(m) \/ Ack(m)
    PROVE  Judged'
<1>1. TypeOK /\ InBatch /\ TypeOK'
  BY DEF Inductive
<1>2. /\ UNCHANGED <<lock, stock, active, conflict>>
      /\ \A n \in Message \ {m} : idx'[n] = idx[n] /\ pos'[n] = pos[n] /\ pc'[n] = pc[n]
  BY <1>1 DEF Receive, SkipExisting, BeginTransaction, HandleFailure, Ack, Goto, tableVars, lockVars,
     TypeOK
<1>3. pc'[m] \notin InTransaction \/ (pc'[m] = "check" /\ pos'[m] = 1)
  BY <1>1 DEF Receive, SkipExisting, BeginTransaction, HandleFailure, Ack, Goto, InTransaction, TypeOK
<1>4. QED
  BY <1>1, <1>2, <1>3, LeaveJudged DEF SameHandler

LEMMA ReleaseJudged ==
    ASSUME Inductive, Inductive', Judged, NEW m \in Message, Release({m}),
           \/ Commit(m)
           \/ Abort(m) /\ pc[m] \in InTransaction
    PROVE  Judged'
<1>1. TypeOK /\ InBatch /\ TypeOK' /\ TakenIsLocked
  BY DEF Inductive
<1>2. \A p \in Product : lock'[p] = IF lock[p] = m THEN None ELSE lock[p]
  BY DEF Release
<1>3. \A n \in Message \ {m}, p \in Product : lock[p] = n => lock'[p] = n
  BY <1>2
<1>4. active' = active /\ pc'[m] \notin InTransaction /\ \A n \in Message \ {m} : SameHandler(n)
  BY <1>1 DEF Commit, Abort, Goto, SameHandler, tableVars, InTransaction, TypeOK
<1>5. ASSUME NEW n \in Message \ {m}, NEW p \in Product, lock[p] = n PROVE stock'[p] = stock[p]
  <2>1. CASE Abort(m)
    BY <2>1 DEF Abort, tableVars
  <2>2. CASE Commit(m)
    <3>1. taken[m][p] \in Nat /\ stock[p] \in Int
      BY <1>1 DEF TypeOK
    <3>2. ~(taken[m][p] > 0)
      BY <1>1, <1>5 DEF TakenIsLocked
    <3>3. stock'[p] = stock[p] - taken[m][p]
      BY <2>2 DEF Commit
    <3>4. QED
      BY <3>1, <3>2, <3>3
  <2>3. QED
    BY <2>1, <2>2
<1>6. QED
  BY <1>1, <1>3, <1>4, <1>5, LeaveJudged

LEMMA CheckStockJudged ==
    ASSUME Inductive, Inductive', Judged, NEW m \in Message, CheckStock(m)
    PROVE  Judged'
<1> SUFFICES ASSUME NEW l, l = Here(m), NEW p, p = l.product, NEW k, k = pos[m]
             PROVE  Judged'
  OBVIOUS
<1>1. TypeOK /\ InBatch /\ TypeOK'
  BY DEF Inductive
<1>2. pc[m] = "check" /\ pc[m] \in InTransaction
  BY DEF CheckStock, InTransaction
<1>3. /\ k \in 1 .. Len(Lines(m)) /\ Len(Lines(m)) \in Nat
      /\ p \in Product /\ l = Lines(m)[k]
  BY <1>1, <1>2, HereTyped, CurrentTyped DEF Here
<1>4. /\ lock' = IF p \in Catalog THEN [lock EXCEPT ![p] = m] ELSE lock
      /\ conflict' = [conflict EXCEPT ![m] = ~Covered(m)]
      /\ UNCHANGED <<idx, stock, active>>
      /\ Covered(m) <=> p \in active /\ stock[p] >= l.quantity
  BY DEF CheckStock, Covered, tableVars
<1>5. p \in Catalog => lock[p] \in {m, None} /\ lock'[p] = m
  BY <1>1, <1>2, <1>3, <1>4 DEF CheckStock, Blockers, ExclusiveBlockers, TypeOK
<1>6. \A n \in Message \ {m}, q \in Product : lock[q] = n => lock'[q] = n
  <2>1. None \notin Message /\ lock \in [Product -> Message \cup {None}]
    BY <1>1, DatabaseAssumption DEF TypeOK
  <2>2. lock' = IF p \in Catalog THEN [lock EXCEPT ![p] = m] ELSE lock
    BY <1>4
  <2>3. CASE p \in Catalog
    <3>1. lock[p] \in {m, None} /\ lock' = [lock EXCEPT ![p] = m]
      BY <1>5, <2>2, <2>3
    <3>2. QED
      BY <2>1, <3>1
  <2>4. CASE p \notin Catalog
    BY <2>2, <2>4
  <2>5. QED
    BY <2>3, <2>4
<1>7. \A q \in Product : lock[q] = m => lock'[q] = m
  BY <1>1, <1>4 DEF TypeOK
<1>8. \A n \in Message \ {m} : SameHandler(n)
  BY <1>1, <1>4 DEF CheckStock, NextLine, Goto, SameHandler, TypeOK
<1>9. /\ Lines(m)' = Lines(m)
      /\ active \subseteq Catalog
      /\ StillActive(m)
  <2>1. Lines(m)' = Lines(m)
    BY <1>4 DEF Lines, Current
  <2>2. active \subseteq Catalog
    BY <1>1 DEF TypeOK
  <2>3. StillActive(m)
    BY DEF Judged
  <2>4. QED
    BY <2>1, <2>2, <2>3
<1>10. CASE Covered(m)
  <2>1. p \in active /\ lock'[p] = m /\ conflict'[m] = FALSE
    BY <1>1, <1>4, <1>5, <1>9, <1>10 DEF TypeOK
  <2>2. \/ pc'[m] = "check" /\ pos'[m] = k + 1
        \/ pc'[m] = "header" /\ k = Len(Lines(m))
    <3>1. NextLine(m, "header")
      BY <1>10 DEF CheckStock
    <3>2. /\ pc \in [Message -> Running \cup {"queued", "acked"}]
          /\ pos \in [Message -> Nat \ {0}]
      BY <1>1 DEF TypeOK
    <3>3. CASE pos[m] < Len(Lines(m))
      BY <1>2, <3>1, <3>2, <3>3 DEF NextLine
    <3>4. CASE ~(pos[m] < Len(Lines(m)))
      <4>1. pc'[m] = "header"
        BY <3>1, <3>2, <3>4 DEF NextLine, Goto
      <4>2. QED
        BY <1>3, <3>4, <4>1
    <3>5. QED
      BY <3>3, <3>4
  <2>3. \A j \in Cleared(m)' : j \in Cleared(m) \/ j = k
    <3>1. Cleared(m) = 1 .. k - 1
      BY <1>2 DEF Cleared
    <3>2. CASE pc'[m] = "check" /\ pos'[m] = k + 1
      <4>1. Cleared(m)' = 1 .. (k + 1) - 1
        BY <3>2 DEF Cleared
      <4>2. QED
        BY <1>3, <3>1, <4>1
    <3>3. CASE pc'[m] = "header" /\ k = Len(Lines(m))
      <4>1. Cleared(m)' = 1 .. k
        BY <1>9, <2>1, <3>3 DEF Cleared
      <4>2. QED
        BY <1>3, <3>1, <4>1
    <3>4. QED
      BY <2>2, <3>2, <3>3
  <2>4. StillActive(m)'
    <3>1. ASSUME NEW j \in Cleared(m)'
          PROVE  lock'[Lines(m)[j].product] = m /\ Lines(m)[j].product \in active
      <4>1. CASE j = k
        BY <1>3, <2>1, <4>1
      <4>2. CASE j \in Cleared(m)
        <5>1. lock[Lines(m)[j].product] = m /\ Lines(m)[j].product \in active
          BY <1>9, <4>2 DEF StillActive
        <5>2. Lines(m)[j].product \in Product
          BY <1>9, <5>1, DatabaseAssumption
        <5>3. QED
          BY <1>7, <5>1, <5>2
      <4>3. QED
        BY <2>3, <4>1, <4>2
    <3>2. QED
      BY <1>4, <1>9, <3>1 DEF StillActive
  <2>5. StillShort(m)'
    BY <2>1 DEF StillShort
  <2>6. QED
    BY <1>1, <1>4, <1>6, <1>8, <2>4, <2>5, StepJudged
<1>11. CASE ~Covered(m)
  <2>1. pc'[m] = "header" /\ conflict'[m] = TRUE
    BY <1>1, <1>4, <1>11 DEF CheckStock, Goto, TypeOK
  <2>2. Cleared(m)' = {}
    BY <2>1 DEF Cleared
  <2>3. StillActive(m)'
    BY <2>2 DEF StillActive
  <2>4. stock[p] \in Int /\ l.quantity \in Nat
    BY <1>1, <1>2, <1>3, HereTyped DEF TypeOK
  <2>5. p \notin active \/ stock[p] < l.quantity
    BY <1>4, <1>11, <2>4
  <2>6. StillShort(m)'
    BY <1>3, <1>4, <1>5, <1>9, <2>5 DEF StillShort
  <2>7. QED
    BY <1>1, <1>4, <1>6, <1>8, <2>3, <2>6, StepJudged
<1>12. QED
  BY <1>10, <1>11

(* Statements that change neither locks nor lines nor the judgement.        *)
LEMMA WriteJudged ==
    ASSUME Inductive, Inductive', Judged, NEW m \in Message,
           CreateTransactionHeader(m) \/ CreateTransactionDetails(m) \/ DeductInventory(m)
    PROVE  Judged'
<1>1. TypeOK /\ InBatch /\ TypeOK'
  BY DEF Inductive
<1>2. /\ UNCHANGED <<lock, stock, active, conflict, idx>>
      /\ \A n \in Message \ {m} : pos'[n] = pos[n] /\ pc'[n] = pc[n]
  BY <1>1 DEF CreateTransactionHeader, CreateTransactionDetails, DeductInventory, NextLine, Goto,
     tableVars, TypeOK
<1>3. /\ pc[m] \in {"header", "details", "deduct"}
      /\ pc'[m] \in {"header", "details", "deduct", "commit"}
  BY <1>1 DEF CreateTransactionHeader, CreateTransactionDetails, DeductInventory, NextLine, Goto,
     TypeOK
<1>4. Lines(m)' = Lines(m) /\ Cleared(m)' = Cleared(m)
  <2>1. Lines(m)' = Lines(m)
    BY <1>2 DEF Lines, Current
  <2>2. QED
    BY <1>2, <1>3, <2>1 DEF Cleared
<1>5. StillActive(m)' /\ StillShort(m)'
  BY <1>2, <1>3, <1>4 DEF StillActive, StillShort, Judged
<1>6. QED
  BY <1>1, <1>2, <1>5, StepJudged DEF SameHandler

LEMMA CrashJudged ==
    ASSUME Inductive, Inductive', Judged, Crash PROVE Judged'
<1>1. TypeOK /\ InBatch /\ TypeOK'
  BY DEF Inductive
<1> DEFINE H == {m \in Message : pc[m] \in Running}
<1>2. /\ pc' = [m \in Message |-> IF m \in H THEN "queued" ELSE pc[m]]
      /\ lock' = [p \in Product |-> IF lock[p] \in H THEN None ELSE lock[p]]
      /\ UNCHANGED <<idx, pos, conflict, stock, active>>
  BY DEF Crash, Release, tableVars
<1>3. ASSUME NEW n \in Message PROVE StillActive(n)' /\ StillShort(n)'
  <2>1. pc'[n] \notin InTransaction
    BY <1>2 DEF Running, InTransaction
  <2>2. Cleared(n)' = {}
    BY <2>1 DEF Cleared, InTransaction
  <2>3. QED
    BY <2>1, <2>2 DEF StillActive, StillShort, InTransaction
<1>4. QED
  BY <1>3 DEF Judged

LEMMA RelistJudged ==
    ASSUME Inductive, Inductive', Judged, NEW p \in Catalog,
           RemoveProduct(p) \/ ReactivateProduct(p)
    PROVE  Judged'
<1>1. TypeOK /\ InBatch /\ TypeOK'
  BY DEF Inductive
<1>2. /\ lock[p] = None
      /\ UNCHANGED <<pc, idx, pos, conflict, lock, stock>>
      /\ active' \in {active \ {p}, active \cup {p}}
  BY DEF RemoveProduct, ReactivateProduct, handlerVars, lockVars
<1>3. ASSUME NEW n \in Message PROVE StillActive(n)' /\ StillShort(n)'
  <2>1. None \notin Message
    BY DatabaseAssumption
  <2>2. \A q \in Product : lock[q] = n =>
           lock'[q] = n /\ (q \in active' <=> q \in active) /\ stock'[q] = stock[q]
    BY <1>2, <2>1
  <2>3. SameHandler(n) /\ StillActive(n) /\ StillShort(n)
    BY <1>2 DEF SameHandler, Judged
  <2>4. QED
    BY <1>1, <2>2, <2>3, JudgementKept
<1>4. QED
  BY <1>3 DEF Judged

LEMMA NextJudged == Inductive /\ Inductive' /\ Judged /\ [Next]_vars => Judged'
<1> SUFFICES ASSUME Inductive, Inductive', Judged, [Next]_vars PROVE Judged'
  OBVIOUS
<1>1. ASSUME NEW m \in Message, Step(m)
      PROVE  Judged'
  <2>1. CASE RejectHeader(m) \/ RejectDetails(m) \/ RejectHistory(m)
    BY <2>1, ReleaseJudged DEF RejectHeader, RejectDetails, RejectHistory, InTransaction, Abort
  <2>2. CASE DeadlockVictim(m)
    <3>1. pc[m] \in InTransaction
      BY <2>2 DEF DeadlockVictim, InDeadlock, Blockers, InTransaction
    <3>2. QED
      BY <2>2, <3>1, ReleaseJudged DEF DeadlockVictim, Abort
  <2>3. CASE Commit(m)
    BY <2>3, ReleaseJudged DEF Commit
  <2>4. QED
    BY <1>1, <2>1, <2>2, <2>3, LoopJudged, CheckStockJudged, WriteJudged DEF Step
<1>2. CASE \E m \in Message : TransactionTimeout(m)
  BY <1>2, ReleaseJudged DEF TransactionTimeout, Abort
<1>3. CASE Crash
  BY <1>3, CrashJudged
<1>4. CASE \E p \in Catalog : RemoveProduct(p) \/ ReactivateProduct(p)
  BY <1>4, RelistJudged
<1>5. CASE UNCHANGED vars
  <2>1. UNCHANGED <<pc, idx, pos, conflict, lock, stock, active>>
    BY <1>5 DEF vars, handlerVars, lockVars, tableVars
  <2>2. \A n \in Message : Lines(n)' = Lines(n) /\ Cleared(n)' = Cleared(n)
    BY <2>1 DEF Lines, Current, Cleared
  <2>3. QED
    BY <2>1, <2>2 DEF Judged, StillActive, StillShort
<1>6. QED
  BY <1>1, <1>2, <1>3, <1>4, <1>5 DEF Next, Terminating

LEMMA InitJudged == Init => Judged
BY DEF Init, Judged, StillActive, StillShort, Cleared

-----------------------------------------------------------------------------
(* The refinement of SaleLedger.                                            *)

(* What the ledger of SaleLedger calls the quantity of a product in a sale. *)
LEMMA QuantityIsDemand ==
    ASSUME NEW s, NEW p PROVE Promise!Quantity(s, p) = Demand(s, p)
BY DEF Promise!Quantity, Promise!Total, Promise!SumTo, Total, SumTo, Demand, Wanted

(* With distinct lines, the sale asks of a product what its line asks.      *)
LEMMA DemandOfLine ==
    ASSUME DistinctLines, NEW s \in Sale, NEW k \in DOMAIN LinesOf[s]
    PROVE  Demand(s, LinesOf[s][k].product) = LinesOf[s][k].quantity
<1> SUFFICES ASSUME NEW p, p = LinesOf[s][k].product
             PROVE  Demand(s, p) = LinesOf[s][k].quantity
  OBVIOUS
<1>1. k \in 1 .. Len(LinesOf[s])
  BY SalesAssumption, LenProperties
<1>2. p \in Product
  BY <1>1, SalesAssumption, ElementOfSeq
<1>3. /\ Len(Wanted(s, p)) = Len(LinesOf[s]) /\ Len(LinesOf[s]) \in Nat
      /\ \A j \in 1 .. Len(LinesOf[s]) :
            /\ LinesOf[s][j].quantity \in Nat \ {0}
            /\ Wanted(s, p)[j] = IF LinesOf[s][j].product = p THEN LinesOf[s][j].quantity ELSE 0
  BY <1>2, WantedTyped
<1>4. \A j \in 1 .. Len(LinesOf[s]) : j # k => Wanted(s, p)[j] = 0
  BY <1>1, <1>3, SalesAssumption, LenProperties DEF DistinctLines
<1>5. Wanted(s, p)[k] = LinesOf[s][k].quantity /\ Wanted(s, p)[k] \in Int
  BY <1>1, <1>3
<1>6. SumTo(Wanted(s, p), Len(LinesOf[s])) = Wanted(s, p)[k]
  BY <1>1, <1>3, <1>4, <1>5, SumToSingle
<1>7. QED
  BY <1>3, <1>5, <1>6 DEF Demand, Total

(* The commit of m is Confirm or Park of its sale.                          *)
LEMMA CommitPromised ==
    ASSUME DistinctLines, Inductive, Counting, Judged, NEW m \in Message, Commit(m)
    PROVE  Promise!Next
<1> SUFFICES ASSUME NEW s, s = Current(m) PROVE Promise!Next
  OBVIOUS
<1>1. TypeOK /\ InBatch /\ TakenIsLocked /\ ReservedIsFresh /\ NoOversell
  BY DEF Inductive
<1>2. pc[m] = "commit" /\ pc[m] \in InTransaction /\ UNCHANGED active
  BY DEF Commit, InTransaction
<1>3. /\ ledger' = Append(ledger, [sale |-> s,
                                   status |-> IF conflict[m] THEN "PENDING" ELSE "CONFIRMED"])
      /\ stock' = [p \in Product |-> stock[p] - taken[m][p]]
  BY DEF Commit
<1>4. s \in Sale /\ Lines(m) = LinesOf[s]
  BY <1>1, <1>2, CurrentTyped DEF Lines
<1>5. DOMAIN LinesOf[s] = 1 .. Len(LinesOf[s])
  BY <1>4, SalesAssumption, LenProperties
<1>6. Promise!Fresh(s)
  <2>1. reserved[UuidOf[s]] = m /\ m # None /\ UuidOf[s] \in Uuid
    BY <1>1, <1>2, <1>4, SalesAssumption, DatabaseAssumption DEF ReservedIsFresh
  <2>2. \A r \in Rows : UuidOf[r.sale] # UuidOf[s]
    BY <1>1, <2>1 DEF ReservedIsFresh
  <2>3. QED
    BY <2>2 DEF Promise!Fresh, Rows
<1>7. conflict[m] \in BOOLEAN /\ stock \in [Product -> Int] /\ taken[m] \in [Product -> Nat]
  BY <1>1 DEF TypeOK
<1>8. \A p \in Product : taken[m][p] = IF ~conflict[m] THEN Demand(s, p) ELSE 0
  BY <1>2 DEF Counting, Owed
<1>9. \A k \in DOMAIN LinesOf[s] : LinesOf[s][k].product \in Product
  BY <1>4, <1>5, WantedTyped, SalesAssumption, ElementOfSeq
<1>10. CASE ~conflict[m]
  <2>1. ASSUME NEW p \in Promise!Ordered(s)
        PROVE  p \in active /\ stock[p] >= Promise!Quantity(s, p)
    <3>1. PICK k \in DOMAIN LinesOf[s] : p = LinesOf[s][k].product
      BY DEF Promise!Ordered
    <3>2. k \in Cleared(m)
      BY <1>2, <1>4, <1>5, <1>10 DEF Cleared
    <3>3. p \in active
      BY <1>4, <3>1, <3>2 DEF Judged, StillActive
    <3>4. p \in Product /\ taken[m][p] = Demand(s, p)
      BY <1>8, <1>9, <1>10, <3>1
    <3>5. stock[p] >= taken[m][p]
      <4>1. stock[p] \in Int /\ taken[m][p] \in Nat /\ stock[p] >= 0
        BY <1>1, <1>7, <3>4 DEF NoOversell
      <4>2. taken[m][p] > 0 => taken[m][p] <= stock[p]
        BY <1>1, <3>4 DEF TakenIsLocked
      <4>3. QED
        BY <4>1, <4>2
    <3>6. QED
      BY <3>3, <3>4, <3>5, QuantityIsDemand
  <2>2. Promise!Covered(s)
    BY <2>1 DEF Promise!Covered
  <2>3. stock' = [p \in Product |-> stock[p] - Promise!Quantity(s, p)]
    BY <1>3, <1>8, <1>10, QuantityIsDemand
  <2>4. ledger' = Append(ledger, [sale |-> s, status |-> "CONFIRMED"])
    BY <1>3, <1>10
  <2>5. Promise!Confirm(s)
    BY <1>2, <1>6, <2>2, <2>3, <2>4 DEF Promise!Confirm
  <2>6. QED
    BY <1>4, <2>5 DEF Promise!Next
<1>11. CASE conflict[m]
  <2>1. PICK k \in 1 .. Len(LinesOf[s]) :
           \/ LinesOf[s][k].product \notin active
           \/ stock[LinesOf[s][k].product] < LinesOf[s][k].quantity
    BY <1>2, <1>4, <1>11 DEF Judged, StillShort
  <2>2. ~Promise!Covered(s)
    <3>1. Promise!Quantity(s, LinesOf[s][k].product) = LinesOf[s][k].quantity
      BY <1>4, <1>5, DemandOfLine, QuantityIsDemand
    <3>2. LinesOf[s][k].product \in Promise!Ordered(s)
      BY <1>5 DEF Promise!Ordered
    <3>3. stock[LinesOf[s][k].product] \in Int /\ LinesOf[s][k].quantity \in Nat
      BY <1>4, <1>5, <1>7, <1>9, WantedTyped
    <3>4. QED
      BY <2>1, <3>1, <3>2, <3>3 DEF Promise!Covered
  <2>3. stock' = stock
    <3>1. \A p \in Product : stock[p] \in Int /\ stock[p] - taken[m][p] = stock[p]
      BY <1>7, <1>8, <1>11
    <3>2. QED
      BY <1>3, <1>7, <3>1
  <2>4. ledger' = Append(ledger, [sale |-> s, status |-> "PENDING"])
    BY <1>3, <1>11
  <2>5. Promise!Park(s)
    BY <1>2, <1>6, <2>2, <2>3, <2>4 DEF Promise!Park
  <2>6. QED
    BY <1>4, <2>5 DEF Promise!Next
<1>12. QED
  BY <1>7, <1>10, <1>11

LEMMA NextPromised ==
    ASSUME DistinctLines
    PROVE  Inductive /\ Counting /\ Judged /\ [Next]_vars => [Promise!Next]_(Promise!vars)
<1> SUFFICES ASSUME Inductive, Counting, Judged, [Next]_vars
             PROVE  [Promise!Next]_(Promise!vars)
  OBVIOUS
<1>1. CASE \E m \in Message : Commit(m)
  BY <1>1, CommitPromised
<1>2. CASE \E p \in Catalog : RemoveProduct(p) \/ ReactivateProduct(p)
  BY <1>2 DEF RemoveProduct, ReactivateProduct, Promise!Next, Promise!Relist
<1>3. CASE UNCHANGED <<ledger, stock, active>>
  BY <1>3 DEF Promise!vars
<1>4. ASSUME NEW m \in Message, Step(m), ~Commit(m)
      PROVE  UNCHANGED <<ledger, stock, active>>
  BY <1>4 DEF Step, Receive, SkipExisting, BeginTransaction, CheckStock, CreateTransactionHeader,
     RejectHeader, CreateTransactionDetails, RejectDetails, DeductInventory, RejectHistory,
     DeadlockVictim, HandleFailure, Ack, Abort, tableVars
<1>5. CASE Crash \/ \E m \in Message : TransactionTimeout(m)
  BY <1>3, <1>5 DEF Crash, TransactionTimeout, Abort, tableVars
<1>6. CASE UNCHANGED vars
  BY <1>3, <1>6 DEF vars, tableVars
<1>7. QED
  BY <1>1, <1>2, <1>3, <1>4, <1>5, <1>6 DEF Next, Terminating

(* The handlers implement SaleLedger: however deliveries, crashes, deadlocks
   and withdrawals of products interleave, a row, its status and its whole
   deduction appear in one instant, for an offline_uuid that has no row, and
   the sale is CONFIRMED if and only if the stock covers it at that instant,
   not only when checkStockAvailability looked. *)
THEOREM WorkerKeepsLedger == ASSUME DistinctLines PROVE Spec => ImplementsSaleLedger
<1>1. Init => Promise!Init
  BY DEF Init, Promise!Init
<1>2. Inductive /\ Counting /\ Judged /\ [Next]_vars => [Promise!Next]_(Promise!vars)
  BY NextPromised
<1>3. Spec => []Inductive
  BY WorkerInductive
<1>4. Spec => []Counting
  BY InitCounting, NextCounting, PTL DEF Spec
<1>5. Spec => []Judged
  BY <1>3, InitJudged, NextJudged, PTL DEF Spec
<1>6. QED
  BY <1>1, <1>2, <1>3, <1>4, <1>5, PTL DEF Spec, ImplementsSaleLedger, Promise!Spec

-----------------------------------------------------------------------------
(* Whoever holds a row or an index entry is inside a transaction: so all    *)
(* handlers wait only if some wait in a cycle, and PostgreSQL ends that.    *)

Holders ==
    /\ lock \in [Product -> Message \cup {None}]
    /\ shared \in [Product -> SUBSET Message]
    /\ \A p \in Product : lock[p] # None => pc[lock[p]] \in InTransaction
    /\ \A p \in Product : \A m \in shared[p] : pc[m] \in Holding

LEMMA StepHolders ==
    ASSUME Holders, NEW m \in Message,
           \A n \in Message \ {m} : pc'[n] = pc[n],
           lock' \in [Product -> Message \cup {None}],
           shared' \in [Product -> SUBSET Message],
           \A p \in Product : lock'[p] \in {lock[p], m, None},
           \A p \in Product : shared'[p] \subseteq shared[p] \cup {m},
           pc'[m] \in InTransaction \/ \A p \in Product : lock'[p] # m,
           pc'[m] \in Holding \/ \A p \in Product : m \notin shared'[p]
    PROVE  Holders'
<1>1. ASSUME NEW p \in Product, lock'[p] # None PROVE pc'[lock'[p]] \in InTransaction
  <2>1. CASE lock'[p] = m
    BY <2>1
  <2>2. CASE lock'[p] # m
    <3>1. lock'[p] = lock[p] /\ lock[p] \in Message \ {m}
      BY <1>1, <2>2 DEF Holders
    <3>2. QED
      BY <1>1, <3>1 DEF Holders
  <2>3. QED
    BY <2>1, <2>2
<1>2. ASSUME NEW p \in Product, NEW n \in shared'[p] PROVE pc'[n] \in Holding
  BY <1>2 DEF Holders
<1>3. QED
  BY <1>1, <1>2 DEF Holders

LEMMA ReleaseHolders ==
    ASSUME Holders, NEW H \in SUBSET Message, Release(H),
           \A n \in Message \ H : pc'[n] = pc[n]
    PROVE  Holders'
<1>1. \A n \in Message : n # None
  BY DatabaseAssumption
<1>2. \A p \in Product : /\ lock'[p] = IF lock[p] \in H THEN None ELSE lock[p]
                         /\ shared'[p] = shared[p] \ H
  BY DEF Release
<1>3. /\ lock' \in [Product -> Message \cup {None}]
      /\ shared' \in [Product -> SUBSET Message]
  BY DEF Release, Holders
<1>4. \A p \in Product : lock'[p] # None => pc'[lock'[p]] \in InTransaction
  BY <1>2, <1>3 DEF Holders
<1>5. \A p \in Product : \A n \in shared'[p] : pc'[n] \in Holding
  BY <1>2 DEF Holders
<1>6. QED
  BY <1>3, <1>4, <1>5 DEF Holders

LEMMA AbortHolders ==
    ASSUME Counting, Holders, NEW m \in Message, Abort(m)
    PROVE  Holders'
<1>1. Release({m}) /\ \A n \in Message \ {m} : pc'[n] = pc[n]
  BY DEF Abort, Goto, Counting, CountTyped
<1> DEFINE H == {m}
<1>2. H \in SUBSET Message /\ Release(H) /\ \A n \in Message \ H : pc'[n] = pc[n]
  BY <1>1
<1> HIDE DEF H
<1>3. QED
  BY <1>2, ReleaseHolders

LEMMA CommitHolders ==
    ASSUME Counting, Holders, NEW m \in Message, Commit(m)
    PROVE  Holders'
<1> DEFINE H == {m}
<1>1. H \in SUBSET Message /\ Release(H) /\ \A n \in Message \ H : pc'[n] = pc[n]
  BY DEF Commit, Goto, Counting, CountTyped
<1> HIDE DEF H
<1>2. QED
  BY <1>1, ReleaseHolders

LEMMA LoopHolders ==
    ASSUME Counting, Holders, NEW m \in Message,
           Receive(m) \/ SkipExisting(m) \/ BeginTransaction(m) \/ HandleFailure(m) \/ Ack(m)
    PROVE  Holders'
<1>1. /\ pc[m] \notin InTransaction /\ UNCHANGED <<lock, shared>>
      /\ \A n \in Message \ {m} : pc'[n] = pc[n]
  BY DEF Receive, SkipExisting, BeginTransaction, HandleFailure, Ack, Goto, lockVars,
     InTransaction, Counting, CountTyped
<1>2. \A p \in Product : lock[p] # m /\ m \notin shared[p]
  <2>1. m # None
    BY DatabaseAssumption
  <2>2. QED
    BY <1>1, <2>1 DEF Holders, Holding, InTransaction
<1>3. QED
  BY <1>1, <1>2, StepHolders DEF Holders

LEMMA StatementHolders ==
    ASSUME Counting, Holders, NEW m \in Message,
           \/ CheckStock(m) \/ CreateTransactionHeader(m)
           \/ CreateTransactionDetails(m) \/ DeductInventory(m)
    PROVE  Holders'
<1> DEFINE p == Here(m).product
<1>1. /\ pc[m] \in InTransaction /\ pc'[m] \in InTransaction
      /\ pc[m] \in Holding => pc'[m] \in Holding
      /\ \A n \in Message \ {m} : pc'[n] = pc[n]
  BY DEF CheckStock, CreateTransactionHeader, CreateTransactionDetails, DeductInventory, NextLine,
     Goto, InTransaction, Holding, Counting, CountTyped
<1>2. /\ lock' = lock \/ (p \in Catalog /\ lock' = [lock EXCEPT ![p] = m])
      /\ \/ shared' = shared
         \/ /\ pc[m] = "details" /\ p \in Catalog
            /\ shared' = [shared EXCEPT ![p] = shared[p] \cup {m}]
  BY DEF CheckStock, CreateTransactionHeader, CreateTransactionDetails, DeductInventory
<1>3. Catalog \subseteq Product
  BY DatabaseAssumption
<1> HIDE DEF p
<1>4. /\ lock' \in [Product -> Message \cup {None}]
      /\ \A q \in Product : lock'[q] \in {lock[q], m, None}
  BY <1>2, <1>3 DEF Holders
<1>5. /\ shared' \in [Product -> SUBSET Message]
      /\ \A q \in Product : shared'[q] \subseteq shared[q] \cup {m}
  BY <1>2, <1>3 DEF Holders
<1>6. pc'[m] \in Holding \/ \A q \in Product : m \notin shared'[q]
  BY <1>1, <1>2 DEF Holders, Holding
<1>7. QED
  BY <1>1, <1>4, <1>5, <1>6, StepHolders

LEMMA NextHolders == Counting /\ Holders /\ [Next]_vars => Holders'
<1> SUFFICES ASSUME Counting, Holders, [Next]_vars PROVE Holders'
  OBVIOUS
<1>1. ASSUME NEW m \in Message, Step(m)
      PROVE  Holders'
  <2>1. CASE RejectHeader(m) \/ RejectDetails(m) \/ RejectHistory(m) \/ DeadlockVictim(m)
    BY <2>1, AbortHolders DEF RejectHeader, RejectDetails, RejectHistory, DeadlockVictim
  <2>2. QED
    BY <1>1, <2>1, LoopHolders, StatementHolders, CommitHolders DEF Step
<1>2. CASE \E m \in Message : TransactionTimeout(m)
  BY <1>2, AbortHolders DEF TransactionTimeout
<1>3. CASE Crash
  <2> DEFINE H == {m \in Message : pc[m] \in Running}
  <2>1. H \in SUBSET Message /\ Release(H) /\ \A n \in Message \ H : pc'[n] = pc[n]
    BY <1>3 DEF Crash
  <2> HIDE DEF H
  <2>2. QED
    BY <2>1, ReleaseHolders
<1>4. CASE UNCHANGED <<pc, lock, shared>>
  BY <1>4 DEF Holders
<1>5. CASE \E p \in Catalog : RemoveProduct(p) \/ ReactivateProduct(p)
  BY <1>4, <1>5 DEF RemoveProduct, ReactivateProduct, handlerVars, lockVars
<1>6. QED
  BY <1>1, <1>2, <1>3, <1>4, <1>5 DEF Next, Terminating, vars, handlerVars, lockVars

(* A handler that is not done and can go on: nobody keeps it from its       *)
(* statement, or it is the one PostgreSQL may pick to break a deadlock.     *)
CanGoOn(m) == pc[m] # "acked" /\ (Blockers(m) = {} \/ InDeadlock(m))

SomeoneCanGoOn ==
    (\E m \in Message : pc[m] # "acked") => \E m \in Message : CanGoOn(m)

LEMMA BlockersWork ==
    ASSUME Counting, Recording, Holders, NEW x \in Message, NEW y \in Blockers(x)
    PROVE  y \in Message /\ y # x /\ pc[y] # "acked"
<1>1. pc[x] \in {"check", "header", "details"}
  BY DEF Blockers
<1>2. CASE pc[x] \in {"check", "details"} /\ Here(x).product \in Catalog
  <2> DEFINE p == Here(x).product
  <2>1. p \in Product
    BY <1>2, DatabaseAssumption
  <2>2. y \in ({lock[p]} \cup shared[p]) \ {x, None}
    BY <1>2 DEF Blockers, ExclusiveBlockers, SharedBlockers
  <2> HIDE DEF p
  <2>3. QED
    BY <2>1, <2>2 DEF Holders, Holding, InTransaction
<1>3. CASE pc[x] = "details" /\ Here(x).product \notin Catalog
  <2> DEFINE p == Here(x).product
  <2>1. p \in Product
    <3>1. /\ Current(x) \in Sale /\ Len(Lines(x)) \in Nat /\ pos[x] \in 1 .. Len(Lines(x))
      BY <1>3, CountCurrent DEF InTransaction
    <3>2. Lines(x) \in Seq(Line)
      BY <3>1, SalesAssumption DEF Lines
    <3>3. Here(x) \in Line
      BY <3>1, <3>2, ElementOfSeq DEF Here
    <3>4. QED
      BY <3>3, SalesAssumption
  <2>2. y = lock[p] /\ y # x /\ y # None
    BY <1>3 DEF Blockers, SharedBlockers
  <2> HIDE DEF p
  <2>3. QED
    BY <2>1, <2>2 DEF Holders, InTransaction
<1>4. CASE pc[x] = "header"
  <2> DEFINE u == UuidOf[Current(x)]
  <2>1. u \in Uuid
    BY <1>4, CountCurrent, SalesAssumption DEF InTransaction
  <2>2. y = reserved[u] /\ y # x /\ y # None
    BY <1>4 DEF Blockers, IndexBlockers
  <2> HIDE DEF u
  <2>3. QED
    BY <2>1, <2>2 DEF Recording, ReservedIsFresh
<1>5. QED
  BY <1>1, <1>2, <1>3, <1>4 DEF Blockers

LEMMA NobodyIsStuck ==
    ASSUME IsFiniteSet(Message), Counting, Recording, Holders
    PROVE  SomeoneCanGoOn
<1> SUFFICES ASSUME \E m \in Message : pc[m] # "acked", \A m \in Message : ~CanGoOn(m)
             PROVE  FALSE
  BY DEF SomeoneCanGoOn
<1> DEFINE S == {m \in Message : pc[m] # "acked"}
           Waits == {e \in S \X S : e[2] \in Blockers(e[1])}
<1>1. \A x \in S : Blockers(x) # {} /\ ~InDeadlock(x)
  BY DEF CanGoOn
<1>2. \A x \in S : \E y \in S : y # x /\ y \in Blockers(x)
  BY <1>1, BlockersWork
<1>3. \A x, y \in S : <<x, y>> \in Waits <=> y \in Blockers(x)
  OBVIOUS
<1>4. S \in SUBSET Message /\ S # {}
  OBVIOUS
<1> HIDE DEF S, Waits
<1>5. AllWaitIn(S, Waits)
  BY <1>2, <1>3, <1>4 DEF AllWaitIn
<1>6. IsFiniteSet(S)
  BY <1>4, FS_Subset
<1>7. PICK W \in SUBSET S : W # {} /\ \A x \in W : /\ \E y \in W : <<x, y>> \in Waits
                                                   /\ \E y \in W : <<y, x>> \in Waits
  BY <1>5, <1>6, WaitingCycle
<1>8. PICK m \in W : TRUE
  BY <1>7
<1>9. W \in SUBSET Message /\ \A x \in W : /\ \E y \in W : y \in Blockers(x)
                                           /\ \E y \in W : x \in Blockers(y)
  BY <1>3, <1>4, <1>7
<1>10. InDeadlock(m)
  BY <1>8, <1>9 DEF InDeadlock
<1>11. QED
  BY <1>1, <1>8, <1>10

(* As long as a message is not acknowledged, some handler can go on: it     *)
(* waits for nobody, or it waits in a cycle that PostgreSQL breaks.  No     *)
(* lock, index entry or foreign key lock outlives the transaction that took *)
(* it, whatever crashes, times out or is refused.  The liveness property    *)
(* EveryMessageAcked rests on this.                                         *)
THEOREM WorkerNeverStuck ==
    ASSUME IsFiniteSet(Message) PROVE Spec => []SomeoneCanGoOn
<1>1. Spec => [](Counting /\ Recording)
  BY InitCounting, InitRecording, NextCounting, NextRecording, PTL DEF Spec
<1>2. Init => Holders
  BY DatabaseAssumption DEF Init, Holders
<1>3. Spec => []Holders
  BY <1>1, <1>2, NextHolders, PTL DEF Spec
<1>4. Counting /\ Recording /\ Holders => SomeoneCanGoOn
  BY NobodyIsStuck
<1>5. QED
  BY <1>1, <1>3, <1>4, PTL

=============================================================================
