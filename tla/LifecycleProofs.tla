-------------------------- MODULE LifecycleProofs --------------------------
(***************************************************************************)
(* Proofs about TransactionLifecycle, for any number of requests that      *)
(* overlap, any sales, products, cases and corrections, and any subset of  *)
(* the calls.                                                              *)
(***************************************************************************)
EXTENDS TransactionLifecycle, SumProofs, SequenceTheorems, TLAPS

Deducted(t) == t.moved = Minus(Nothing, t.items)

(* What a call has read still holds: its guard would let it pass now.       *)
Sees(q) ==
    /\ q.call = "void" => transactions[q.row].status = "PENDING"
    /\ q.call \in {"force", "cancel"} => InConflict(q.row)
    /\ q.call = "correct" => /\ Correctable(q.row)
                             /\ transactions[q.row].payment = q.payment
    /\ q.call = "open" => HasNoOpenCase(q.row)
    /\ q.call \in {"valid", "invalid"} => cases[q.case].status = "OPEN"
    /\ q.call = "invalid" => transactions[cases[q.case].row].status = q.seen

(* What a call is about exists, no payment of the past is repaired, and     *)
(* the rest is what the client has sent.                                    *)
OfRow == {"void", "force", "cancel", "open", "correct"}
OfCase == {"valid", "invalid"}
Points(q) ==
    /\ q.call \in OfRow => q.row \in DOMAIN transactions
    /\ q.call \in OfCase => q.case \in DOMAIN cases
    /\ q.call = "correct" /\ q.payment = "FAILED" =>
          transactions[q.row].payment = "FAILED"
    /\ q.call = "correct" => q.items \in Basket
    /\ q.call = "adjust" => q.quantity \in Change

Fresh == \A r \in Request \ stale, q \in Call : inflight[r] = q /\ q # None => Sees(q)

Known ==
    /\ \A r \in Request, q \in Call : inflight[r] = q /\ q # None => Points(q)
    /\ \A c \in DOMAIN cases : cases[c].row \in DOMAIN transactions

(* Status, sync_status, stock movements, cases and corrections of a sale    *)
(* fit together.                                                            *)
Sound(i) ==
    /\ transactions[i].status = "PENDING" => transactions[i].sync = "SYNC_CONFLICT"
    /\ transactions[i].status = "CONFIRMED" =>
          transactions[i].sync = "SYNCED" /\ Deducted(transactions[i])
    /\ transactions[i].sync = "SYNC_CONFLICT" => transactions[i].moved = Nothing
    /\ transactions[i].status = "VOIDED" =>
          \/ transactions[i].moved = Nothing
          \/ Deducted(transactions[i]) /\ WrittenOff(i) /\ ~Replaced(i)
    /\ Replaced(i) => /\ transactions[i].status = "VOIDED"
                      /\ transactions[i].sync = "SYNCED"
                      /\ transactions[i].moved = Nothing

OneOpen(i) ==
    \A c, d \in CasesOf(i) : cases[c].status = "OPEN" /\ cases[d].status = "OPEN" => c = d

FailedWithCause(i) ==
    transactions[i].payment = "FAILED" =>
        \/ WrittenOff(i)
        \/ \E c \in corrections : c.new = i /\ transactions[c.old].payment = "FAILED"

Settled(i) == Sound(i) /\ OneOpen(i) /\ FailedWithCause(i)
SettledRows == \A i \in DOMAIN transactions : i \notin raced => Settled(i)

(* A corrected sale replaces one other.                                     *)
Bridges == \A c, d \in corrections : c.new = d.new => c = d

LifecycleInductive ==
    /\ TypeOK /\ Known /\ Fresh
    /\ PendingMovesNothing /\ SettledRows /\ Bridges

-----------------------------------------------------------------------------
(* Quantities, rows and calls. *)

LEMMA Quantified ==
    /\ Nothing \in Quantities
    /\ \A f, g \in Quantities : Plus(f, g) \in Quantities /\ Minus(f, g) \in Quantities
    /\ \A f \in [Product -> Nat] : f \in Quantities
    /\ \A f \in Quantities : Plus(Minus(Nothing, f), f) = Nothing
    /\ \A f \in Quantities : Minus(Nothing, f) = Nothing => f = Nothing
<1>1. Nothing \in Quantities /\ \A p \in Product : Nothing[p] = 0
  BY DEF Nothing, Quantities
<1>2. ASSUME NEW f \in Quantities, NEW g \in Quantities
      PROVE  Plus(f, g) \in Quantities /\ Minus(f, g) \in Quantities
  BY <1>2 DEF Plus, Minus, Quantities
<1>3. ASSUME NEW f \in [Product -> Nat] PROVE f \in Quantities
  BY <1>3 DEF Quantities
<1>4. ASSUME NEW f \in Quantities PROVE Plus(Minus(Nothing, f), f) = Nothing
  <2>1. \A p \in Product : f[p] \in Int /\ 0 - f[p] + f[p] = 0
    BY DEF Quantities
  <2>2. Plus(Minus(Nothing, f), f) = [p \in Product |-> 0 - f[p] + f[p]]
    BY <1>1 DEF Plus, Minus
  <2>3. QED
    BY <2>1, <2>2 DEF Nothing
<1>5. ASSUME NEW f \in Quantities, Minus(Nothing, f) = Nothing PROVE f = Nothing
  <2>1. \A p \in Product : f[p] \in Int /\ 0 - f[p] = 0
    <3>1. \A p \in Product : Minus(Nothing, f)[p] = 0 - f[p]
      BY <1>1 DEF Minus
    <3>2. QED
      BY <1>1, <1>5, <3>1 DEF Quantities
  <2>2. \A p \in Product : f[p] = 0
    BY <2>1
  <2>3. f = [p \in Product |-> f[p]]
    BY DEF Quantities
  <2>4. QED
    BY <2>2, <2>3 DEF Nothing
<1>6. QED
  BY <1>1, <1>2, <1>3, <1>4, <1>5

LEMMA CallFields ==
    ASSUME NEW q \in Call
    PROVE  /\ q.call \in OfRow => q.row \in Nat
           /\ q.call \in OfCase => q.case \in Nat
           /\ q.call \in OfRow \cup OfCase \cup {"adjust"}
           /\ q.call = "correct" => q.items \in [Product -> Nat] /\ q.payment \in Payment
           /\ q.call = "adjust" => q.product \in Product /\ q.quantity \in Int
<1>1. CASE q \in [call : {"void", "force", "cancel", "open"}, row : Nat]
  BY <1>1 DEF OfRow, OfCase
<1>2. CASE q \in [call : {"correct"}, row : Nat, items : [Product -> Nat], payment : Payment]
  BY <1>2 DEF OfRow, OfCase
<1>3. CASE q \in [call : {"valid"}, case : Nat] \cup [call : {"invalid"}, case : Nat, seen : Status]
  BY <1>3 DEF OfRow, OfCase
<1>4. CASE q \in [call : {"adjust"}, product : Product, quantity : Int]
  BY <1>4 DEF OfRow, OfCase
<1>5. QED
  BY <1>1, <1>2, <1>3, <1>4 DEF Call

LEMMA RowFields ==
    ASSUME NEW t \in Row
    PROVE  /\ t.status \in Status
           /\ t.sync \in {"SYNCED", "SYNC_CONFLICT"}
           /\ t.items \in [Product -> Nat]
           /\ t.items \in Quantities
           /\ t.moved \in Quantities
           /\ t.payment \in Payment
BY Quantified DEF Row

LEMMA Tables ==
    ASSUME TypeOK
    PROVE  /\ Len(transactions) \in Nat
           /\ DOMAIN transactions = 1 .. Len(transactions)
           /\ \A i \in DOMAIN transactions : transactions[i] \in Row
           /\ Len(cases) \in Nat
           /\ DOMAIN cases = 1 .. Len(cases)
           /\ \A c \in DOMAIN cases : cases[c] \in Case
<1>1. transactions \in Seq(Row) /\ cases \in Seq(Case)
  BY DEF TypeOK
<1>2. QED
  BY <1>1, LenProperties, ElementOfSeq

(* One element of a list is replaced, one is added, or both.                *)
LEMMA OneReplaced ==
    ASSUME NEW S, NEW s \in Seq(S), NEW i \in DOMAIN s, NEW x \in S
    PROVE  /\ [s EXCEPT ![i] = x] \in Seq(S)
           /\ DOMAIN [s EXCEPT ![i] = x] = DOMAIN s
           /\ Len([s EXCEPT ![i] = x]) = Len(s)
           /\ [s EXCEPT ![i] = x][i] = x
           /\ \A j \in DOMAIN s \ {i} : [s EXCEPT ![i] = x][j] = s[j]
<1>1. i \in 1 .. Len(s) /\ DOMAIN s = 1 .. Len(s)
  BY LenProperties
<1>2. QED
  BY <1>1, ExceptSeq

LEMMA OneAdded ==
    ASSUME NEW S, NEW s \in Seq(S), NEW x \in S
    PROVE  /\ Append(s, x) \in Seq(S)
           /\ Len(s) + 1 \notin DOMAIN s
           /\ DOMAIN Append(s, x) = DOMAIN s \cup {Len(s) + 1}
           /\ Append(s, x)[Len(s) + 1] = x
           /\ \A j \in DOMAIN s : Append(s, x)[j] = s[j]
<1> DEFINE u == Append(s, x)
<1>1. /\ u \in Seq(S)
      /\ Len(u) = Len(s) + 1
      /\ \A j \in 1 .. Len(s) : u[j] = s[j]
      /\ u[Len(s) + 1] = x
  BY AppendProperties
<1> HIDE DEF u
<1>2. /\ DOMAIN s = 1 .. Len(s) /\ Len(s) \in Nat
      /\ DOMAIN u = 1 .. Len(u)
  BY <1>1, LenProperties
<1>3. DOMAIN u = DOMAIN s \cup {Len(s) + 1} /\ Len(s) + 1 \notin DOMAIN s
  BY <1>1, <1>2
<1>4. QED
  BY <1>1, <1>2, <1>3 DEF u

LEMMA OneReplacedOneAdded ==
    ASSUME NEW S, NEW s \in Seq(S), NEW i \in DOMAIN s, NEW x \in S, NEW y \in S,
           NEW u, u = Append([s EXCEPT ![i] = x], y)
    PROVE  /\ u \in Seq(S)
           /\ Len(s) + 1 \notin DOMAIN s
           /\ DOMAIN u = DOMAIN s \cup {Len(s) + 1}
           /\ u[Len(s) + 1] = y
           /\ u[i] = x
           /\ \A j \in DOMAIN s \ {i} : u[j] = s[j]
<1> DEFINE v == [s EXCEPT ![i] = x]
<1>1. /\ v \in Seq(S) /\ DOMAIN v = DOMAIN s /\ Len(v) = Len(s)
      /\ v[i] = x
      /\ \A j \in DOMAIN s \ {i} : v[j] = s[j]
  BY OneReplaced
<1> HIDE DEF v
<1>2. u = Append(v, y)
  BY DEF v
<1>3. QED
  BY <1>1, <1>2, OneAdded

-----------------------------------------------------------------------------
(* What a step leaves alone.  I is the set of the sales it writes, at most  *)
(* one.                                                                     *)

Untouched(I) ==
    /\ DOMAIN transactions \subseteq DOMAIN transactions'
    /\ \A j \in DOMAIN transactions \ I : transactions'[j] = transactions[j]
    /\ DOMAIN cases \subseteq DOMAIN cases'
    /\ \A c \in DOMAIN cases : /\ cases'[c].row = cases[c].row
                               /\ cases[c].row \notin I => cases'[c] = cases[c]
    /\ \A c \in DOMAIN cases' \ DOMAIN cases : cases'[c].row \in I

(* The calls that are still on their way, and fresh, are about other sales. *)
CallsElsewhere(I) ==
    \A r \in Request, q \in Call : inflight'[r] = q /\ q # None =>
        /\ inflight[r] = q
        /\ r \notin stale' => r \notin stale /\ \A i \in I : ~About(r, i)

PaymentsStay ==
    \A i \in DOMAIN transactions :
        transactions[i].payment = "FAILED" => transactions'[i].payment = "FAILED"

LEMMA AboutFields ==
    ASSUME NEW r \in Request, NEW q \in Call, inflight[r] = q, q # None, NEW i, ~About(r, i)
    PROVE  /\ q.call \in OfRow => q.row # i
           /\ q.call \in OfCase => cases[q.case].row # i
<1>1. CASE q.call \in OfRow
  BY <1>1 DEF About, OfRow, OfCase
<1>2. CASE q.call \in OfCase
  BY <1>2 DEF About, OfRow, OfCase
<1>3. QED
  BY <1>1, <1>2

LEMMA CallsKept ==
    ASSUME LifecycleInductive, NEW I, Untouched(I), CallsElsewhere(I), PaymentsStay
    PROVE  /\ Fresh'
           /\ \A r \in Request, q \in Call : inflight'[r] = q /\ q # None => Points(q)'
<1> USE DEF LifecycleInductive
<1>1. ASSUME NEW r \in Request, NEW q \in Call, inflight'[r] = q, q # None
      PROVE  Points(q) /\ Points(q)'
  <2>1. Points(q)
    BY <1>1 DEF CallsElsewhere, Known
  <2>2. QED
    BY <2>1 DEF Points, Untouched, PaymentsStay, OfRow
<1>2. ASSUME NEW r \in Request \ stale', NEW q \in Call, inflight'[r] = q, q # None
      PROVE  Sees(q)'
  <2>1. Sees(q) /\ Points(q) /\ inflight[r] = q /\ \A i \in I : ~About(r, i)
    BY <1>1, <1>2 DEF CallsElsewhere, Fresh
  <2>2. CASE q.call \in OfRow
    <3>1. q.row \notin I /\ q.row \in DOMAIN transactions
      BY <1>2, <2>1, <2>2, AboutFields DEF Points
    <3>2. transactions'[q.row] = transactions[q.row]
      BY <3>1 DEF Untouched
    <3>3. HasNoOpenCase(q.row) => HasNoOpenCase(q.row)'
      BY <3>1 DEF HasNoOpenCase, CasesOf, Untouched
    <3>4. QED
      BY <2>1, <2>2, <3>2, <3>3 DEF Sees, OfRow, InConflict, Correctable
  <2>3. CASE q.call \in OfCase
    <3>1. cases[q.case].row \notin I /\ q.case \in DOMAIN cases
      BY <1>2, <2>1, <2>3, AboutFields DEF Points
    <3>2. cases'[q.case] = cases[q.case] /\ cases[q.case].row \in DOMAIN transactions
      BY <3>1 DEF Untouched, Known
    <3>3. transactions'[cases[q.case].row] = transactions[cases[q.case].row]
      BY <3>1, <3>2 DEF Untouched
    <3>4. QED
      BY <2>1, <2>3, <3>2, <3>3 DEF Sees, OfCase
  <2>4. CASE q.call = "adjust"
    BY <2>4 DEF Sees
  <2>5. QED
    BY <2>2, <2>3, <2>4, CallFields
<1>3. QED
  BY <1>1, <1>2 DEF Fresh

(* New corrections are of the sales in I, and give birth to new sales.      *)
NewBridges(I) ==
    /\ corrections \subseteq corrections'
    /\ \A c \in corrections' \ corrections :
          c.old \in I /\ c.new \notin DOMAIN transactions

LEMMA OthersSettled ==
    ASSUME LifecycleInductive, NEW I, Untouched(I), NewBridges(I), PaymentsStay,
           NEW j \in DOMAIN transactions, j \notin I, j \notin raced
    PROVE  Settled(j)'
<1> USE DEF LifecycleInductive
<1>1. Settled(j) /\ transactions'[j] = transactions[j]
  BY DEF SettledRows, Untouched
<1>2. CasesOf(j)' = CasesOf(j) /\ \A c \in CasesOf(j) : c \in DOMAIN cases /\ cases'[c] = cases[c]
  BY DEF CasesOf, Untouched
<1>3. WrittenOff(j)' <=> WrittenOff(j)
  BY <1>2 DEF WrittenOff
<1>4. Replaced(j)' <=> Replaced(j)
  BY DEF Replaced, NewBridges
<1>5. Sound(j)'
  BY <1>1, <1>3, <1>4 DEF Settled, Sound
<1>6. OneOpen(j)'
  BY <1>1, <1>2 DEF Settled, OneOpen
<1>7. FailedWithCause(j)'
  <2>1. ASSUME NEW c \in corrections, c.new = j, transactions[c.old].payment = "FAILED"
        PROVE  c \in corrections' /\ transactions'[c.old].payment = "FAILED"
    <3>1. c.old \in DOMAIN transactions
      BY DEF TypeOK
    <3>2. QED
      BY <2>1, <3>1 DEF NewBridges, PaymentsStay
  <2>2. QED
    BY <1>1, <1>3, <2>1 DEF Settled, FailedWithCause
<1>8. QED
  BY <1>5, <1>6, <1>7 DEF Settled

(* A step that writes sale i, if any, and adds others.                      *)
LEMMA StepLifecycle ==
    ASSUME LifecycleInductive, NEW I \in SUBSET DOMAIN transactions,
           Untouched(I), CallsElsewhere(I), NewBridges(I), PaymentsStay,
           TypeOK',
           raced \subseteq raced', raced' \subseteq raced \cup I,
           \A c, d \in corrections' \ corrections : c = d,
           \A i \in I : transactions'[i].status = "PENDING" => transactions'[i].moved = Nothing,
           \A i \in I : i \notin raced' => Settled(i)',
           \A n \in DOMAIN transactions' \ DOMAIN transactions :
              /\ transactions'[n].status = "PENDING" => transactions'[n].moved = Nothing
              /\ Settled(n)'
    PROVE  LifecycleInductive'
<1> USE DEF LifecycleInductive
<1>1. Fresh' /\ \A r \in Request, q \in Call : inflight'[r] = q /\ q # None => Points(q)'
  BY CallsKept
<1>2. Known'
  BY <1>1 DEF Known, Untouched
<1>3. PendingMovesNothing'
  <2> SUFFICES ASSUME NEW j \in DOMAIN transactions', transactions'[j].status = "PENDING"
               PROVE  transactions'[j].moved = Nothing
    BY DEF PendingMovesNothing, Nothing
  <2>1. CASE j \in DOMAIN transactions \ I
    BY <2>1 DEF PendingMovesNothing, Untouched
  <2>2. QED
    BY <2>1
<1>4. SettledRows'
  <2> SUFFICES ASSUME NEW j \in DOMAIN transactions', j \notin raced'
               PROVE  Settled(j)'
    BY DEF SettledRows
  <2>1. CASE j \in DOMAIN transactions \ I
    BY <2>1, OthersSettled
  <2>2. QED
    BY <2>1
<1>5. Bridges'
  <2>1. \A c \in corrections : c.new \in DOMAIN transactions
    BY DEF TypeOK
  <2>2. QED
    BY <2>1 DEF Bridges, NewBridges
<1>6. QED
  BY <1>1, <1>2, <1>3, <1>4, <1>5

-----------------------------------------------------------------------------
(* The actions. *)

LEMMA InitLifecycle == Init => LifecycleInductive
<1> SUFFICES ASSUME Init PROVE LifecycleInductive
  OBVIOUS
<1> USE DEF Init
<1>1. TypeOK
  <2>1. transactions \in Seq(Row) /\ cases \in Seq(Case)
    BY EmptySeq
  <2>2. stock \in Quantities /\ adjusted \in Quantities
    BY ApiAssumption, Quantified
  <2>3. inflight \in [Request -> Call \cup {None}]
    OBVIOUS
  <2>4. QED
    BY <2>1, <2>2, <2>3 DEF TypeOK
<1>2. DOMAIN transactions = {} /\ DOMAIN cases = {}
  OBVIOUS
<1>3. Known /\ Fresh
  BY <1>2 DEF Known, Fresh
<1>4. PendingMovesNothing /\ SettledRows /\ Bridges
  BY <1>2 DEF PendingMovesNothing, SettledRows, Bridges
<1>5. QED
  BY <1>1, <1>3, <1>4 DEF LifecycleInductive

LEMMA Served ==
    ASSUME LifecycleInductive, NEW r \in Request, inflight[r] # None
    PROVE  /\ inflight[r] \in Call
           /\ Points(inflight[r])
           /\ r \notin stale => Sees(inflight[r])
<1>1. inflight[r] \in Call
  BY DEF LifecycleInductive, TypeOK
<1>2. QED
  BY <1>1 DEF LifecycleInductive, Known, Fresh

(* r has written sale i or a case of it.                                    *)
LEMMA Writing ==
    ASSUME LifecycleInductive, NEW r \in Request, NEW i \in DOMAIN transactions, Wrote(r, i)
    PROVE  /\ CallsElsewhere({i})
           /\ inflight' \in [Request -> Call \cup {None}]
           /\ stale' \subseteq {q \in Request : inflight'[q] # None}
           /\ raced \subseteq raced' /\ raced' \subseteq raced \cup {i}
           /\ raced' \subseteq DOMAIN transactions
           /\ i \notin raced' => r \notin stale /\ i \notin raced
<1>1. inflight \in [Request -> Call \cup {None}]
  BY DEF LifecycleInductive, TypeOK
<1>2. /\ inflight' = [inflight EXCEPT ![r] = None]
      /\ stale' = {q \in Request \ {r} : q \in stale \/ About(q, i)}
      /\ raced' = IF r \in stale THEN raced \cup {i} ELSE raced
  BY DEF Wrote, Answer
<1>3. inflight' \in [Request -> Call \cup {None}] /\ inflight'[r] = None
  BY <1>1, <1>2
<1>4. \A q \in Request \ {r} : inflight'[q] = inflight[q]
  BY <1>1, <1>2
<1>5. CallsElsewhere({i})
  BY <1>2, <1>3, <1>4 DEF CallsElsewhere
<1>6. stale' \subseteq {q \in Request : inflight'[q] # None}
  BY <1>2, <1>4 DEF About, LifecycleInductive, TypeOK
<1>7. /\ raced \subseteq raced' /\ raced' \subseteq raced \cup {i}
      /\ raced' \subseteq DOMAIN transactions
      /\ i \notin raced' => r \notin stale /\ i \notin raced
  BY <1>2 DEF LifecycleInductive, TypeOK
<1>8. QED
  BY <1>3, <1>5, <1>6, <1>7

(* r replaces the row of sale i by t and leaves the rest but stock alone.   *)
LEMMA RowWritten ==
    ASSUME LifecycleInductive, NEW r \in Request, NEW i \in DOMAIN transactions, Wrote(r, i),
           NEW t \in Row, transactions' = [transactions EXCEPT ![i] = t],
           t.items = transactions[i].items,
           t.payment = transactions[i].payment,
           t.status = "PENDING" => t.moved = Nothing,
           UNCHANGED <<corrections, cases>>,
           stock' \in Quantities, adjusted' \in Quantities,
           i \notin raced /\ r \notin stale /\ Settled(i) =>
              /\ t.status = "PENDING" => t.sync = "SYNC_CONFLICT"
              /\ t.status = "CONFIRMED" => t.sync = "SYNCED" /\ Deducted(t)
              /\ t.sync = "SYNC_CONFLICT" => t.moved = Nothing
              /\ t.status = "VOIDED" => t.moved = Nothing
              /\ ~Replaced(i)
    PROVE  LifecycleInductive'
<1> USE DEF LifecycleInductive
<1>1. transactions \in Seq(Row)
  BY DEF TypeOK
<1>2. /\ transactions' \in Seq(Row)
      /\ DOMAIN transactions' = DOMAIN transactions
      /\ transactions'[i] = t
      /\ \A j \in DOMAIN transactions \ {i} : transactions'[j] = transactions[j]
  BY <1>1, OneReplaced
<1>3. /\ CallsElsewhere({i})
      /\ inflight' \in [Request -> Call \cup {None}]
      /\ stale' \subseteq {q \in Request : inflight'[q] # None}
      /\ raced \subseteq raced' /\ raced' \subseteq raced \cup {i}
      /\ raced' \subseteq DOMAIN transactions
      /\ i \notin raced' => r \notin stale /\ i \notin raced
  BY Writing
<1>4. TypeOK'
  BY <1>2, <1>3 DEF TypeOK
<1>5. Untouched({i}) /\ NewBridges({i}) /\ PaymentsStay
  BY <1>2 DEF Untouched, NewBridges, PaymentsStay
<1>6. ASSUME i \notin raced' PROVE Settled(i)'
  <2>1. Settled(i) /\ i \notin raced /\ r \notin stale
    BY <1>3, <1>6 DEF SettledRows
  <2>2. ~Replaced(i)' /\ (WrittenOff(i)' <=> WrittenOff(i))
    BY <2>1 DEF Replaced, WrittenOff, CasesOf
  <2>3. Sound(i)'
    BY <1>2, <2>1, <2>2 DEF Sound
  <2>4. OneOpen(i)'
    BY <2>1 DEF Settled, OneOpen, CasesOf
  <2>5. FailedWithCause(i)'
    <3>1. \A c \in corrections : c.old \in DOMAIN transactions
      BY DEF TypeOK
    <3>2. QED
      BY <1>2, <1>5, <2>1, <2>2, <3>1 DEF Settled, FailedWithCause, PaymentsStay
  <2>6. QED
    BY <2>3, <2>4, <2>5 DEF Settled
<1>7. QED
  BY <1>2, <1>3, <1>4, <1>5, <1>6, StepLifecycle

LEMMA VoidLifecycle ==
    ASSUME LifecycleInductive, NEW r \in Request, VoidTransaction(r) PROVE LifecycleInductive'
<1> DEFINE q == inflight[r]
           i == q.row
           t == [transactions[i] EXCEPT !.status = "VOIDED"]
<1>1. /\ q # None /\ q.call = "void" /\ Wrote(r, i)
      /\ transactions' = [transactions EXCEPT ![i] = t]
      /\ UNCHANGED <<corrections, cases, stock, adjusted>>
  BY DEF VoidTransaction, Serving
<1>2. i \in DOMAIN transactions /\ (r \notin stale => transactions[i].status = "PENDING")
  BY <1>1, Served DEF Points, Sees, OfRow
<1>3. transactions[i] \in Row /\ stock \in Quantities /\ adjusted \in Quantities
  BY <1>2, Tables DEF LifecycleInductive, TypeOK
<1>4. /\ t \in Row /\ t.status = "VOIDED" /\ t.sync = transactions[i].sync
      /\ t.items = transactions[i].items /\ t.moved = transactions[i].moved
      /\ t.payment = transactions[i].payment
  BY <1>3 DEF Row, Status
<1> HIDE DEF t, i, q
<1>5. i \notin raced /\ r \notin stale /\ Settled(i) =>
         /\ t.sync = "SYNC_CONFLICT" => t.moved = Nothing
         /\ t.moved = Nothing
         /\ ~Replaced(i)
  BY <1>2, <1>4 DEF Settled, Sound
<1>6. QED
  BY <1>1, <1>2, <1>3, <1>4, <1>5, RowWritten

LEMMA ForceLifecycle ==
    ASSUME LifecycleInductive, NEW r \in Request, ForceConfirm(r) PROVE LifecycleInductive'
<1> DEFINE q == inflight[r]
           i == q.row
           x == transactions[i]
           t == [x EXCEPT !.status = "CONFIRMED", !.sync = "SYNCED",
                          !.moved = Minus(x.moved, x.items)]
<1>1. /\ q # None /\ q.call = "force" /\ Wrote(r, i)
      /\ transactions' = [transactions EXCEPT ![i] = t]
      /\ stock' = Minus(stock, x.items)
      /\ UNCHANGED <<corrections, cases, adjusted>>
  BY DEF ForceConfirm, Serving
<1>2. i \in DOMAIN transactions /\ (r \notin stale => x.sync = "SYNC_CONFLICT")
  BY <1>1, Served DEF Points, Sees, OfRow, InConflict
<1>3. /\ x \in Row /\ x.items \in Quantities /\ x.moved \in Quantities
      /\ Minus(x.moved, x.items) \in Quantities
      /\ stock' \in Quantities /\ adjusted' \in Quantities
  <2>1. x \in Row /\ x.items \in Quantities /\ x.moved \in Quantities
    BY <1>2, Tables, RowFields DEF LifecycleInductive
  <2>2. stock \in Quantities /\ adjusted \in Quantities
    BY DEF LifecycleInductive, TypeOK
  <2>3. QED
    BY <1>1, <2>1, <2>2, Quantified
<1>4. /\ t \in Row /\ t.status = "CONFIRMED" /\ t.sync = "SYNCED"
      /\ t.items = x.items /\ t.moved = Minus(x.moved, x.items)
      /\ t.payment = x.payment
  BY <1>3 DEF Row, Status
<1> HIDE DEF t
<1>5. i \notin raced /\ r \notin stale /\ Settled(i) => Deducted(t) /\ ~Replaced(i)
  BY <1>2, <1>4 DEF Settled, Sound, Deducted
<1> HIDE DEF i, q
<1>6. QED
  BY <1>1, <1>2, <1>3, <1>4, <1>5, RowWritten

LEMMA CancelLifecycle ==
    ASSUME LifecycleInductive, NEW r \in Request, CancelConflict(r) PROVE LifecycleInductive'
<1> DEFINE q == inflight[r]
           i == q.row
           x == transactions[i]
           t == [x EXCEPT !.status = "VOIDED", !.sync = "SYNCED"]
<1>1. /\ q # None /\ q.call = "cancel" /\ Wrote(r, i)
      /\ transactions' = [transactions EXCEPT ![i] = t]
      /\ UNCHANGED <<corrections, cases, stock, adjusted>>
  BY DEF CancelConflict, Serving
<1>2. i \in DOMAIN transactions /\ (r \notin stale => x.sync = "SYNC_CONFLICT")
  BY <1>1, Served DEF Points, Sees, OfRow, InConflict
<1>3. x \in Row /\ stock' \in Quantities /\ adjusted' \in Quantities
  BY <1>1, <1>2, Tables DEF LifecycleInductive, TypeOK
<1>4. /\ t \in Row /\ t.status = "VOIDED" /\ t.sync = "SYNCED"
      /\ t.items = x.items /\ t.moved = x.moved /\ t.payment = x.payment
  BY <1>3 DEF Row, Status
<1> HIDE DEF t
<1>5. i \notin raced /\ r \notin stale /\ Settled(i) => t.moved = Nothing /\ ~Replaced(i)
  BY <1>2, <1>4 DEF Settled, Sound
<1> HIDE DEF i, q
<1>6. QED
  BY <1>1, <1>2, <1>3, <1>4, <1>5, RowWritten

(* The old sale gives its goods back and another takes its own.             *)
LEMMA CorrectLifecycle ==
    ASSUME LifecycleInductive, NEW r \in Request, CorrectTransaction(r) PROVE LifecycleInductive'
<1> USE DEF LifecycleInductive
<1> SUFFICES ASSUME NEW q, q = inflight[r], NEW i, i = q.row,
                    NEW n, n = Len(transactions) + 1
             PROVE  LifecycleInductive'
  OBVIOUS
<1> DEFINE x == transactions[i]
           b == [old |-> i, new |-> n]
           t == [x EXCEPT !.status = "VOIDED", !.moved = Plus(x.moved, x.items)]
           u == [status |-> "CONFIRMED", sync |-> "SYNCED", items |-> q.items,
                 moved |-> Minus(Nothing, q.items), payment |-> q.payment]
<1>1. /\ q # None /\ q.call = "correct" /\ Wrote(r, i)
      /\ transactions' = Append([transactions EXCEPT ![i] = t], u)
      /\ stock' = Plus(stock, Plus(x.items, Minus(Nothing, q.items)))
      /\ corrections' = corrections \cup {b}
      /\ UNCHANGED <<cases, adjusted>>
  BY DEF CorrectTransaction, Replace, Serving
<1>2. /\ i \in DOMAIN transactions
      /\ r \notin stale => x.status = "CONFIRMED" /\ x.payment = q.payment
      /\ q.items \in [Product -> Nat] /\ q.payment \in Payment
      /\ q.payment = "FAILED" => x.payment = "FAILED"
  BY <1>1, Served, CallFields DEF Points, Sees, OfRow, Correctable
<1>3. /\ x \in Row /\ x.items \in Quantities /\ x.moved \in Quantities
      /\ q.items \in Quantities /\ Minus(Nothing, q.items) \in Quantities
      /\ Plus(x.moved, x.items) \in Quantities
      /\ stock' \in Quantities /\ adjusted' \in Quantities
  <2>1. x \in Row /\ x.items \in Quantities /\ x.moved \in Quantities
    BY <1>2, Tables, RowFields
  <2>2. stock \in Quantities /\ adjusted \in Quantities
    BY DEF TypeOK
  <2>3. q.items \in Quantities /\ Minus(Nothing, q.items) \in Quantities
    BY <1>2, Quantified
  <2>4. Plus(x.items, Minus(Nothing, q.items)) \in Quantities
    BY <2>1, <2>3, Quantified
  <2>5. QED
    BY <1>1, <2>1, <2>2, <2>3, <2>4, Quantified
<1>4. /\ t \in Row /\ t.status = "VOIDED" /\ t.sync = x.sync
      /\ t.items = x.items /\ t.moved = Plus(x.moved, x.items) /\ t.payment = x.payment
  BY <1>3 DEF Row, Status
<1>5. /\ u \in Row /\ u.status = "CONFIRMED" /\ u.sync = "SYNCED"
      /\ u.items = q.items /\ u.moved = Minus(Nothing, q.items) /\ u.payment = q.payment
  BY <1>2, <1>3 DEF Row, Status
<1>6. b.old = i /\ b.new = n
  OBVIOUS
<1> HIDE DEF t, u, b
<1>7. /\ transactions' \in Seq(Row)
      /\ n \notin DOMAIN transactions
      /\ DOMAIN transactions' = DOMAIN transactions \cup {n}
      /\ transactions'[n] = u
      /\ transactions'[i] = t
      /\ \A j \in DOMAIN transactions \ {i} : transactions'[j] = transactions[j]
  <2>1. transactions \in Seq(Row)
    BY DEF TypeOK
  <2>2. QED
    BY <1>1, <1>2, <1>4, <1>5, <2>1, OneReplacedOneAdded
<1>8. /\ CallsElsewhere({i})
      /\ inflight' \in [Request -> Call \cup {None}]
      /\ stale' \subseteq {s \in Request : inflight'[s] # None}
      /\ raced \subseteq raced' /\ raced' \subseteq raced \cup {i}
      /\ raced' \subseteq DOMAIN transactions
      /\ i \notin raced' => r \notin stale /\ i \notin raced
  BY <1>1, <1>2, Writing
<1>9. TypeOK'
  <2>1. corrections' \subseteq [old : DOMAIN transactions', new : DOMAIN transactions']
    <3>1. b \in [old : DOMAIN transactions', new : DOMAIN transactions']
      BY <1>2, <1>7 DEF b
    <3>2. corrections \subseteq [old : DOMAIN transactions, new : DOMAIN transactions]
      BY DEF TypeOK
    <3>3. QED
      BY <1>1, <1>7, <3>1, <3>2
  <2>2. QED
    BY <1>1, <1>3, <1>7, <1>8, <2>1 DEF TypeOK
<1>10. Untouched({i}) /\ PaymentsStay
  BY <1>1, <1>4, <1>7 DEF Untouched, PaymentsStay
<1>11. NewBridges({i})
  BY <1>1, <1>6, <1>7 DEF NewBridges
<1>12. \A c \in corrections : c.old \in DOMAIN transactions /\ c.new \in DOMAIN transactions
  BY DEF TypeOK
<1>13. Settled(i)' \/ i \in raced'
  <2> SUFFICES ASSUME i \notin raced' PROVE Settled(i)'
    OBVIOUS
  <2>1. Settled(i) /\ x.status = "CONFIRMED"
    BY <1>2, <1>8 DEF SettledRows
  <2>2. t.sync = "SYNCED" /\ t.moved = Nothing
    <3>1. x.sync = "SYNCED" /\ x.moved = Minus(Nothing, x.items)
      BY <2>1 DEF Settled, Sound, Deducted
    <3>2. QED
      BY <1>3, <1>4, <3>1, Quantified
  <2>3. Sound(i)'
    BY <1>4, <1>7, <2>2 DEF Sound, Nothing
  <2>4. OneOpen(i)'
    BY <1>1, <2>1 DEF Settled, OneOpen, CasesOf
  <2>5. FailedWithCause(i)'
    <3>1. \A c \in corrections : transactions[c.old].payment = "FAILED" =>
             transactions'[c.old].payment = "FAILED"
      BY <1>10, <1>12 DEF PaymentsStay
    <3>2. WrittenOff(i) => WrittenOff(i)'
      BY <1>1 DEF WrittenOff, CasesOf
    <3>3. QED
      BY <1>1, <1>4, <1>7, <2>1, <3>1, <3>2 DEF Settled, FailedWithCause
  <2>6. QED
    BY <2>3, <2>4, <2>5 DEF Settled
<1>14. Settled(n)'
  <2>1. i # n /\ \A c \in corrections' : c.old # n
    BY <1>1, <1>2, <1>6, <1>7, <1>12
  <2>2. Sound(n)'
    BY <1>5, <1>7, <2>1 DEF Sound, Deducted, Replaced, Nothing, Minus
  <2>3. OneOpen(n)'
    BY <1>1, <1>7 DEF Known, OneOpen, CasesOf
  <2>4. FailedWithCause(n)'
    <3>1. b \in corrections' /\ b.new = n
      BY <1>1, <1>6
    <3>2. u.payment = "FAILED" => transactions'[b.old].payment = "FAILED"
      BY <1>2, <1>4, <1>5, <1>6, <1>7
    <3>3. QED
      BY <1>7, <3>1, <3>2 DEF FailedWithCause
  <2>5. QED
    BY <2>2, <2>3, <2>4 DEF Settled
<1>15. corrections' \ corrections \subseteq {b}
  BY <1>1
<1>16. t.status # "PENDING" /\ u.status # "PENDING"
  BY <1>4, <1>5
<1>17. QED
  BY <1>2, <1>7, <1>8, <1>9, <1>10, <1>11, <1>13, <1>14, <1>15, <1>16, StepLifecycle

LEMMA OpenCaseLifecycle ==
    ASSUME LifecycleInductive, NEW r \in Request, OpenCase(r) PROVE LifecycleInductive'
<1> USE DEF LifecycleInductive
<1> SUFFICES ASSUME NEW q, q = inflight[r], NEW i, i = q.row, NEW n, n = Len(cases) + 1
             PROVE  LifecycleInductive'
  OBVIOUS
<1> DEFINE k == [row |-> i, status |-> "OPEN"]
<1>1. /\ q # None /\ q.call = "open" /\ Wrote(r, i)
      /\ cases' = Append(cases, k)
      /\ UNCHANGED <<transactions, corrections, stock, adjusted>>
  BY DEF OpenCase, Serving
<1>2. /\ i \in DOMAIN transactions
      /\ r \notin stale => HasNoOpenCase(i)
  BY <1>1, Served DEF Points, Sees, OfRow
<1>3. k \in Case /\ k.row = i /\ k.status = "OPEN"
  BY <1>2, Tables DEF Case
<1> HIDE DEF k
<1>4. /\ cases' \in Seq(Case)
      /\ n \notin DOMAIN cases
      /\ DOMAIN cases' = DOMAIN cases \cup {n}
      /\ cases'[n] = k
      /\ \A c \in DOMAIN cases : cases'[c] = cases[c]
  BY <1>1, <1>3, OneAdded DEF TypeOK
<1>5. /\ CallsElsewhere({i})
      /\ inflight' \in [Request -> Call \cup {None}]
      /\ stale' \subseteq {s \in Request : inflight'[s] # None}
      /\ raced \subseteq raced' /\ raced' \subseteq raced \cup {i}
      /\ raced' \subseteq DOMAIN transactions
      /\ i \notin raced' => r \notin stale /\ i \notin raced
  BY <1>1, <1>2, Writing
<1>6. TypeOK'
  BY <1>1, <1>4, <1>5 DEF TypeOK
<1>7. Untouched({i}) /\ NewBridges({i}) /\ PaymentsStay
  BY <1>1, <1>3, <1>4 DEF Untouched, NewBridges, PaymentsStay
<1>8. ASSUME i \notin raced' PROVE Settled(i)'
  <2>1. Settled(i) /\ HasNoOpenCase(i)
    BY <1>2, <1>5, <1>8 DEF SettledRows
  <2>2. CasesOf(i)' = CasesOf(i) \cup {n} /\ CasesOf(i) \subseteq DOMAIN cases
    BY <1>3, <1>4 DEF CasesOf
  <2>3. WrittenOff(i)' <=> WrittenOff(i)
    BY <1>3, <1>4, <2>2 DEF WrittenOff
  <2>4. Sound(i)'
    BY <1>1, <2>1, <2>3 DEF Settled, Sound, Replaced
  <2>5. OneOpen(i)'
    BY <1>4, <2>1, <2>2 DEF OneOpen, HasNoOpenCase
  <2>6. FailedWithCause(i)'
    BY <1>1, <2>1, <2>3 DEF Settled, FailedWithCause
  <2>7. QED
    BY <2>4, <2>5, <2>6 DEF Settled
<1>9. transactions'[i].status = "PENDING" => transactions'[i].moved = Nothing
  BY <1>1, <1>2 DEF PendingMovesNothing
<1>10. QED
  BY <1>1, <1>2, <1>5, <1>6, <1>7, <1>8, <1>9, StepLifecycle

(* Case c of sale i is closed, and t is the row of the sale since then.     *)
LEMMA CaseClosed ==
    ASSUME LifecycleInductive, NEW r \in Request, NEW c \in DOMAIN cases,
           NEW i, i = cases[c].row, Wrote(r, i),
           NEW k \in Case, k.row = i, k.status # "OPEN",
           cases' = [cases EXCEPT ![c] = k],
           NEW t \in Row, transactions' = [transactions EXCEPT ![i] = t],
           t.sync = transactions[i].sync, t.moved = transactions[i].moved,
           t.items = transactions[i].items,
           transactions[i].payment = "FAILED" => t.payment = "FAILED",
           t.status = transactions[i].status \/ t.status = "VOIDED",
           UNCHANGED <<corrections, stock, adjusted>>,
           i \notin raced /\ r \notin stale =>
              /\ cases[c].status = "OPEN"
              /\ t.status # transactions[i].status \/ t.payment # transactions[i].payment
                    => k.status = "RESOLVED_INVALID"
    PROVE  LifecycleInductive'
<1> USE DEF LifecycleInductive
<1>1. i \in DOMAIN transactions
  BY DEF Known
<1>2. /\ transactions' \in Seq(Row)
      /\ DOMAIN transactions' = DOMAIN transactions
      /\ transactions'[i] = t
      /\ \A j \in DOMAIN transactions \ {i} : transactions'[j] = transactions[j]
  BY <1>1, OneReplaced DEF TypeOK
<1>3. /\ cases' \in Seq(Case)
      /\ DOMAIN cases' = DOMAIN cases
      /\ cases'[c] = k
      /\ \A d \in DOMAIN cases \ {c} : cases'[d] = cases[d]
  BY OneReplaced DEF TypeOK
<1>4. /\ CallsElsewhere({i})
      /\ inflight' \in [Request -> Call \cup {None}]
      /\ stale' \subseteq {s \in Request : inflight'[s] # None}
      /\ raced \subseteq raced' /\ raced' \subseteq raced \cup {i}
      /\ raced' \subseteq DOMAIN transactions
      /\ i \notin raced' => r \notin stale /\ i \notin raced
  BY <1>1, Writing
<1>5. TypeOK'
  BY <1>2, <1>3, <1>4 DEF TypeOK
<1>6. Untouched({i}) /\ NewBridges({i}) /\ PaymentsStay
  BY <1>2, <1>3 DEF Untouched, NewBridges, PaymentsStay
<1>7. ASSUME i \notin raced' PROVE Settled(i)'
  <2>1. /\ Settled(i) /\ cases[c].status = "OPEN"
        /\ t.status # transactions[i].status \/ t.payment # transactions[i].payment
                    => k.status = "RESOLVED_INVALID"
    BY <1>1, <1>4, <1>7 DEF SettledRows
  <2>2. CasesOf(i)' = CasesOf(i) /\ c \in CasesOf(i) /\ CasesOf(i) \subseteq DOMAIN cases
    BY <1>3 DEF CasesOf
  <2>3. WrittenOff(i) => WrittenOff(i)'
    BY <1>3, <2>1, <2>2 DEF WrittenOff
  <2>4. k.status = "RESOLVED_INVALID" => WrittenOff(i)'
    BY <1>3, <2>2 DEF WrittenOff
  <2>5. Sound(i)'
    <3>1. Replaced(i)' <=> Replaced(i)
      BY DEF Replaced
    <3>2. transactions[i].status \in Status /\ transactions[i].sync \in {"SYNCED", "SYNC_CONFLICT"}
      BY <1>1, Tables, RowFields
    <3>3. Deducted(t) <=> Deducted(transactions[i])
      BY DEF Deducted
    <3>4. Sound(i)
      BY <2>1 DEF Settled
    <3>5. CASE t.status = transactions[i].status
      BY <1>2, <2>3, <3>1, <3>2, <3>3, <3>4, <3>5 DEF Sound, Nothing
    <3>6. CASE t.status # transactions[i].status
      <4>1. t.status = "VOIDED" /\ transactions[i].status \in {"PENDING", "CONFIRMED"} /\ WrittenOff(i)'
        BY <2>1, <2>4, <3>2, <3>6 DEF Status
      <4>2. ~Replaced(i)
        BY <3>4, <4>1 DEF Sound
      <4>3. t.moved = Nothing \/ Deducted(t)
        BY <3>2, <3>3, <3>4, <4>1 DEF Sound
      <4>4. t.sync = "SYNC_CONFLICT" => t.moved = Nothing
        BY <3>4 DEF Sound
      <4>5. QED
        BY <1>2, <3>1, <4>1, <4>2, <4>3, <4>4 DEF Sound, Nothing
    <3>7. QED
      BY <3>5, <3>6
  <2>6. OneOpen(i)'
    BY <1>3, <2>1, <2>2 DEF Settled, OneOpen
  <2>7. FailedWithCause(i)'
    <3>1. CASE k.status = "RESOLVED_INVALID"
      BY <2>4, <3>1 DEF FailedWithCause
    <3>2. CASE k.status # "RESOLVED_INVALID"
      <4>1. \A b \in corrections : b.old \in DOMAIN transactions
        BY DEF TypeOK
      <4>2. \A b \in corrections : transactions[b.old].payment = "FAILED" =>
               transactions'[b.old].payment = "FAILED"
        BY <1>6, <4>1 DEF PaymentsStay
      <4>3. QED
        BY <1>2, <2>1, <2>3, <3>2, <4>2 DEF Settled, FailedWithCause
    <3>3. QED
      BY <3>1, <3>2
  <2>8. QED
    BY <2>5, <2>6, <2>7 DEF Settled
<1>8. t.status = "PENDING" => t.moved = Nothing
  BY <1>1 DEF PendingMovesNothing
<1>9. QED
  BY <1>1, <1>2, <1>4, <1>5, <1>6, <1>7, <1>8, StepLifecycle

LEMMA ResolveValidLifecycle ==
    ASSUME LifecycleInductive, NEW r \in Request, ResolveValid(r) PROVE LifecycleInductive'
<1> DEFINE q == inflight[r]
           c == q.case
           i == cases[c].row
           t == transactions[i]
           k == [cases[c] EXCEPT !.status = "RESOLVED_VALID"]
<1>1. /\ q # None /\ q.call = "valid" /\ Wrote(r, i)
      /\ cases' = [cases EXCEPT ![c] = k]
      /\ UNCHANGED <<transactions, corrections, stock, adjusted>>
  BY DEF ResolveValid, Serving
<1>2. c \in DOMAIN cases /\ (r \notin stale => cases[c].status = "OPEN")
  BY <1>1, Served DEF Points, Sees, OfCase
<1>3. i \in DOMAIN transactions /\ cases[c] \in Case
  BY <1>2, Tables DEF LifecycleInductive, Known
<1>4. k \in Case /\ k.row = i /\ k.status = "RESOLVED_VALID"
  BY <1>3 DEF Case
<1>5. t \in Row /\ transactions' = [transactions EXCEPT ![i] = t]
  <2>1. transactions \in Seq(Row)
    BY DEF LifecycleInductive, TypeOK
  <2>2. QED
    BY <1>1, <1>3, <2>1, Tables DEF LifecycleInductive
<1>6. /\ t.sync = transactions[i].sync /\ t.moved = transactions[i].moved
      /\ t.items = transactions[i].items /\ t.payment = transactions[i].payment
      /\ t.status = transactions[i].status
  OBVIOUS
<1> HIDE DEF k, t
<1>7. /\ Wrote(r, i) /\ cases' = [cases EXCEPT ![c] = k]
      /\ transactions' = [transactions EXCEPT ![i] = t]
      /\ UNCHANGED <<corrections, stock, adjusted>>
  BY <1>1, <1>5
<1>8. t \in Row
  BY <1>5
<1>9. QED
  BY <1>2, <1>4, <1>6, <1>7, <1>8, CaseClosed

LEMMA ResolveInvalidLifecycle ==
    ASSUME LifecycleInductive, NEW r \in Request, ResolveInvalid(r) PROVE LifecycleInductive'
<1> DEFINE q == inflight[r]
           c == q.case
           i == cases[c].row
           x == transactions[i]
           t == [x EXCEPT !.payment = "FAILED",
                          !.status = IF q.seen # "VOIDED" THEN "VOIDED" ELSE x.status]
           k == [cases[c] EXCEPT !.status = "RESOLVED_INVALID"]
<1>1. /\ q # None /\ q.call = "invalid" /\ Wrote(r, i)
      /\ cases' = [cases EXCEPT ![c] = k]
      /\ transactions' = [transactions EXCEPT ![i] = t]
      /\ UNCHANGED <<corrections, stock, adjusted>>
  BY DEF ResolveInvalid, Serving
<1>2. c \in DOMAIN cases /\ (r \notin stale => cases[c].status = "OPEN")
  BY <1>1, Served DEF Points, Sees, OfCase
<1>3. x \in Row /\ cases[c] \in Case
  BY <1>2, Tables DEF LifecycleInductive, Known
<1>4. k \in Case /\ k.row = i /\ k.status = "RESOLVED_INVALID"
  BY <1>3 DEF Case
<1>5. /\ t \in Row /\ t.sync = x.sync /\ t.moved = x.moved /\ t.items = x.items
      /\ t.payment = "FAILED"
      /\ t.status = x.status \/ t.status = "VOIDED"
  BY <1>3 DEF Row, Status, Payment
<1> HIDE DEF k, t
<1>6. QED
  BY <1>1, <1>2, <1>4, <1>5, CaseClosed

(* r is answered without having written a sale or a case.                   *)
LEMMA AnsweredLifecycle ==
    ASSUME LifecycleInductive, NEW r \in Request, Answer(r), stale' = stale \ {r},
           UNCHANGED <<transactions, corrections, cases, raced>>,
           stock' \in Quantities, adjusted' \in Quantities
    PROVE  LifecycleInductive'
<1> USE DEF LifecycleInductive
<1>1. /\ inflight' \in [Request -> Call \cup {None}]
      /\ inflight'[r] = None
      /\ \A q \in Request \ {r} : inflight'[q] = inflight[q]
  BY DEF Answer, TypeOK
<1>2. TypeOK'
  BY <1>1 DEF TypeOK
<1>3. CallsElsewhere({})
  BY <1>1 DEF CallsElsewhere
<1>4. Untouched({}) /\ NewBridges({}) /\ PaymentsStay
  BY DEF Untouched, NewBridges, PaymentsStay
<1>5. QED
  BY <1>2, <1>3, <1>4, StepLifecycle

LEMMA AdjustLifecycle ==
    ASSUME LifecycleInductive, NEW r \in Request, AdjustStock(r) PROVE LifecycleInductive'
<1> DEFINE q == inflight[r]
<1>1. q.product \in Product /\ q.quantity \in Int
  BY Served, CallFields DEF AdjustStock, Serving
<1>2. stock \in [Product -> Int] /\ adjusted \in [Product -> Int]
  BY DEF LifecycleInductive, TypeOK, Quantities
<1> HIDE DEF q
<1>3. /\ stock' = [stock EXCEPT ![q.product] = @ + q.quantity]
      /\ adjusted' = [adjusted EXCEPT ![q.product] = @ + q.quantity]
      /\ Answer(r) /\ stale' = stale \ {r}
      /\ UNCHANGED <<transactions, corrections, cases, raced>>
  BY DEF AdjustStock, q
<1>4. stock' \in Quantities /\ adjusted' \in Quantities
  BY <1>1, <1>2, <1>3 DEF Quantities
<1>5. QED
  BY <1>3, <1>4, AnsweredLifecycle

LEMMA AbandonLifecycle ==
    ASSUME LifecycleInductive, NEW r \in Request, Abandon(r) PROVE LifecycleInductive'
<1>1. stock' \in Quantities /\ adjusted' \in Quantities
  BY DEF Abandon, tables, LifecycleInductive, TypeOK
<1>2. QED
  BY <1>1, AnsweredLifecycle DEF Abandon, tables

(* A call has passed its guard.                                             *)
LEMMA AcceptLifecycle ==
    ASSUME LifecycleInductive, NEW r \in Request, NEW call \in Call, Accept(r, call),
           Points(call), Sees(call)
    PROVE  LifecycleInductive'
<1> USE DEF LifecycleInductive
<1>1. /\ inflight[r] = None
      /\ inflight' = [inflight EXCEPT ![r] = call]
      /\ UNCHANGED <<transactions, corrections, cases, stock, adjusted, stale, raced>>
  BY DEF Accept, tables
<1>2. /\ inflight' \in [Request -> Call \cup {None}]
      /\ inflight'[r] = call
      /\ \A q \in Request \ {r} : inflight'[q] = inflight[q]
  BY <1>1 DEF TypeOK
<1>3. r \notin stale
  BY <1>1 DEF TypeOK
<1>4. TypeOK'
  BY <1>1, <1>2, <1>3 DEF TypeOK
<1>5. \A q \in Call : (Points(q)' <=> Points(q)) /\ (Sees(q)' <=> Sees(q))
  BY <1>1 DEF Points, Sees, InConflict, Correctable, HasNoOpenCase, CasesOf
<1>6. Known' /\ Fresh'
  BY <1>1, <1>2, <1>5 DEF Known, Fresh
<1>7. \A i \in DOMAIN transactions : Settled(i)' <=> Settled(i)
  BY <1>1 DEF Settled, Sound, OneOpen, FailedWithCause, WrittenOff, Replaced, CasesOf,
     Nothing, Deducted, Minus
<1>8. PendingMovesNothing' /\ SettledRows' /\ Bridges'
  BY <1>1, <1>7 DEF PendingMovesNothing, SettledRows, Bridges, Nothing
<1>9. QED
  BY <1>4, <1>6, <1>8

LEMMA BeginLifecycle ==
    ASSUME LifecycleInductive, NEW r \in Request, Begin(r) PROVE LifecycleInductive'
<1> USE DEF LifecycleInductive
<1>1. DOMAIN transactions \subseteq Nat /\ DOMAIN cases \subseteq Nat
  BY Tables
<1>2. CASE BeginVoid(r)
  <2>1. PICK i \in DOMAIN transactions :
           /\ transactions[i].status = "PENDING"
           /\ Accept(r, [call |-> "void", row |-> i])
    BY <1>2 DEF BeginVoid
  <2> DEFINE q == [call |-> "void", row |-> i]
  <2>2. q \in Call /\ q.call = "void" /\ q.row = i
    BY <1>1 DEF Call
  <2> HIDE DEF q
  <2>3. Points(q) /\ Sees(q)
    BY <2>1, <2>2 DEF Points, Sees, OfCase
  <2>4. QED
    BY <2>1, <2>2, <2>3, AcceptLifecycle DEF q
<1>3. CASE BeginResolveConflict(r)
  <2>1. PICK i \in DOMAIN transactions, action \in {"force", "cancel"} :
           /\ InConflict(i)
           /\ Accept(r, [call |-> action, row |-> i])
    BY <1>3 DEF BeginResolveConflict
  <2> DEFINE q == [call |-> action, row |-> i]
  <2>2. q \in Call /\ q.call = action /\ q.row = i
    BY <1>1 DEF Call
  <2> HIDE DEF q
  <2>3. Points(q) /\ Sees(q)
    BY <2>1, <2>2 DEF Points, Sees, OfCase
  <2>4. QED
    BY <2>1, <2>2, <2>3, AcceptLifecycle DEF q
<1>4. CASE BeginCorrection(r)
  <2>1. PICK i \in DOMAIN transactions, items \in Basket :
           /\ Correctable(i)
           /\ Accept(r, [call |-> "correct", row |-> i, items |-> items,
                         payment |-> transactions[i].payment])
    BY <1>4 DEF BeginCorrection
  <2> SUFFICES ASSUME NEW payment, payment = transactions[i].payment
               PROVE  LifecycleInductive'
    OBVIOUS
  <2> DEFINE q == [call |-> "correct", row |-> i, items |-> items, payment |-> payment]
  <2>2. items \in [Product -> Nat] /\ payment \in Payment
    BY ApiAssumption, Tables, RowFields
  <2>3. /\ q \in Call /\ q.call = "correct" /\ q.row = i /\ q.items = items
        /\ q.payment = transactions[i].payment
    BY <1>1, <2>2 DEF Call
  <2>4. Accept(r, q)
    BY <2>1
  <2> HIDE DEF q
  <2>5. Points(q) /\ Sees(q)
    BY <2>1, <2>3 DEF Points, Sees, OfCase
  <2>6. QED
    BY <2>3, <2>4, <2>5, AcceptLifecycle
<1>5. CASE BeginCreate(r) \/ BeginReconcile(r)
  <2>1. PICK i \in DOMAIN transactions :
           /\ HasNoOpenCase(i)
           /\ Accept(r, [call |-> "open", row |-> i])
    BY <1>5 DEF BeginCreate, BeginReconcile, HasNoOpenCase
  <2> DEFINE q == [call |-> "open", row |-> i]
  <2>2. q \in Call /\ q.call = "open" /\ q.row = i
    BY <1>1 DEF Call
  <2> HIDE DEF q
  <2>3. Points(q) /\ Sees(q)
    BY <2>1, <2>2 DEF Points, Sees, OfCase
  <2>4. QED
    BY <2>1, <2>2, <2>3, AcceptLifecycle DEF q
<1>6. CASE BeginResolveCase(r)
  <2>1. PICK c \in DOMAIN cases :
           /\ cases[c].status = "OPEN"
           /\ \/ Accept(r, [call |-> "valid", case |-> c])
              \/ Accept(r, [call |-> "invalid", case |-> c,
                            seen |-> transactions[cases[c].row].status])
    BY <1>6 DEF BeginResolveCase
  <2> SUFFICES ASSUME NEW seen, seen = transactions[cases[c].row].status
               PROVE  LifecycleInductive'
    OBVIOUS
  <2> DEFINE q == [call |-> "valid", case |-> c]
             p == [call |-> "invalid", case |-> c, seen |-> seen]
  <2>2. seen \in Status
    BY Tables, RowFields DEF Known
  <2>3. /\ q \in Call /\ q.call = "valid" /\ q.case = c
        /\ p \in Call /\ p.call = "invalid" /\ p.case = c /\ p.seen = seen
    BY <1>1, <2>2 DEF Call
  <2>4. Accept(r, q) \/ Accept(r, p)
    BY <2>1
  <2> HIDE DEF q, p
  <2>5. Points(q) /\ Sees(q) /\ Points(p) /\ Sees(p)
    BY <2>1, <2>3 DEF Points, Sees, OfRow
  <2>6. QED
    BY <2>3, <2>4, <2>5, AcceptLifecycle
<1>7. CASE BeginAdjustStock(r)
  <2>1. PICK p \in Product, n \in Change :
           Accept(r, [call |-> "adjust", product |-> p, quantity |-> n])
    BY <1>7 DEF BeginAdjustStock
  <2> DEFINE q == [call |-> "adjust", product |-> p, quantity |-> n]
  <2>2. q \in Call /\ q.call = "adjust" /\ q.quantity = n
    BY ApiAssumption DEF Call
  <2> HIDE DEF q
  <2>3. Points(q) /\ Sees(q)
    BY <2>2 DEF Points, Sees, OfCase, OfRow
  <2>4. QED
    BY <2>1, <2>2, <2>3, AcceptLifecycle DEF q
<1>8. QED
  BY <1>2, <1>3, <1>4, <1>5, <1>6, <1>7 DEF Begin

LEMMA SynchronizeLifecycle ==
    ASSUME LifecycleInductive, NEW items \in Basket, Synchronize(items)
    PROVE  LifecycleInductive'
<1> USE DEF LifecycleInductive
<1>1. PICK conflict \in BOOLEAN :
         /\ transactions' = Append(transactions,
              [status |-> IF conflict THEN "PENDING" ELSE "CONFIRMED",
               sync |-> IF conflict THEN "SYNC_CONFLICT" ELSE "SYNCED",
               items |-> items,
               moved |-> IF conflict THEN Nothing ELSE Minus(Nothing, items),
               payment |-> "VERIFIED"])
         /\ stock' = IF conflict THEN stock ELSE Minus(stock, items)
  BY DEF Synchronize, Record
<1>2. UNCHANGED <<corrections, cases, adjusted, inflight, stale, raced>>
  BY DEF Synchronize
<1> SUFFICES ASSUME NEW n, n = Len(transactions) + 1,
                    NEW t, t = [status |-> IF conflict THEN "PENDING" ELSE "CONFIRMED",
                                sync |-> IF conflict THEN "SYNC_CONFLICT" ELSE "SYNCED",
                                items |-> items,
                                moved |-> IF conflict THEN Nothing ELSE Minus(Nothing, items),
                                payment |-> "VERIFIED"]
             PROVE  LifecycleInductive'
  OBVIOUS
<1>3. /\ items \in [Product -> Nat] /\ items \in Quantities
      /\ Nothing \in Quantities /\ Minus(Nothing, items) \in Quantities
      /\ stock' \in Quantities
  BY <1>1, ApiAssumption, Quantified DEF TypeOK
<1>4. /\ t \in Row
      /\ t.status = IF conflict THEN "PENDING" ELSE "CONFIRMED"
      /\ t.sync = IF conflict THEN "SYNC_CONFLICT" ELSE "SYNCED"
      /\ t.moved = IF conflict THEN Nothing ELSE Minus(Nothing, items)
      /\ t.items = items /\ t.payment = "VERIFIED"
  BY <1>3 DEF Row, Status, Payment
<1>5. /\ transactions' \in Seq(Row)
      /\ n \notin DOMAIN transactions
      /\ DOMAIN transactions' = DOMAIN transactions \cup {n}
      /\ transactions'[n] = t
      /\ \A j \in DOMAIN transactions : transactions'[j] = transactions[j]
  BY <1>1, <1>4, OneAdded DEF TypeOK
<1>6. TypeOK'
  <2>1. corrections \subseteq [old : DOMAIN transactions, new : DOMAIN transactions]
    BY DEF TypeOK
  <2>2. corrections' \subseteq [old : DOMAIN transactions', new : DOMAIN transactions']
    BY <1>2, <1>5, <2>1
  <2>3. QED
    BY <1>2, <1>3, <1>5, <2>2 DEF TypeOK
<1>7. Untouched({}) /\ NewBridges({}) /\ PaymentsStay /\ CallsElsewhere({})
  BY <1>2, <1>5 DEF Untouched, NewBridges, PaymentsStay, CallsElsewhere
<1>8. Settled(n)'
  <2>1. ~Replaced(n)'
    BY <1>2, <1>5 DEF TypeOK, Replaced
  <2>2. Sound(n)'
    BY <1>4, <1>5, <2>1 DEF Sound, Deducted, Nothing, Minus
  <2>3. OneOpen(n)'
    BY <1>2, <1>5 DEF Known, OneOpen, CasesOf
  <2>4. FailedWithCause(n)'
    BY <1>4, <1>5 DEF FailedWithCause
  <2>5. QED
    BY <2>2, <2>3, <2>4 DEF Settled
<1>9. t.status = "PENDING" => t.moved = Nothing
  BY <1>4
<1>10. QED
  BY <1>2, <1>5, <1>6, <1>7, <1>8, <1>9, StepLifecycle

LEMMA NextLifecycle == LifecycleInductive /\ [Next]_vars => LifecycleInductive'
<1> SUFFICES ASSUME LifecycleInductive, [Next]_vars PROVE LifecycleInductive'
  OBVIOUS
<1>1. ASSUME NEW r \in Request, Write(r)
      PROVE  LifecycleInductive'
  BY <1>1, VoidLifecycle, ForceLifecycle, CancelLifecycle, CorrectLifecycle, OpenCaseLifecycle,
     ResolveValidLifecycle, ResolveInvalidLifecycle, AdjustLifecycle DEF Write
<1>2. ASSUME UNCHANGED vars PROVE LifecycleInductive'
  <2> USE DEF LifecycleInductive
  <2>1. UNCHANGED <<transactions, corrections, cases, stock, adjusted, inflight, stale, raced>>
    BY <1>2 DEF vars, tables
  <2>2. TypeOK'
    BY <2>1 DEF TypeOK
  <2>3. Untouched({}) /\ NewBridges({}) /\ PaymentsStay /\ CallsElsewhere({})
    BY <2>1 DEF Untouched, NewBridges, PaymentsStay, CallsElsewhere
  <2>4. QED
    BY <2>1, <2>2, <2>3, StepLifecycle
<1>3. QED
  BY <1>1, <1>2, BeginLifecycle, AbandonLifecycle, SynchronizeLifecycle DEF Next

-----------------------------------------------------------------------------
(* What holds of every run. *)

(* The rows of a sale fit together and whatever a call in flight has read   *)
(* still holds, unless the call is known to be late.                        *)
THEOREM LifecycleInvariant == Spec => []LifecycleInductive
<1>1. QED
  BY InitLifecycle, NextLifecycle, PTL DEF Spec

(* Every row keeps its kind, and what a row refers to exists.               *)
THEOREM LifecycleTyped == Spec => []TypeOK
<1>1. LifecycleInductive => TypeOK
  BY DEF LifecycleInductive
<1>2. QED
  BY <1>1, LifecycleInvariant, PTL

(* A sale in conflict has moved no stock, whichever calls void, resolve and *)
(* reconcile it at the same time.                                           *)
THEOREM LifecyclePending == Spec => []PendingMovesNothing
<1>1. LifecycleInductive => PendingMovesNothing
  BY DEF LifecycleInductive
<1>2. QED
  BY <1>1, LifecycleInvariant, PTL

(* The stock movements of a sale are those its status calls for, unless a   *)
(* call wrote it on a read that another call had overtaken.                 *)
THEOREM LifecycleStock == Spec => []StockFollowsStatus
<1>1. LifecycleInductive => StockFollowsStatus
  <2> SUFFICES ASSUME LifecycleInductive, NEW i \in DOMAIN transactions \ raced
               PROVE  /\ transactions[i].status = "CONFIRMED" => Deducted(transactions[i])
                      /\ transactions[i].status = "PENDING" => transactions[i].moved = Nothing
                      /\ transactions[i].status = "VOIDED" =>
                            \/ transactions[i].moved = Nothing
                            \/ Deducted(transactions[i]) /\ WrittenOff(i) /\ ~Replaced(i)
                      /\ transactions[i].status \in Status
    BY DEF StockFollowsStatus, Deducted, Status
  <2>1. transactions[i].status \in Status
    BY Tables, RowFields DEF LifecycleInductive
  <2>2. QED
    BY <2>1 DEF LifecycleInductive, PendingMovesNothing, SettledRows, Settled, Sound
<1>2. QED
  BY <1>1, LifecycleInvariant, PTL

(* A payment is FAILED because of a case of its own, or as the copy of one  *)
(* that is.                                                                 *)
THEOREM LifecycleFailed == Spec => []FailedForCause
<1>1. LifecycleInductive => FailedForCause
  BY DEF LifecycleInductive, SettledRows, Settled, FailedWithCause, FailedForCause
<1>2. QED
  BY <1>1, LifecycleInvariant, PTL

-----------------------------------------------------------------------------
(* The calls keep the books of SaleAccounts while none writes a sale on a   *)
(* stale read.                                                              *)

LEMMA RacedStays == [Next]_vars => raced \subseteq raced'
<1>1. ASSUME NEW r \in Request, NEW i, Wrote(r, i) PROVE raced \subseteq raced'
  BY <1>1 DEF Wrote
<1>2. ASSUME NEW r \in Request, Write(r) PROVE raced \subseteq raced'
  BY <1>1, <1>2 DEF Write, VoidTransaction, ForceConfirm, CancelConflict, CorrectTransaction,
     OpenCase, ResolveValid, ResolveInvalid, AdjustStock
<1>3. ASSUME NEW r \in Request, Begin(r) \/ Abandon(r) PROVE UNCHANGED raced
  BY <1>3 DEF Abandon, Begin, BeginVoid, BeginResolveConflict, BeginCorrection, BeginCreate,
     BeginReconcile, BeginResolveCase, BeginAdjustStock, Accept
<1>4. ASSUME NEW items \in Basket, Synchronize(items) PROVE UNCHANGED raced
  BY <1>4 DEF Synchronize
<1>5. QED
  BY <1>2, <1>3, <1>4 DEF Next, vars

Accounts == [i \in DOMAIN transactions |-> Account(i)]

Standing(t) ==
    IF t.sync = "SYNC_CONFLICT" THEN "disputed"
    ELSE IF t.status # "VOIDED" THEN "sold"
    ELSE IF t.moved = Nothing THEN "voided" ELSE "written off"

Parent(i) ==
    IF \E c \in corrections : c.new = i
    THEN (CHOOSE c \in corrections : c.new = i).old ELSE 0

Entry == [items : [Product -> Nat],
          state : {"disputed", "sold", "voided", "written off"}, replaces : Nat]

LEMMA AccountRead ==
    ASSUME TypeOK, NEW i \in DOMAIN transactions
    PROVE  /\ Account(i) = [items |-> transactions[i].items,
                            state |-> Standing(transactions[i]), replaces |-> Parent(i)]
           /\ Account(i) \in Entry
           /\ Account(i).items = transactions[i].items
           /\ Account(i).state = Standing(transactions[i])
<1>1. /\ transactions[i].items \in [Product -> Nat]
      /\ transactions[i].sync \in {"SYNCED", "SYNC_CONFLICT"}
  BY Tables, RowFields
<1>2. Account(i) = [items |-> transactions[i].items,
                    state |-> Standing(transactions[i]), replaces |-> Parent(i)]
  BY <1>1 DEF Account, Standing, Parent
<1>3. Standing(transactions[i]) \in {"disputed", "sold", "voided", "written off"}
  BY DEF Standing
<1>4. Parent(i) \in Nat
  <2>1. \A c \in corrections : c.old \in Nat
    BY Tables DEF TypeOK
  <2>2. QED
    BY <2>1 DEF Parent
<1>5. ASSUME NEW items \in [Product -> Nat], NEW old \in Nat,
             NEW s \in {"disputed", "sold", "voided", "written off"}
      PROVE  [items |-> items, state |-> s, replaces |-> old] \in Entry
  BY DEF Entry
<1>6. Account(i) \in Entry
  BY <1>1, <1>2, <1>3, <1>4, <1>5
<1>7. Account(i).items = transactions[i].items /\ Account(i).state = Standing(transactions[i])
  BY <1>2
<1>8. QED
  BY <1>2, <1>6, <1>7

Listed ==
    /\ Accounts \in Seq(Entry)
    /\ Len(Accounts) = Len(transactions)
    /\ Len(transactions) \in Nat
    /\ DOMAIN Accounts = DOMAIN transactions
    /\ DOMAIN transactions = 1 .. Len(transactions)
    /\ \A i \in DOMAIN transactions :
          /\ Accounts[i] = [items |-> transactions[i].items,
                            state |-> Standing(transactions[i]), replaces |-> Parent(i)]
          /\ Accounts[i] \in Entry

LEMMA AccountsList == TypeOK => Listed
<1> SUFFICES ASSUME TypeOK PROVE Listed
  OBVIOUS
<1>1. DOMAIN Accounts = 1 .. Len(transactions) /\ Len(transactions) \in Nat
  BY Tables DEF Accounts
<1>2. \A i \in DOMAIN transactions :
         /\ Accounts[i] = [items |-> transactions[i].items,
                           state |-> Standing(transactions[i]), replaces |-> Parent(i)]
         /\ Accounts[i] \in Entry
  BY AccountRead DEF Accounts
<1>3. Accounts \in [1 .. Len(transactions) -> Entry]
  BY <1>2, Tables DEF Accounts
<1> HIDE DEF Accounts
<1>4. Accounts \in Seq(Entry)
  BY <1>1, <1>3, SeqDef
<1>5. QED
  BY <1>1, <1>2, <1>4, LenProperties, Tables DEF Listed

LEMMA AccountsListNext == TypeOK' => Listed'
BY AccountsList, PTL

(* What a sale replaces is settled when it is created.                      *)
LEMMA ParentStays ==
    ASSUME Bridges, Bridges', NEW i,
           \A c : c.new = i => (c \in corrections <=> c \in corrections')
    PROVE  Parent(i)' = Parent(i)
<1>1. CASE \E c \in corrections : c.new = i
  <2>1. PICK c \in corrections : c.new = i
    BY <1>1
  <2>2. (CHOOSE d \in corrections : d.new = i) = c
    BY <2>1 DEF Bridges
  <2>3. c \in corrections'
    BY <2>1
  <2>4. (CHOOSE d \in corrections' : d.new = i) = c
    BY <2>1, <2>3 DEF Bridges
  <2>5. QED
    BY <2>1, <2>2, <2>3, <2>4 DEF Parent
<1>2. CASE ~ \E c \in corrections : c.new = i
  BY <1>2 DEF Parent
<1>3. QED
  BY <1>1, <1>2

(* The accounts after a step, read off the rows.                            *)
LEMMA AccountsNow ==
    ASSUME Listed', NEW u \in Seq(Entry), Len(u) = Len(transactions'),
           \A i \in DOMAIN transactions' :
              u[i] = [items |-> transactions'[i].items,
                      state |-> Standing(transactions'[i]), replaces |-> Parent(i)']
    PROVE  Accounts' = u
<1>1. /\ Accounts' \in Seq(Entry) /\ Len(Accounts') = Len(u)
      /\ \A i \in 1 .. Len(u) : Accounts'[i] = u[i]
  BY DEF Listed
<1>2. QED
  BY <1>1, SeqEqual

LEMMA AccountAdded ==
    ASSUME TypeOK, TypeOK', Bridges, Bridges', NEW t \in Row,
           transactions' = Append(transactions, t), corrections' = corrections
    PROVE  Accounts' = Append(Accounts, [items |-> t.items, state |-> Standing(t),
                                         replaces |-> 0])
<1> SUFFICES ASSUME NEW n, n = Len(transactions) + 1
             PROVE  Accounts' = Append(Accounts, [items |-> t.items, state |-> Standing(t),
                                                  replaces |-> 0])
  OBVIOUS
<1> DEFINE e == [items |-> t.items, state |-> Standing(t), replaces |-> 0]
           u == Append(Accounts, e)
<1>1. Listed /\ Listed'
  BY AccountsList, AccountsListNext
<1>2. e \in Entry
  BY RowFields DEF Entry, Standing
<1>3. /\ n \notin DOMAIN transactions
      /\ DOMAIN transactions' = DOMAIN transactions \cup {n}
      /\ transactions'[n] = t
      /\ \A j \in DOMAIN transactions : transactions'[j] = transactions[j]
      /\ Len(transactions') = n
  BY OneAdded, AppendProperties DEF TypeOK
<1>4. Parent(n)' = 0
  BY <1>3 DEF TypeOK, Parent
<1>5. \A i : Parent(i)' = Parent(i)
  BY ParentStays
<1> HIDE DEF e
<1>6. /\ u \in Seq(Entry) /\ Len(u) = n
      /\ u[n] = e
      /\ \A j \in DOMAIN transactions : u[j] = Accounts[j]
  BY <1>1, <1>2, OneAdded, AppendProperties DEF Listed
<1> HIDE DEF u
<1>7. ASSUME NEW i \in DOMAIN transactions'
      PROVE  u[i] = [items |-> transactions'[i].items,
                     state |-> Standing(transactions'[i]), replaces |-> Parent(i)']
  <2>1. CASE i = n
    BY <1>3, <1>4, <1>6, <2>1 DEF e
  <2>2. CASE i \in DOMAIN transactions
    BY <1>1, <1>3, <1>5, <1>6, <2>2 DEF Listed
  <2>3. QED
    BY <1>3, <2>1, <2>2
<1>8. QED
  BY <1>1, <1>3, <1>6, <1>7, AccountsNow DEF u, e

LEMMA AccountChanged ==
    ASSUME TypeOK, TypeOK', Bridges, Bridges',
           NEW i \in DOMAIN transactions, NEW t \in Row, t.items = transactions[i].items,
           transactions' = [transactions EXCEPT ![i] = t], corrections' = corrections
    PROVE  Accounts' = [Accounts EXCEPT ![i].state = Standing(t)]
<1> DEFINE e == [Accounts[i] EXCEPT !.state = Standing(t)]
           u == [Accounts EXCEPT ![i] = e]
<1>1. Listed /\ Listed'
  BY AccountsList, AccountsListNext
<1>2. /\ e \in Entry
      /\ e = [items |-> t.items, state |-> Standing(t), replaces |-> Parent(i)]
  <2>1. /\ Accounts[i] \in Entry
        /\ Accounts[i] = [items |-> t.items, state |-> Standing(transactions[i]),
                          replaces |-> Parent(i)]
    BY <1>1 DEF Listed
  <2>2. Standing(t) \in {"disputed", "sold", "voided", "written off"}
    BY DEF Standing
  <2> HIDE DEF Accounts
  <2>3. e \in Entry
    BY <2>1, <2>2 DEF Entry
  <2>4. e = [items |-> t.items, state |-> Standing(t), replaces |-> Parent(i)]
    BY <2>1
  <2>5. QED
    BY <2>3, <2>4
<1>3. /\ DOMAIN transactions' = DOMAIN transactions
      /\ Len(transactions') = Len(transactions)
      /\ transactions'[i] = t
      /\ \A j \in DOMAIN transactions \ {i} : transactions'[j] = transactions[j]
  BY OneReplaced DEF TypeOK
<1>4. \A j : Parent(j)' = Parent(j)
  BY ParentStays
<1> HIDE DEF e
<1>5. /\ u \in Seq(Entry) /\ Len(u) = Len(Accounts)
      /\ u[i] = e
      /\ \A j \in DOMAIN transactions \ {i} : u[j] = Accounts[j]
  BY <1>1, <1>2, OneReplaced DEF Listed
<1> HIDE DEF u
<1>6. \A j \in DOMAIN transactions' :
          u[j] = [items |-> transactions'[j].items,
                  state |-> Standing(transactions'[j]), replaces |-> Parent(j)']
  BY <1>1, <1>2, <1>3, <1>4, <1>5 DEF Listed
<1>7. Accounts' = u
  BY <1>1, <1>3, <1>5, <1>6, AccountsNow DEF Listed
<1>8. QED
  BY <1>7 DEF u, e

LEMMA AccountReplaced ==
    ASSUME TypeOK, TypeOK', Bridges, Bridges',
           NEW i \in DOMAIN transactions, NEW t \in Row, t.items = transactions[i].items,
           NEW x \in Row,
           transactions' = Append([transactions EXCEPT ![i] = t], x),
           corrections' = corrections \cup {[old |-> i, new |-> Len(transactions) + 1]}
    PROVE  Accounts' = Append([Accounts EXCEPT ![i].state = Standing(t)],
                              [items |-> x.items, state |-> Standing(x), replaces |-> i])
<1> SUFFICES ASSUME NEW n, n = Len(transactions) + 1
             PROVE  Accounts' = Append([Accounts EXCEPT ![i].state = Standing(t)],
                                       [items |-> x.items, state |-> Standing(x),
                                        replaces |-> i])
  OBVIOUS
<1> DEFINE e == [Accounts[i] EXCEPT !.state = Standing(t)]
           y == [items |-> x.items, state |-> Standing(x), replaces |-> i]
           u == Append([Accounts EXCEPT ![i] = e], y)
<1>1. Listed /\ Listed'
  BY AccountsList, AccountsListNext
<1>2. /\ e \in Entry
      /\ e = [items |-> t.items, state |-> Standing(t), replaces |-> Parent(i)]
  <2>1. /\ Accounts[i] \in Entry
        /\ Accounts[i] = [items |-> t.items, state |-> Standing(transactions[i]),
                          replaces |-> Parent(i)]
    BY <1>1 DEF Listed
  <2>2. Standing(t) \in {"disputed", "sold", "voided", "written off"}
    BY DEF Standing
  <2> HIDE DEF Accounts
  <2>3. e \in Entry
    BY <2>1, <2>2 DEF Entry
  <2>4. e = [items |-> t.items, state |-> Standing(t), replaces |-> Parent(i)]
    BY <2>1
  <2>5. QED
    BY <2>3, <2>4
<1>3. y \in Entry
  <2>1. i \in Nat
    BY Tables
  <2>2. QED
    BY <2>1, RowFields DEF Entry, Standing
<1>4. /\ n \notin DOMAIN transactions
      /\ DOMAIN transactions' = DOMAIN transactions \cup {n}
      /\ Len(transactions') = n
      /\ transactions'[n] = x
      /\ transactions'[i] = t
      /\ \A j \in DOMAIN transactions \ {i} : transactions'[j] = transactions[j]
  <2>1. transactions \in Seq(Row) /\ transactions' \in Seq(Row)
    BY DEF TypeOK
  <2>2. /\ n \notin DOMAIN transactions
        /\ DOMAIN transactions' = DOMAIN transactions \cup {n}
        /\ transactions'[n] = x
        /\ transactions'[i] = t
        /\ \A j \in DOMAIN transactions \ {i} : transactions'[j] = transactions[j]
    BY <2>1, OneReplacedOneAdded
  <2>3. Len(transactions') = n
    BY <2>1, OneReplaced, AppendProperties
  <2>4. QED
    BY <2>2, <2>3
<1>5. Parent(n)' = i
  <2> DEFINE c == [old |-> i, new |-> n]
  <2>1. c \in corrections' /\ c.new = n /\ c.old = i
    OBVIOUS
  <2> HIDE DEF c
  <2>2. (CHOOSE d \in corrections' : d.new = n) = c
    BY <2>1 DEF Bridges
  <2>3. QED
    BY <2>1, <2>2 DEF Parent
<1>6. ASSUME NEW j \in DOMAIN transactions PROVE Parent(j)' = Parent(j)
  <2>1. \A c : c.new = j => (c \in corrections <=> c \in corrections')
    BY <1>4
  <2>2. QED
    BY <2>1, ParentStays
<1> HIDE DEF e, y
<1>7. /\ u \in Seq(Entry) /\ Len(u) = n
      /\ u[n] = y
      /\ u[i] = e
      /\ \A j \in DOMAIN transactions \ {i} : u[j] = Accounts[j]
  <2>1. Accounts \in Seq(Entry) /\ DOMAIN Accounts = DOMAIN transactions /\ n = Len(Accounts) + 1
    BY <1>1 DEF Listed
  <2> HIDE DEF Accounts
  <2>2. /\ u \in Seq(Entry)
        /\ u[n] = y
        /\ u[i] = e
        /\ \A j \in DOMAIN transactions \ {i} : u[j] = Accounts[j]
    BY <1>2, <1>3, <2>1, OneReplacedOneAdded
  <2>3. Len(u) = n
    BY <1>2, <1>3, <2>1, OneReplaced, AppendProperties
  <2>4. QED
    BY <2>2, <2>3
<1> HIDE DEF u
<1>8. ASSUME NEW j \in DOMAIN transactions'
      PROVE  u[j] = [items |-> transactions'[j].items,
                     state |-> Standing(transactions'[j]), replaces |-> Parent(j)']
  <2>1. CASE j = n
    BY <1>4, <1>5, <1>7, <2>1 DEF y
  <2>2. CASE j = i
    <3>1. Parent(j)' = Parent(j)
      BY <1>6, <2>2
    <3>2. QED
      BY <1>2, <1>4, <1>7, <2>2, <3>1
  <2>3. CASE j \in DOMAIN transactions \ {i}
    BY <1>1, <1>4, <1>6, <1>7, <2>3 DEF Listed
  <2>4. QED
    BY <1>4, <2>1, <2>2, <2>3
<1>9. Accounts' = u
  BY <1>1, <1>4, <1>7, <1>8, AccountsNow
<1>10. QED
  BY <1>9 DEF u, e, y

(* The steps of the books, in terms of the accounts.                        *)
LEMMA BooksQuantities ==
    /\ \A f, g : Books!Less(f, g) = Minus(f, g)
    /\ Books!Nothing = Nothing
BY DEF Books!Less, Minus, Books!Nothing, Nothing

LEMMA BooksSell ==
    ASSUME NEW items \in Basket, \A p \in Product : items[p] <= stock[p],
           Accounts' = Append(Accounts, [items |-> items, state |-> "sold", replaces |-> 0]),
           stock' = Minus(stock, items)
    PROVE  Books!Next
<1>1. Books!Sell(items)
  BY BooksQuantities DEF Books!Sell, Books!Opened, Accounts
<1>2. QED
  BY <1>1 DEF Books!Next

LEMMA BooksDispute ==
    ASSUME NEW items \in Basket,
           Accounts' = Append(Accounts, [items |-> items, state |-> "disputed",
                                         replaces |-> 0]),
           UNCHANGED stock
    PROVE  Books!Next
<1>1. Books!Dispute(items)
  BY DEF Books!Dispute, Books!Opened, Accounts
<1>2. QED
  BY <1>1 DEF Books!Next

LEMMA BooksSettled ==
    ASSUME NEW i \in DOMAIN transactions, DOMAIN Accounts = DOMAIN transactions,
           \/ /\ Accounts[i].state = "disputed"
              /\ Accounts' = [Accounts EXCEPT ![i].state = "sold"]
              /\ stock' = Minus(stock, Accounts[i].items)
           \/ /\ Accounts[i].state = "disputed"
              /\ Accounts' = [Accounts EXCEPT ![i].state = "voided"]
              /\ UNCHANGED stock
           \/ /\ Accounts[i].state = "sold"
              /\ Accounts' = [Accounts EXCEPT ![i].state =
                    IF Accounts[i].items = Nothing THEN "voided" ELSE "written off"]
              /\ UNCHANGED stock
    PROVE  Books!Next
<1>1. Books!Accept(i) \/ Books!Void(i) \/ Books!WriteOff(i)
  BY BooksQuantities DEF Books!Accept, Books!Void, Books!WriteOff, Books!Settle, Accounts
<1>2. QED
  BY <1>1 DEF Books!Next, Accounts

LEMMA BooksCorrect ==
    ASSUME NEW i \in DOMAIN transactions, DOMAIN Accounts = DOMAIN transactions,
           NEW items \in Basket, Accounts[i].state = "sold",
           Accounts' = Append([Accounts EXCEPT ![i].state = "voided"],
                              [items |-> items, state |-> "sold", replaces |-> i]),
           stock' = Minus(stock, Minus(items, Accounts[i].items))
    PROVE  Books!Next
<1>1. Books!Correct(i, items)
  BY BooksQuantities DEF Books!Correct, Books!Opened, Accounts
<1>2. QED
  BY <1>1 DEF Books!Next, Accounts

LEMMA BooksAdjust ==
    ASSUME NEW p \in Product, NEW n \in Change,
           Accounts' = Accounts, stock' = [stock EXCEPT ![p] = @ + n]
    PROVE  Books!Next
<1>1. Books!Adjust(p, n)
  BY DEF Books!Adjust, Accounts
<1>2. QED
  BY <1>1 DEF Books!Next

LEMMA BooksStutter ==
    ASSUME Accounts' = Accounts, stock' = stock
    PROVE  UNCHANGED Books!vars
BY DEF Books!vars, Accounts

-----------------------------------------------------------------------------
(* The writes, as steps of the books.                                       *)

Between == LifecycleInductive /\ LifecycleInductive' /\ raced = {} /\ raced' = {}

(* What a call that writes then has read still holds.                       *)
LEMMA WriterFresh ==
    ASSUME Between, NEW r \in Request, NEW i, Wrote(r, i)
    PROVE  r \notin stale
BY DEF Between, Wrote

LEMMA AccountsSame ==
    ASSUME UNCHANGED <<transactions, corrections>>
    PROVE  Accounts' = Accounts
BY DEF Accounts, Account, Nothing

(* A call that writes the row of sale i as t.                               *)
LEMMA RowsBooks ==
    ASSUME Between, NEW i \in DOMAIN transactions,
           NEW t \in Row, t.items = transactions[i].items,
           transactions' = [transactions EXCEPT ![i] = t], corrections' = corrections
    PROVE  /\ DOMAIN Accounts = DOMAIN transactions
           /\ Accounts[i].items = transactions[i].items
           /\ Accounts[i].state = Standing(transactions[i])
           /\ Accounts' = [Accounts EXCEPT ![i].state = Standing(t)]
           /\ Standing(t) = Standing(transactions[i]) => Accounts' = Accounts
<1> USE DEF Between, LifecycleInductive
<1>1. /\ DOMAIN Accounts = DOMAIN transactions
      /\ Accounts[i] = [items |-> transactions[i].items,
                        state |-> Standing(transactions[i]), replaces |-> Parent(i)]
  BY AccountsList DEF Listed
<1>2. Accounts' = [Accounts EXCEPT ![i].state = Standing(t)]
  BY AccountChanged
<1>3. ASSUME Standing(t) = Standing(transactions[i])
      PROVE  Accounts' = Accounts
  <2>1. Accounts = [j \in DOMAIN Accounts |-> Accounts[j]]
    BY DEF Accounts
  <2> HIDE DEF Accounts
  <2>2. [Accounts[i] EXCEPT !.state = Standing(t)] = Accounts[i]
    BY <1>1, <1>3
  <2>3. QED
    BY <1>1, <1>2, <2>1, <2>2
<1> HIDE DEF Accounts
<1>4. QED
  BY <1>1, <1>2, <1>3

LEMMA VoidBooks ==
    ASSUME Between, NEW r \in Request, VoidTransaction(r)
    PROVE  [Books!Next]_(Books!vars)
<1> SUFFICES ASSUME NEW i, i = inflight[r].row PROVE UNCHANGED Books!vars
  OBVIOUS
<1> DEFINE x == transactions[i]
           t == [x EXCEPT !.status = "VOIDED"]
<1>1. /\ inflight[r] # None /\ inflight[r].call = "void"
      /\ transactions' = [transactions EXCEPT ![i] = t]
      /\ UNCHANGED <<corrections, stock>>
  BY DEF VoidTransaction, Serving
<1>2. r \notin stale
  BY WriterFresh DEF VoidTransaction
<1>3. i \in DOMAIN transactions /\ x.status = "PENDING"
  BY <1>2, <1>1, Served DEF Points, Sees, OfRow, Between
<1>4. x \in Row
  BY <1>3, Tables DEF Between, LifecycleInductive
<1>5. t \in Row /\ t.items = x.items /\ t.sync = x.sync
  BY <1>4 DEF Row, Status
<1>6. x.sync = "SYNC_CONFLICT"
  BY <1>3 DEF Between, LifecycleInductive, SettledRows, Settled, Sound
<1> HIDE DEF t
<1>7. Standing(t) = Standing(x)
  BY <1>5, <1>6 DEF Standing
<1>8. Accounts' = Accounts
  BY <1>1, <1>3, <1>5, <1>7, RowsBooks
<1>9. QED
  BY <1>1, <1>8, BooksStutter

LEMMA ForceBooks ==
    ASSUME Between, NEW r \in Request, ForceConfirm(r)
    PROVE  [Books!Next]_(Books!vars)
<1> SUFFICES ASSUME NEW i, i = inflight[r].row PROVE Books!Next
  OBVIOUS
<1> DEFINE x == transactions[i]
           t == [x EXCEPT !.status = "CONFIRMED", !.sync = "SYNCED",
                          !.moved = Minus(x.moved, x.items)]
<1>1. /\ inflight[r] # None /\ inflight[r].call = "force"
      /\ transactions' = [transactions EXCEPT ![i] = t]
      /\ corrections' = corrections
      /\ stock' = Minus(stock, x.items)
  BY DEF ForceConfirm, Serving
<1>2. r \notin stale
  BY WriterFresh DEF ForceConfirm
<1>3. i \in DOMAIN transactions /\ x.sync = "SYNC_CONFLICT"
  BY <1>2, <1>1, Served DEF Points, Sees, OfRow, InConflict, Between
<1>4. x \in Row /\ Minus(x.moved, x.items) \in Quantities
  BY <1>3, Tables, RowFields, Quantified DEF Between, LifecycleInductive
<1>5. t \in Row /\ t.items = x.items /\ t.status = "CONFIRMED" /\ t.sync = "SYNCED"
  BY <1>4 DEF Row, Status
<1> HIDE DEF t
<1>6. Standing(t) = "sold" /\ Standing(x) = "disputed"
  BY <1>3, <1>5 DEF Standing
<1>7. /\ DOMAIN Accounts = DOMAIN transactions
      /\ Accounts[i].items = x.items /\ Accounts[i].state = "disputed"
      /\ Accounts' = [Accounts EXCEPT ![i].state = "sold"]
  <2>1. /\ DOMAIN Accounts = DOMAIN transactions
        /\ Accounts[i].items = x.items /\ Accounts[i].state = Standing(x)
        /\ Accounts' = [Accounts EXCEPT ![i].state = Standing(t)]
    BY <1>1, <1>3, <1>5, RowsBooks
  <2>2. QED
    BY <1>6, <2>1
<1>8. QED
  BY <1>1, <1>3, <1>7, BooksSettled

LEMMA CancelBooks ==
    ASSUME Between, NEW r \in Request, CancelConflict(r)
    PROVE  [Books!Next]_(Books!vars)
<1> SUFFICES ASSUME NEW i, i = inflight[r].row PROVE Books!Next
  OBVIOUS
<1> DEFINE x == transactions[i]
           t == [x EXCEPT !.status = "VOIDED", !.sync = "SYNCED"]
<1>1. /\ inflight[r] # None /\ inflight[r].call = "cancel"
      /\ transactions' = [transactions EXCEPT ![i] = t]
      /\ UNCHANGED <<corrections, stock>>
  BY DEF CancelConflict, Serving
<1>2. r \notin stale
  BY WriterFresh DEF CancelConflict
<1>3. i \in DOMAIN transactions /\ x.sync = "SYNC_CONFLICT"
  BY <1>2, <1>1, Served DEF Points, Sees, OfRow, InConflict, Between
<1>4. x \in Row
  BY <1>3, Tables DEF Between, LifecycleInductive
<1>5. /\ t \in Row /\ t.items = x.items /\ t.status = "VOIDED" /\ t.sync = "SYNCED"
      /\ t.moved = x.moved
  BY <1>4 DEF Row, Status
<1>6. x.moved = Nothing
  BY <1>3 DEF Between, LifecycleInductive, SettledRows, Settled, Sound
<1> HIDE DEF t
<1>7. Standing(t) = "voided" /\ Standing(x) = "disputed"
  BY <1>3, <1>5, <1>6 DEF Standing
<1>8. /\ DOMAIN Accounts = DOMAIN transactions
      /\ Accounts[i].items = x.items /\ Accounts[i].state = "disputed"
      /\ Accounts' = [Accounts EXCEPT ![i].state = "voided"]
  <2>1. /\ DOMAIN Accounts = DOMAIN transactions
        /\ Accounts[i].items = x.items /\ Accounts[i].state = Standing(x)
        /\ Accounts' = [Accounts EXCEPT ![i].state = Standing(t)]
    BY <1>1, <1>3, <1>5, RowsBooks
  <2>2. QED
    BY <1>7, <2>1
<1>9. QED
  BY <1>1, <1>3, <1>8, BooksSettled

LEMMA CorrectBooks ==
    ASSUME Between, NEW r \in Request, CorrectTransaction(r)
    PROVE  [Books!Next]_(Books!vars)
<1> SUFFICES ASSUME NEW q, q = inflight[r], NEW i, i = q.row PROVE Books!Next
  OBVIOUS
<1> DEFINE x == transactions[i]
           t == [x EXCEPT !.status = "VOIDED", !.moved = Plus(x.moved, x.items)]
           u == [status |-> "CONFIRMED", sync |-> "SYNCED", items |-> q.items,
                 moved |-> Minus(Nothing, q.items), payment |-> q.payment]
<1>1. /\ q # None /\ q.call = "correct"
      /\ transactions' = Append([transactions EXCEPT ![i] = t], u)
      /\ stock' = Plus(stock, Plus(x.items, Minus(Nothing, q.items)))
      /\ corrections' = corrections \cup {[old |-> i, new |-> Len(transactions) + 1]}
  BY DEF CorrectTransaction, Replace, Serving
<1>2. r \notin stale
  BY WriterFresh DEF CorrectTransaction
<1>3. /\ i \in DOMAIN transactions /\ x.status = "CONFIRMED"
      /\ q.items \in Basket
      /\ q.items \in [Product -> Nat] /\ q.payment \in Payment
  BY <1>2, <1>1, Served, CallFields DEF Points, Sees, OfRow, Correctable, Between
<1>4. /\ x \in Row /\ x.items \in Quantities /\ q.items \in Quantities
      /\ x.sync = "SYNCED" /\ x.moved = Minus(Nothing, x.items)
      /\ Minus(Nothing, q.items) \in Quantities /\ Plus(x.moved, x.items) = Nothing
      /\ Nothing \in Quantities
  <2>1. x \in Row /\ x.items \in Quantities /\ q.items \in Quantities
    BY <1>3, Tables, RowFields, Quantified DEF Between, LifecycleInductive
  <2>2. x.sync = "SYNCED" /\ x.moved = Minus(Nothing, x.items)
    BY <1>3 DEF Between, LifecycleInductive, SettledRows, Settled, Sound, Deducted
  <2>3. QED
    BY <2>1, <2>2, Quantified
<1>5. /\ t \in Row /\ t.items = x.items /\ t.status = "VOIDED" /\ t.sync = "SYNCED"
      /\ t.moved = Nothing
  BY <1>4 DEF Row, Status
<1>6. u \in Row /\ u.status = "CONFIRMED" /\ u.sync = "SYNCED" /\ u.items = q.items
  BY <1>3, <1>4 DEF Row, Status
<1> HIDE DEF t, u
<1>7. Standing(t) = "voided" /\ Standing(u) = "sold" /\ Standing(x) = "sold"
  BY <1>3, <1>4, <1>5, <1>6 DEF Standing
<1>8. Accounts' = Append([Accounts EXCEPT ![i].state = "voided"],
                         [items |-> q.items, state |-> "sold", replaces |-> i])
  <2>1. Accounts' = Append([Accounts EXCEPT ![i].state = Standing(t)],
                           [items |-> u.items, state |-> Standing(u), replaces |-> i])
    BY <1>1, <1>3, <1>5, <1>6, AccountReplaced DEF Between, LifecycleInductive
  <2>2. QED
    BY <1>6, <1>7, <2>1
<1>9. /\ DOMAIN Accounts = DOMAIN transactions
      /\ Accounts[i].items = x.items /\ Accounts[i].state = "sold"
  BY <1>3, <1>7, AccountsList DEF Listed, Between, LifecycleInductive
<1>10. stock' = Minus(stock, Minus(q.items, Accounts[i].items))
  <2>1. stock \in Quantities
    BY DEF Between, LifecycleInductive, TypeOK
  <2>2. \A p \in Product : stock[p] + (x.items[p] + (0 - q.items[p]))
                           = stock[p] - (q.items[p] - x.items[p])
    BY <1>4, <2>1 DEF Quantities
  <2>3. Plus(stock, Plus(x.items, Minus(Nothing, q.items))) =
           [p \in Product |-> stock[p] + (x.items[p] + (0 - q.items[p]))]
    BY DEF Plus, Minus, Nothing
  <2>4. Minus(stock, Minus(q.items, x.items)) =
           [p \in Product |-> stock[p] - (q.items[p] - x.items[p])]
    BY DEF Minus
  <2>5. QED
    BY <1>1, <1>9, <2>2, <2>3, <2>4
<1>11. QED
  BY <1>3, <1>8, <1>9, <1>10, BooksCorrect

LEMMA ResolveInvalidBooks ==
    ASSUME Between, NEW r \in Request, ResolveInvalid(r)
    PROVE  [Books!Next]_(Books!vars)
<1> SUFFICES ASSUME NEW q, q = inflight[r], NEW c, c = q.case, NEW i, i = cases[c].row
             PROVE  [Books!Next]_(Books!vars)
  OBVIOUS
<1> DEFINE x == transactions[i]
           t == [x EXCEPT !.payment = "FAILED",
                          !.status = IF q.seen # "VOIDED" THEN "VOIDED" ELSE x.status]
<1>1. /\ q # None /\ q.call = "invalid"
      /\ transactions' = [transactions EXCEPT ![i] = t]
      /\ UNCHANGED <<corrections, stock>>
  BY DEF ResolveInvalid, Serving
<1>2. r \notin stale
  BY WriterFresh DEF ResolveInvalid
<1>3. c \in DOMAIN cases /\ x.status = q.seen
  BY <1>2, <1>1, Served DEF Points, Sees, OfCase, Between
<1>4. i \in DOMAIN transactions
  BY <1>3 DEF Between, LifecycleInductive, Known
<1>5. x \in Row /\ x.status \in Status /\ x.sync \in {"SYNCED", "SYNC_CONFLICT"}
  BY <1>4, Tables, RowFields DEF Between, LifecycleInductive
<1>6. /\ t \in Row /\ t.items = x.items /\ t.status = "VOIDED" /\ t.sync = x.sync
      /\ t.moved = x.moved
  BY <1>3, <1>5 DEF Row, Status, Payment
<1>7. Settled(i)
  BY <1>4 DEF Between, LifecycleInductive, SettledRows
<1> HIDE DEF t
<1>8. CASE Standing(t) = Standing(x)
  <2>1. Accounts' = Accounts
    BY <1>1, <1>4, <1>6, <1>8, RowsBooks
  <2>2. QED
    BY <1>1, <2>1, BooksStutter
<1>9. CASE Standing(t) # Standing(x)
  <2>1. x.sync = "SYNCED" /\ x.status = "CONFIRMED"
    BY <1>5, <1>6, <1>7, <1>9 DEF Standing, Settled, Sound, Status
  <2>2. x.moved = Minus(Nothing, x.items)
    BY <1>7, <2>1 DEF Settled, Sound, Deducted
  <2>3. x.moved = Nothing <=> x.items = Nothing
    <3>1. x.items \in Quantities
      BY <1>5, RowFields
    <3>2. Minus(Nothing, Nothing) = Nothing
      BY DEF Minus, Nothing
    <3>3. QED
      BY <2>2, <3>1, <3>2, Quantified
  <2>4. /\ Standing(t) = IF x.items = Nothing THEN "voided" ELSE "written off"
        /\ Standing(x) = "sold"
    BY <1>6, <2>1, <2>3 DEF Standing
  <2>5. /\ DOMAIN Accounts = DOMAIN transactions
        /\ Accounts[i].items = x.items /\ Accounts[i].state = Standing(x)
        /\ Accounts' = [Accounts EXCEPT ![i].state = Standing(t)]
    BY <1>1, <1>4, <1>6, RowsBooks
  <2>6. Accounts' = [Accounts EXCEPT ![i].state =
                       IF Accounts[i].items = Nothing THEN "voided" ELSE "written off"]
    BY <2>4, <2>5
  <2>7. Books!Next
    BY <1>1, <1>4, <2>4, <2>5, <2>6, BooksSettled
  <2>8. QED
    BY <2>7
<1>10. QED
  BY <1>8, <1>9

LEMMA AdjustBooks ==
    ASSUME Between, NEW r \in Request, AdjustStock(r)
    PROVE  [Books!Next]_(Books!vars)
<1> SUFFICES ASSUME NEW q, q = inflight[r] PROVE Books!Next
  OBVIOUS
<1>1. /\ q # None /\ q.call = "adjust"
      /\ stock' = [stock EXCEPT ![q.product] = @ + q.quantity]
      /\ UNCHANGED <<transactions, corrections>>
  BY DEF AdjustStock, Serving
<1>2. q.product \in Product /\ q.quantity \in Change
  BY <1>1, Served, CallFields DEF Points, Between
<1>3. QED
  BY <1>1, <1>2, AccountsSame, BooksAdjust

LEMMA SynchronizeBooks ==
    ASSUME Between, NEW items \in Basket, Synchronize(items)
    PROVE  [Books!Next]_(Books!vars)
<1>1. PICK conflict \in BOOLEAN :
         /\ conflict \/ \A p \in Product : items[p] <= stock[p]
         /\ transactions' = Append(transactions,
              [status |-> IF conflict THEN "PENDING" ELSE "CONFIRMED",
               sync |-> IF conflict THEN "SYNC_CONFLICT" ELSE "SYNCED",
               items |-> items,
               moved |-> IF conflict THEN Nothing ELSE Minus(Nothing, items),
               payment |-> "VERIFIED"])
         /\ stock' = IF conflict THEN stock ELSE Minus(stock, items)
  BY DEF Synchronize, Record
<1> DEFINE t == [status |-> IF conflict THEN "PENDING" ELSE "CONFIRMED",
                 sync |-> IF conflict THEN "SYNC_CONFLICT" ELSE "SYNCED",
                 items |-> items,
                 moved |-> IF conflict THEN Nothing ELSE Minus(Nothing, items),
                 payment |-> "VERIFIED"]
<1>2. transactions' = Append(transactions, t) /\ corrections' = corrections
  BY <1>1 DEF Synchronize
<1>3. Nothing \in Quantities /\ Minus(Nothing, items) \in Quantities /\ items \in [Product -> Nat]
  BY ApiAssumption, Quantified
<1>4. /\ t \in Row /\ t.items = items
      /\ t.status = IF conflict THEN "PENDING" ELSE "CONFIRMED"
      /\ t.sync = IF conflict THEN "SYNC_CONFLICT" ELSE "SYNCED"
  BY <1>3 DEF Row, Status, Payment
<1> HIDE DEF t
<1>5. Standing(t) = IF conflict THEN "disputed" ELSE "sold"
  BY <1>4 DEF Standing
<1>6. Accounts' = Append(Accounts, [items |-> t.items, state |-> Standing(t),
                                    replaces |-> 0])
  BY <1>2, <1>4, AccountAdded DEF Between, LifecycleInductive
<1>7. CASE conflict
  BY <1>1, <1>4, <1>5, <1>6, <1>7, BooksDispute
<1>8. CASE ~conflict
  BY <1>1, <1>4, <1>5, <1>6, <1>8, BooksSell
<1>9. QED
  BY <1>7, <1>8

LEMMA NextBooks == Between /\ [Next]_vars => [Books!Next]_(Books!vars)
<1> SUFFICES ASSUME Between, [Next]_vars PROVE [Books!Next]_(Books!vars)
  OBVIOUS
<1>1. ASSUME UNCHANGED <<transactions, corrections, stock>>
      PROVE  UNCHANGED Books!vars
  BY <1>1, AccountsSame, BooksStutter
<1>2. ASSUME NEW r \in Request, Write(r) PROVE [Books!Next]_(Books!vars)
  <2>1. CASE OpenCase(r) \/ ResolveValid(r)
    BY <1>1, <2>1 DEF OpenCase, ResolveValid
  <2>2. QED
    BY <1>2, <2>1, VoidBooks, ForceBooks, CancelBooks, CorrectBooks, ResolveInvalidBooks,
       AdjustBooks DEF Write
<1>3. ASSUME NEW r \in Request, Begin(r) \/ Abandon(r)
      PROVE  UNCHANGED <<transactions, corrections, stock>>
  BY <1>3 DEF Abandon, Begin, BeginVoid, BeginResolveConflict, BeginCorrection, BeginCreate,
     BeginReconcile, BeginResolveCase, BeginAdjustStock, Accept, tables
<1>4. ASSUME UNCHANGED vars PROVE UNCHANGED <<transactions, corrections, stock>>
  BY <1>4 DEF vars, tables
<1>5. QED
  BY <1>1, <1>2, <1>3, <1>4, SynchronizeBooks DEF Next

(* While no call has written a sale on a stale read, the calls keep the     *)
(* owner's books, whatever overlaps: what the rows and cases say of a sale  *)
(* changes as SaleAccounts has it, with the stock and in the same step.     *)
THEOREM LifecycleBooks == Spec => ImplementsSaleAccounts
<1>1. Init => Books!Init
  <2>1. Init => Accounts = <<>>
    BY DEF Init, Accounts
  <2>2. QED
    BY <2>1 DEF Init, Books!Init, Accounts
<1>2. LifecycleInductive /\ LifecycleInductive' /\ [Next]_vars =>
         (raced' = {} => [Books!Next]_(Books!vars))
  BY NextBooks, RacedStays DEF Between
<1>3. Spec => []LifecycleInductive
  BY LifecycleInvariant
<1>4. QED
  BY <1>1, <1>2, <1>3, PTL DEF Spec, ImplementsSaleAccounts

-----------------------------------------------------------------------------
(* The stock is its history.                                                *)

MovementsList ==
    \A p \in Product :
        /\ Movements(p) \in Seq(Int)
        /\ Len(Movements(p)) = Len(transactions)
        /\ DOMAIN transactions = 1 .. Len(transactions)
        /\ \A i \in DOMAIN transactions : /\ Movements(p)[i] = transactions[i].moved[p]
                                          /\ transactions[i].moved[p] \in Int

LEMMA MovementsListed == TypeOK => MovementsList
<1> SUFFICES ASSUME TypeOK, NEW p \in Product
             PROVE  /\ Movements(p) \in Seq(Int)
                    /\ Len(Movements(p)) = Len(transactions)
                    /\ DOMAIN transactions = 1 .. Len(transactions)
                    /\ \A i \in DOMAIN transactions : /\ Movements(p)[i] = transactions[i].moved[p]
                                                      /\ transactions[i].moved[p] \in Int
  BY DEF MovementsList
<1>1. /\ Len(transactions) \in Nat /\ DOMAIN transactions = 1 .. Len(transactions)
      /\ \A i \in DOMAIN transactions : transactions[i].moved[p] \in Int
  <2>1. \A i \in DOMAIN transactions : transactions[i].moved \in Quantities
    BY Tables, RowFields
  <2>2. QED
    BY <2>1, Tables DEF Quantities
<1>2. Movements(p) = [i \in 1 .. Len(transactions) |-> transactions[i].moved[p]]
  BY <1>1 DEF Movements
<1>3. Movements(p) \in Seq(Int) /\ Len(Movements(p)) = Len(transactions)
  BY <1>1, <1>2
<1>4. QED
  BY <1>1, <1>2, <1>3

LEMMA MovementsListedNext == TypeOK' => MovementsList'
BY MovementsListed, PTL

(* The rows but i have moved what they had moved.                           *)
LEMMA MovementsChanged ==
    ASSUME TypeOK, TypeOK', NEW p \in Product, NEW i \in DOMAIN transactions,
           NEW n, n = Len(transactions),
           DOMAIN transactions \subseteq DOMAIN transactions',
           \A j \in DOMAIN transactions \ {i} : transactions'[j].moved = transactions[j].moved
    PROVE  SumTo(Movements(p)', n) =
              Total(Movements(p)) - transactions[i].moved[p] + transactions'[i].moved[p]
<1> DEFINE f == Movements(p)
           g == Movements(p)'
<1>1. /\ n \in Nat /\ Len(f) = n /\ DOMAIN transactions = 1 .. n
      /\ \A j \in 1 .. n : f[j] = transactions[j].moved[p] /\ f[j] \in Int
  BY Tables, MovementsListed DEF MovementsList
<1>2. \A j \in 1 .. n : g[j] = transactions'[j].moved[p] /\ g[j] \in Int
  BY <1>1, MovementsListedNext DEF MovementsList
<1>3. \A j \in 1 .. n : j # i => g[j] = f[j]
  BY <1>1, <1>2
<1> HIDE DEF f, g
<1>4. SumTo(g, n) = SumTo(f, n) - f[i] + g[i]
  <2>1. n \in Nat /\ i \in 1 .. n
    BY <1>1
  <2>2. \A j \in 1 .. n : f[j] \in Int /\ g[j] \in Int
    BY <1>1, <1>2
  <2>3. QED
    BY <1>3, <2>1, <2>2, SumToChanged
<1>5. QED
  BY <1>1, <1>2, <1>4 DEF Total, f, g

(* A call that rewrites sale i: what the sale has moved and the stock       *)
(* change by the same quantity.                                             *)
LEMMA HistoryRewritten ==
    ASSUME TypeOK, TypeOK', StockIsHistory, NEW i \in DOMAIN transactions,
           Len(transactions') = Len(transactions),
           \A j \in DOMAIN transactions \ {i} : transactions'[j].moved = transactions[j].moved,
           \A p \in Product : stock'[p] = stock[p] - transactions[i].moved[p]
                                                   + transactions'[i].moved[p],
           adjusted' = adjusted
    PROVE  StockIsHistory'
<1> SUFFICES ASSUME NEW p \in Product
             PROVE  stock'[p] = InitialStock[p] + adjusted'[p] + Total(Movements(p)')
  BY DEF StockIsHistory
<1>1. /\ SumTo(Movements(p)', Len(transactions)) =
            Total(Movements(p)) - transactions[i].moved[p] + transactions'[i].moved[p]
      /\ DOMAIN transactions' = DOMAIN transactions
  <2>1. DOMAIN transactions' = 1 .. Len(transactions')
    BY DEF TypeOK
  <2>2. DOMAIN transactions = 1 .. Len(transactions)
    BY DEF TypeOK
  <2>3. QED
    BY <2>1, <2>2, MovementsChanged
<1>2. /\ Len(Movements(p)') = Len(transactions)
      /\ transactions'[i].moved[p] \in Int /\ transactions[i].moved[p] \in Int
      /\ Total(Movements(p)) \in Int
  BY <1>1, MovementsListed, MovementsListedNext, TotalInt DEF MovementsList
<1>3. stock[p] = InitialStock[p] + adjusted[p] + Total(Movements(p))
  BY DEF StockIsHistory
<1>4. InitialStock[p] \in Int /\ adjusted[p] \in Int
  BY ApiAssumption DEF TypeOK, Quantities
<1>5. Total(Movements(p)') = SumTo(Movements(p)', Len(transactions))
  BY <1>2 DEF Total
<1>6. stock'[p] = stock[p] - transactions[i].moved[p] + transactions'[i].moved[p]
  OBVIOUS
<1>7. QED
  BY <1>1, <1>2, <1>3, <1>4, <1>5, <1>6

(* The same with a row added, by a correction of i.                         *)
LEMMA HistoryReplaced ==
    ASSUME TypeOK, TypeOK', StockIsHistory, NEW i \in DOMAIN transactions,
           NEW n, n = Len(transactions) + 1,
           Len(transactions') = n,
           \A j \in DOMAIN transactions \ {i} : transactions'[j].moved = transactions[j].moved,
           \A p \in Product : stock'[p] = stock[p] - transactions[i].moved[p]
                                 + transactions'[i].moved[p] + transactions'[n].moved[p],
           adjusted' = adjusted
    PROVE  StockIsHistory'
<1> SUFFICES ASSUME NEW p \in Product
             PROVE  stock'[p] = InitialStock[p] + adjusted'[p] + Total(Movements(p)')
  BY DEF StockIsHistory
<1>1. SUFFICES ASSUME NEW m, m = Len(transactions) 
               PROVE  stock'[p] = InitialStock[p] + adjusted'[p] + Total(Movements(p)')
  OBVIOUS
<1>a. m \in Nat /\ n = m + 1 /\ Len(transactions') = m + 1
  BY <1>1, Tables
<1>2. /\ SumTo(Movements(p)', m) =
            Total(Movements(p)) - transactions[i].moved[p] + transactions'[i].moved[p]
      /\ i \in DOMAIN transactions' /\ n \in DOMAIN transactions'
  <2>1. DOMAIN transactions' = 1 .. Len(transactions')
    BY DEF TypeOK
  <2>2. DOMAIN transactions = 1 .. m
    BY <1>1, Tables
  <2>3. DOMAIN transactions \subseteq DOMAIN transactions'
    BY <1>a, <2>1, <2>2
  <2>4. n \in DOMAIN transactions'
    BY <1>a, <2>1
  <2>5. SumTo(Movements(p)', m) =
            Total(Movements(p)) - transactions[i].moved[p] + transactions'[i].moved[p]
    BY <1>1, <2>3, MovementsChanged
  <2>6. QED
    BY <2>3, <2>4, <2>5
<1>3. /\ Len(Movements(p)') = m + 1
      /\ transactions'[i].moved[p] \in Int /\ transactions[i].moved[p] \in Int
      /\ transactions'[n].moved[p] \in Int /\ transactions'[n].moved[p] = Movements(p)'[n]
      /\ Total(Movements(p)) \in Int
  BY <1>2, <1>a, MovementsListed, MovementsListedNext, TotalInt DEF MovementsList
<1>4. stock[p] = InitialStock[p] + adjusted[p] + Total(Movements(p))
  BY DEF StockIsHistory
<1>5. InitialStock[p] \in Int /\ adjusted[p] \in Int
  BY ApiAssumption DEF TypeOK, Quantities
<1>6. Total(Movements(p)') = SumTo(Movements(p)', m) + Movements(p)'[n]
  <2>1. SumTo(Movements(p)', m + 1) = SumTo(Movements(p)', m) + Movements(p)'[m + 1]
    BY <1>a, SumToStep
  <2>2. Total(Movements(p)') = SumTo(Movements(p)', m + 1)
    BY <1>3 DEF Total
  <2>3. Movements(p)'[n] = Movements(p)'[m + 1]
    BY <1>a
  <2>4. QED
    BY <2>1, <2>2, <2>3
<1>7. stock'[p] = stock[p] - transactions[i].moved[p]
                     + transactions'[i].moved[p] + transactions'[n].moved[p]
  OBVIOUS
<1>8. Total(Movements(p)') = Total(Movements(p)) - transactions[i].moved[p]
                                + transactions'[i].moved[p] + transactions'[n].moved[p]
  BY <1>2, <1>3, <1>6
<1>9. adjusted'[p] = adjusted[p]
  OBVIOUS
<1>10. ASSUME NEW a, a = transactions[i].moved[p], NEW b, b = transactions'[i].moved[p],
             NEW c, c = transactions'[n].moved[p], NEW f, f = Total(Movements(p)),
             NEW g, g = Total(Movements(p)')
      PROVE  stock'[p] = InitialStock[p] + adjusted'[p] + g
  <2>1. a \in Int /\ b \in Int /\ c \in Int /\ f \in Int
    BY <1>3, <1>10
  <2>2. g = f - a + b + c
    BY <1>8, <1>10
  <2>3. stock[p] = InitialStock[p] + adjusted[p] + f
    BY <1>4, <1>10
  <2>4. stock'[p] = stock[p] - a + b + c
    BY <1>7, <1>10
  <2>5. QED
    BY <1>5, <1>9, <2>1, <2>2, <2>3, <2>4
<1>11. QED
  BY <1>10

(* A sale is recorded.                                                      *)
LEMMA HistoryAdded ==
    ASSUME TypeOK, TypeOK', StockIsHistory, NEW m, m = Len(transactions),
           Len(transactions') = m + 1,
           \A j \in DOMAIN transactions : transactions'[j].moved = transactions[j].moved,
           \A p \in Product : stock'[p] = stock[p] + transactions'[m + 1].moved[p],
           adjusted' = adjusted
    PROVE  StockIsHistory'
<1> SUFFICES ASSUME NEW p \in Product
             PROVE  stock'[p] = InitialStock[p] + adjusted'[p] + Total(Movements(p)')
  BY DEF StockIsHistory
<1>1. m \in Nat /\ DOMAIN transactions = 1 .. m
  BY Tables
<1>2. DOMAIN transactions' = 1 .. m + 1
  BY DEF TypeOK
<1>3. /\ Len(Movements(p)') = m + 1
      /\ transactions'[m + 1].moved[p] = Movements(p)'[m + 1]
      /\ transactions'[m + 1].moved[p] \in Int
      /\ \A j \in 1 .. m : Movements(p)'[j] = transactions'[j].moved[p]
  <2>1. /\ Len(Movements(p)') = Len(transactions')
        /\ \A j \in 1 .. m + 1 : /\ Movements(p)'[j] = transactions'[j].moved[p]
                                 /\ transactions'[j].moved[p] \in Int
    BY <1>2, MovementsListedNext DEF MovementsList
  <2>2. QED
    BY <1>1, <2>1
<1>4. /\ Len(Movements(p)) = m /\ Total(Movements(p)) \in Int
      /\ \A j \in 1 .. m : Movements(p)[j] = transactions[j].moved[p]
  BY <1>1, MovementsListed, TotalInt DEF MovementsList
<1>5. \A j \in 1 .. m : Movements(p)'[j] = Movements(p)[j]
  BY <1>1, <1>3, <1>4
<1>6. SumTo(Movements(p)', m) = SumTo(Movements(p), m)
  BY <1>1, <1>5, SumToSame
<1>7. Total(Movements(p)') = Total(Movements(p)) + transactions'[m + 1].moved[p]
  <2>1. SumTo(Movements(p)', m + 1) = SumTo(Movements(p)', m) + Movements(p)'[m + 1]
    BY <1>1, SumToStep
  <2>2. QED
    BY <1>3, <1>4, <1>6, <2>1 DEF Total
<1>8. stock[p] = InitialStock[p] + adjusted[p] + Total(Movements(p))
  BY DEF StockIsHistory
<1>9. InitialStock[p] \in Int /\ adjusted[p] \in Int
  BY ApiAssumption DEF TypeOK, Quantities
<1>10. stock'[p] = stock[p] + transactions'[m + 1].moved[p]
  OBVIOUS
<1>11. QED
  BY <1>3, <1>4, <1>7, <1>8, <1>9, <1>10

LEMMA HistoryKept ==
    ASSUME StockIsHistory, UNCHANGED <<transactions, stock, adjusted>>
    PROVE  StockIsHistory'
BY DEF StockIsHistory, Movements

(* A call that answers with t for the row of sale i.                        *)
LEMMA HistoryOfRow ==
    ASSUME TypeOK, TypeOK', StockIsHistory, NEW i \in DOMAIN transactions,
           NEW t \in Row, transactions' = [transactions EXCEPT ![i] = t],
           \A p \in Product : stock'[p] = stock[p] - transactions[i].moved[p] + t.moved[p],
           adjusted' = adjusted
    PROVE  StockIsHistory'
<1>1. transactions \in Seq(Row)
  BY DEF TypeOK
<1>2. /\ Len(transactions') = Len(transactions)
      /\ transactions'[i] = t
      /\ \A j \in DOMAIN transactions \ {i} : transactions'[j].moved = transactions[j].moved
  BY <1>1, OneReplaced
<1>3. \A p \in Product : stock'[p] = stock[p] - transactions[i].moved[p]
                                               + transactions'[i].moved[p]
  BY <1>2
<1>4. QED
  BY <1>2, <1>3, HistoryRewritten

(* A call that leaves the stock and what the sale has moved as they are.    *)
LEMMA HistoryOfStatus ==
    ASSUME TypeOK, TypeOK', StockIsHistory, NEW i \in DOMAIN transactions,
           NEW t \in Row, transactions' = [transactions EXCEPT ![i] = t],
           t.moved = transactions[i].moved,
           UNCHANGED <<stock, adjusted>>
    PROVE  StockIsHistory'
<1>1. \A p \in Product : stock'[p] = stock[p] - transactions[i].moved[p] + t.moved[p]
  <2>1. stock \in Quantities /\ transactions[i].moved \in Quantities
    BY Tables, RowFields DEF TypeOK
  <2>2. \A p \in Product : stock[p] \in Int /\ transactions[i].moved[p] \in Int
    BY <2>1 DEF Quantities
  <2>3. QED
    BY <2>2
<1>2. QED
  BY <1>1, HistoryOfRow

LEMMA VoidHistory ==
    ASSUME LifecycleInductive, TypeOK', StockIsHistory, NEW r \in Request, VoidTransaction(r)
    PROVE  StockIsHistory'
<1> SUFFICES ASSUME NEW i, i = inflight[r].row PROVE StockIsHistory'
  OBVIOUS
<1> DEFINE t == [transactions[i] EXCEPT !.status = "VOIDED"]
<1>1. /\ inflight[r] # None /\ inflight[r].call = "void"
      /\ transactions' = [transactions EXCEPT ![i] = t]
      /\ UNCHANGED <<stock, adjusted>>
  BY DEF VoidTransaction, Serving
<1>2. i \in DOMAIN transactions /\ transactions[i] \in Row
  BY <1>1, Served, Tables DEF Points, OfRow, LifecycleInductive
<1>3. t \in Row /\ t.moved = transactions[i].moved
  BY <1>2 DEF Row, Status
<1> HIDE DEF t
<1>4. QED
  BY <1>1, <1>2, <1>3, HistoryOfStatus DEF LifecycleInductive

LEMMA CancelHistory ==
    ASSUME LifecycleInductive, TypeOK', StockIsHistory, NEW r \in Request, CancelConflict(r)
    PROVE  StockIsHistory'
<1> SUFFICES ASSUME NEW i, i = inflight[r].row PROVE StockIsHistory'
  OBVIOUS
<1> DEFINE t == [transactions[i] EXCEPT !.status = "VOIDED", !.sync = "SYNCED"]
<1>1. /\ inflight[r] # None /\ inflight[r].call = "cancel"
      /\ transactions' = [transactions EXCEPT ![i] = t]
      /\ UNCHANGED <<stock, adjusted>>
  BY DEF CancelConflict, Serving
<1>2. i \in DOMAIN transactions /\ transactions[i] \in Row
  BY <1>1, Served, Tables DEF Points, OfRow, LifecycleInductive
<1>3. t \in Row /\ t.moved = transactions[i].moved
  BY <1>2 DEF Row, Status
<1> HIDE DEF t
<1>4. QED
  BY <1>1, <1>2, <1>3, HistoryOfStatus DEF LifecycleInductive

LEMMA ForceHistory ==
    ASSUME LifecycleInductive, TypeOK', StockIsHistory, NEW r \in Request, ForceConfirm(r)
    PROVE  StockIsHistory'
<1> SUFFICES ASSUME NEW i, i = inflight[r].row, NEW x, x = transactions[i]
             PROVE  StockIsHistory'
  OBVIOUS
<1> DEFINE t == [x EXCEPT !.status = "CONFIRMED", !.sync = "SYNCED",
                          !.moved = Minus(x.moved, x.items)]
<1>1. /\ inflight[r] # None /\ inflight[r].call = "force"
      /\ transactions' = [transactions EXCEPT ![i] = t]
      /\ stock' = Minus(stock, x.items) /\ adjusted' = adjusted
  BY DEF ForceConfirm, Serving
<1>2. i \in DOMAIN transactions /\ x \in Row
  BY <1>1, Served, Tables DEF Points, OfRow, LifecycleInductive
<1>3. /\ x.items \in Quantities /\ x.moved \in Quantities
      /\ Minus(x.moved, x.items) \in Quantities
      /\ stock \in Quantities
  BY <1>2, RowFields, Quantified DEF LifecycleInductive, TypeOK
<1>4. t \in Row /\ t.moved = Minus(x.moved, x.items)
  BY <1>2, <1>3 DEF Row, Status
<1> HIDE DEF t
<1>5. \A p \in Product : stock'[p] = stock[p] - transactions[i].moved[p] + t.moved[p]
  <2>1. \A p \in Product : stock[p] \in Int /\ x.items[p] \in Int /\ x.moved[p] \in Int
    BY <1>3 DEF Quantities
  <2>2. \A p \in Product : /\ stock'[p] = stock[p] - x.items[p]
                           /\ t.moved[p] = x.moved[p] - x.items[p]
    BY <1>1, <1>4 DEF Minus
  <2>3. QED
    BY <2>1, <2>2
<1>6. QED
  BY <1>1, <1>2, <1>4, <1>5, HistoryOfRow DEF LifecycleInductive

LEMMA CorrectHistory ==
    ASSUME LifecycleInductive, TypeOK', StockIsHistory, NEW r \in Request,
           CorrectTransaction(r)
    PROVE  StockIsHistory'
<1> SUFFICES ASSUME NEW q, q = inflight[r], NEW i, i = q.row,
                    NEW n, n = Len(transactions) + 1, NEW x, x = transactions[i]
             PROVE  StockIsHistory'
  OBVIOUS
<1> DEFINE t == [x EXCEPT !.status = "VOIDED", !.moved = Plus(x.moved, x.items)]
           d == Minus(Nothing, q.items)
           u == [status |-> "CONFIRMED", sync |-> "SYNCED", items |-> q.items,
                 moved |-> d, payment |-> q.payment]
<1>1. /\ q # None /\ q.call = "correct"
      /\ transactions' = Append([transactions EXCEPT ![i] = t], u)
      /\ stock' = Plus(stock, Plus(x.items, d)) /\ adjusted' = adjusted
  BY DEF CorrectTransaction, Replace, Serving
<1>2. /\ i \in DOMAIN transactions /\ x \in Row
      /\ q.items \in [Product -> Nat] /\ q.payment \in Payment
  BY <1>1, Served, CallFields, Tables DEF Points, OfRow, LifecycleInductive
<1>3. /\ x.items \in Quantities /\ x.moved \in Quantities
      /\ d \in Quantities /\ Plus(x.moved, x.items) \in Quantities
      /\ stock \in Quantities
  <2>1. d \in Quantities
    BY <1>2, Quantified
  <2>2. QED
    BY <1>2, <2>1, RowFields, Quantified DEF LifecycleInductive, TypeOK
<1>4. t \in Row /\ t.moved = Plus(x.moved, x.items)
  BY <1>2, <1>3 DEF Row, Status
<1> HIDE DEF d
<1>5. u \in Row /\ u.moved = d
  BY <1>2, <1>3 DEF Row, Status
<1> HIDE DEF t, u
<1>6. /\ transactions' \in Seq(Row)
      /\ transactions'[n] = u /\ transactions'[i] = t
      /\ \A j \in DOMAIN transactions \ {i} : transactions'[j].moved = transactions[j].moved
  <2>1. transactions \in Seq(Row)
    BY DEF LifecycleInductive, TypeOK
  <2>2. QED
    BY <1>1, <1>2, <1>4, <1>5, <2>1, OneReplacedOneAdded
<1>7. Len(transactions') = n
  <2>1. transactions \in Seq(Row)
    BY DEF LifecycleInductive, TypeOK
  <2>2. [transactions EXCEPT ![i] = t] \in Seq(Row) /\ Len([transactions EXCEPT ![i] = t]) = Len(transactions)
    BY <1>2, <1>4, <2>1, OneReplaced
  <2>3. QED
    BY <1>1, <1>5, <2>2, AppendProperties
<1>8. \A p \in Product : stock'[p] = stock[p] - transactions[i].moved[p]
                                 + transactions'[i].moved[p] + transactions'[n].moved[p]
  <2>1. \A p \in Product : /\ stock[p] \in Int /\ x.items[p] \in Int /\ x.moved[p] \in Int
                           /\ d[p] \in Int
    BY <1>3 DEF Quantities
  <2>2. \A p \in Product : /\ stock'[p] = stock[p] + (x.items[p] + d[p])
                           /\ t.moved[p] = x.moved[p] + x.items[p]
                           /\ u.moved[p] = d[p]
    BY <1>1, <1>4, <1>5 DEF Plus
  <2>3. transactions[i].moved = x.moved /\ transactions'[i].moved = t.moved
        /\ transactions'[n].moved = u.moved
    BY <1>6
  <2>4. QED
    BY <2>1, <2>2, <2>3
<1>9. QED
  BY <1>1, <1>2, <1>6, <1>7, <1>8, HistoryReplaced DEF LifecycleInductive

LEMMA ResolveInvalidHistory ==
    ASSUME LifecycleInductive, TypeOK', StockIsHistory, NEW r \in Request, ResolveInvalid(r)
    PROVE  StockIsHistory'
<1> SUFFICES ASSUME NEW q, q = inflight[r], NEW i, i = cases[q.case].row
             PROVE  StockIsHistory'
  OBVIOUS
<1> DEFINE x == transactions[i]
           t == [x EXCEPT !.payment = "FAILED",
                          !.status = IF q.seen # "VOIDED" THEN "VOIDED" ELSE x.status]
<1>1. /\ q # None /\ q.call = "invalid"
      /\ transactions' = [transactions EXCEPT ![i] = t]
      /\ UNCHANGED <<stock, adjusted>>
  BY DEF ResolveInvalid, Serving
<1>2. i \in DOMAIN transactions /\ x \in Row
  BY <1>1, Served, Tables DEF Points, OfCase, LifecycleInductive, Known
<1>3. t \in Row /\ t.moved = transactions[i].moved
  BY <1>2 DEF Row, Status, Payment
<1> HIDE DEF t
<1>4. QED
  BY <1>1, <1>2, <1>3, HistoryOfStatus DEF LifecycleInductive

LEMMA AdjustHistory ==
    ASSUME LifecycleInductive, StockIsHistory, NEW r \in Request, AdjustStock(r)
    PROVE  StockIsHistory'
<1> SUFFICES ASSUME NEW q, q = inflight[r], NEW p \in Product
             PROVE  stock'[p] = InitialStock[p] + adjusted'[p] + Total(Movements(p)')
  BY DEF StockIsHistory
<1>1. q.product \in Product /\ q.quantity \in Int
  BY Served, CallFields DEF AdjustStock, Serving
<1>2. stock \in [Product -> Int] /\ adjusted \in [Product -> Int]
  BY DEF LifecycleInductive, TypeOK, Quantities
<1>3. /\ stock' = [stock EXCEPT ![q.product] = @ + q.quantity]
      /\ adjusted' = [adjusted EXCEPT ![q.product] = @ + q.quantity]
      /\ transactions' = transactions
  BY DEF AdjustStock
<1>4. Movements(p)' = Movements(p) /\ Total(Movements(p)) \in Int
  BY <1>3, MovementsListed, TotalInt DEF Movements, MovementsList, LifecycleInductive
<1>5. stock[p] = InitialStock[p] + adjusted[p] + Total(Movements(p))
  BY DEF StockIsHistory
<1>6. InitialStock[p] \in Int /\ stock[p] \in Int /\ adjusted[p] \in Int
  BY <1>2, ApiAssumption
<1>7. CASE p = q.product
  <2>1. stock'[p] = stock[p] + q.quantity /\ adjusted'[p] = adjusted[p] + q.quantity
    BY <1>2, <1>3, <1>7
  <2>2. QED
    BY <1>1, <1>4, <1>5, <1>6, <2>1
<1>8. CASE p # q.product
  <2>1. stock'[p] = stock[p] /\ adjusted'[p] = adjusted[p]
    BY <1>2, <1>3, <1>8
  <2>2. QED
    BY <1>4, <1>5, <2>1
<1>9. QED
  BY <1>7, <1>8

LEMMA SynchronizeHistory ==
    ASSUME LifecycleInductive, TypeOK', StockIsHistory, NEW items \in Basket, Synchronize(items)
    PROVE  StockIsHistory'
<1>1. PICK conflict \in BOOLEAN :
         /\ transactions' = Append(transactions,
              [status |-> IF conflict THEN "PENDING" ELSE "CONFIRMED",
               sync |-> IF conflict THEN "SYNC_CONFLICT" ELSE "SYNCED",
               items |-> items,
               moved |-> IF conflict THEN Nothing ELSE Minus(Nothing, items),
               payment |-> "VERIFIED"])
         /\ stock' = IF conflict THEN stock ELSE Minus(stock, items)
  BY DEF Synchronize, Record
<1>2. adjusted' = adjusted
  BY DEF Synchronize
<1> SUFFICES ASSUME NEW m, m = Len(transactions),
                    NEW d, d = IF conflict THEN Nothing ELSE Minus(Nothing, items)
             PROVE  StockIsHistory'
  OBVIOUS
<1> DEFINE t == [status |-> IF conflict THEN "PENDING" ELSE "CONFIRMED",
                 sync |-> IF conflict THEN "SYNC_CONFLICT" ELSE "SYNCED",
                 items |-> items, moved |-> d, payment |-> "VERIFIED"]
<1>3. items \in [Product -> Nat] /\ d \in Quantities /\ stock \in Quantities
  BY ApiAssumption, Quantified DEF LifecycleInductive, TypeOK
<1>4. t \in Row /\ t.moved = d
  BY <1>3 DEF Row, Status, Payment
<1>5. transactions' = Append(transactions, t)
  BY <1>1
<1> HIDE DEF t
<1>6. /\ Len(transactions') = m + 1 /\ transactions'[m + 1] = t
      /\ \A j \in DOMAIN transactions : transactions'[j].moved = transactions[j].moved
  <2>1. transactions \in Seq(Row)
    BY DEF LifecycleInductive, TypeOK
  <2>2. QED
    BY <1>4, <1>5, <2>1, OneAdded, AppendProperties
<1>7. \A p \in Product : stock'[p] = stock[p] + transactions'[m + 1].moved[p]
  <2>1. \A p \in Product : stock[p] \in Int /\ items[p] \in Int /\ Nothing[p] = 0
    BY <1>3 DEF Quantities, Nothing
  <2>2. CASE conflict
    BY <1>1, <1>4, <1>6, <2>1, <2>2
  <2>3. CASE ~conflict
    <3>1. \A p \in Product : stock'[p] = stock[p] - items[p] /\ d[p] = 0 - items[p]
      BY <1>1, <2>1, <2>3 DEF Minus
    <3>2. QED
      BY <1>4, <1>6, <2>1, <3>1
  <2>4. QED
    BY <2>2, <2>3
<1>8. QED
  BY <1>2, <1>6, <1>7, HistoryAdded DEF LifecycleInductive

LEMMA InitHistory == Init => StockIsHistory
<1> SUFFICES ASSUME Init, NEW p \in Product
             PROVE  stock[p] = InitialStock[p] + adjusted[p] + Total(Movements(p))
  BY DEF StockIsHistory
<1>1. transactions = << >> /\ stock[p] = InitialStock[p] /\ adjusted[p] = 0
  BY DEF Init, Nothing
<1>2. Movements(p) = << >>
  BY <1>1 DEF Movements
<1>3. Total(Movements(p)) = 0
  BY <1>2, TotalEmpty
<1>4. InitialStock[p] \in Int
  BY ApiAssumption
<1>5. QED
  BY <1>1, <1>3, <1>4

LEMMA NextHistory ==
    LifecycleInductive /\ TypeOK' /\ StockIsHistory /\ [Next]_vars => StockIsHistory'
<1> SUFFICES ASSUME LifecycleInductive, TypeOK', StockIsHistory, [Next]_vars
             PROVE  StockIsHistory'
  OBVIOUS
<1>1. ASSUME NEW r \in Request, OpenCase(r) \/ ResolveValid(r) PROVE StockIsHistory'
  BY <1>1, HistoryKept DEF OpenCase, ResolveValid
<1>2. ASSUME NEW r \in Request, Write(r) PROVE StockIsHistory'
  BY <1>1, <1>2, VoidHistory, ForceHistory, CancelHistory, CorrectHistory,
     ResolveInvalidHistory, AdjustHistory DEF Write
<1>3. ASSUME NEW r \in Request, Abandon(r) PROVE StockIsHistory'
  BY <1>3, HistoryKept DEF Abandon, tables
<1>4. ASSUME NEW r \in Request, Begin(r) PROVE StockIsHistory'
  <2>1. UNCHANGED tables
    BY <1>4 DEF Begin, BeginVoid, BeginResolveConflict, BeginCorrection, BeginCreate,
       BeginReconcile, BeginResolveCase, BeginAdjustStock, Accept
  <2>2. QED
    BY <2>1, HistoryKept DEF tables
<1>5. ASSUME UNCHANGED vars PROVE StockIsHistory'
  BY <1>5, HistoryKept DEF vars, tables
<1>6. QED
  BY <1>2, <1>3, <1>4, <1>5, SynchronizeHistory DEF Next

(* Whatever the calls do to one another, what a product has in stock is what*)
(* it had, the adjustments, and what the StockHistory rows of the sales     *)
(* have moved.                                                              *)
THEOREM LifecycleHistory == Spec => []StockIsHistory
<1>1. LifecycleInductive' => TypeOK'
  BY DEF LifecycleInductive
<1>2. LifecycleInductive /\ LifecycleInductive' /\ StockIsHistory /\ [Next]_vars => StockIsHistory'
  BY <1>1, NextHistory
<1>3. QED
  BY <1>2, InitHistory, LifecycleInvariant, PTL DEF Spec

-----------------------------------------------------------------------------
(* The walks of getTransactionHistory. *)

(* back is the walk that follows p from each of 1 .. n down to where p ends, *)
(* and ahead the one that follows s up and collects what it visits.         *)
Back(back, p, n) ==
    back = [i \in 1 .. n |-> IF p[i] = 0 THEN i ELSE back[p[i]]]
Ahead(ahead, s, m, n) ==
    ahead = [i \in m .. n |-> <<i>> \o IF s[i] = 0 THEN <<>> ELSE ahead[s[i]]]

LEMMA BackExists ==
    ASSUME NEW p, NEW n \in Nat,
           \A i \in 1 .. n : p[i] \in Nat /\ p[i] < i
    PROVE  \E back : Back(back, p, n)
<1> DEFINE Wrong == {k \in Nat : k <= n /\ ~ \E back : Back(back, p, k)}
<1> SUFFICES ASSUME Wrong # {} PROVE FALSE
  OBVIOUS
<1>1. PICK k \in Wrong : \A j \in Wrong : k <= j
  BY LeastNatural
<1>2. k \in Nat /\ k <= n /\ \A back : ~ Back(back, p, k)
  OBVIOUS
<1>3. CASE k = 0
  <2> DEFINE f == [i \in 1 .. 0 |-> 0]
  <2>1. Back(f, p, k)
    BY <1>3 DEF Back
  <2>2. QED
    BY <1>2, <2>1
<1>4. CASE k # 0
  <2>1. k - 1 \in Nat /\ k - 1 <= n /\ k - 1 \notin Wrong
    BY <1>1, <1>2, <1>4
  <2>2. PICK h : Back(h, p, k - 1)
    BY <2>1
  <2> DEFINE f == [i \in 1 .. k |->
                      IF i = k THEN IF p[k] = 0 THEN k ELSE h[p[k]] ELSE h[i]]
  <2>3. \A i \in 1 .. k : f[i] = IF p[i] = 0 THEN i ELSE f[p[i]]
    <3>1. \A i \in 1 .. k - 1 : h[i] = IF p[i] = 0 THEN i ELSE h[p[i]]
      BY <2>2 DEF Back
    <3>2. \A i \in 1 .. k : p[i] = 0 \/ p[i] \in 1 .. k - 1
      BY <1>2
    <3>3. \A i \in 1 .. k - 1 : f[i] = h[i] /\ (p[i] # 0 => f[p[i]] = h[p[i]])
      BY <1>2, <3>2
    <3>4. QED
      BY <1>2, <1>4, <3>1, <3>2, <3>3
  <2>4. f = [i \in 1 .. k |-> f[i]]
    OBVIOUS
  <2> HIDE DEF f
  <2>5. Back(f, p, k)
    BY <2>3, <2>4 DEF Back
  <2>6. QED
    BY <1>2, <2>5
<1>5. QED
  BY <1>3, <1>4

LEMMA AheadExists ==
    ASSUME NEW s, NEW n \in Nat,
           \A i \in 1 .. n : s[i] = 0 \/ s[i] \in i + 1 .. n
    PROVE  \E ahead : Ahead(ahead, s, 1, n)
<1> DEFINE Wrong == {k \in Nat : k <= n /\ ~ \E ahead : Ahead(ahead, s, n + 1 - k, n)}
<1>1. ASSUME Wrong # {} PROVE FALSE
  <2>1. PICK k \in Wrong : \A j \in Wrong : k <= j
    BY <1>1, LeastNatural
  <2>2. k \in Nat /\ k <= n /\ \A ahead : ~ Ahead(ahead, s, n + 1 - k, n)
    OBVIOUS
  <2>3. CASE k = 0
    <3> DEFINE f == [i \in n + 1 .. n |-> <<i>>]
    <3>1. n + 1 - k = n + 1 /\ n + 1 .. n = {}
      BY <2>3
    <3>2. Ahead(f, s, n + 1, n)
      BY <3>1 DEF Ahead
    <3>3. QED
      BY <2>2, <3>1, <3>2
  <2>4. CASE k # 0
    <3>1. /\ k - 1 \in Nat /\ k - 1 <= n /\ k - 1 \notin Wrong
          /\ n + 1 - (k - 1) = n + 1 - k + 1 /\ n + 1 - k \in 1 .. n
      BY <2>1, <2>2, <2>4
    <3> DEFINE m == n + 1 - k
    <3>2. m \in 1 .. n /\ \A ahead : ~ Ahead(ahead, s, m, n)
      BY <2>2, <3>1
    <3>3. PICK h : Ahead(h, s, m + 1, n)
      BY <3>1
    <3> HIDE DEF m
    <3> DEFINE f == [i \in m .. n |->
                        IF i = m THEN <<m>> \o IF s[m] = 0 THEN <<>> ELSE h[s[m]] ELSE h[i]]
    <3>4. \A i \in m .. n : f[i] = <<i>> \o IF s[i] = 0 THEN <<>> ELSE f[s[i]]
      <4>1. \A i \in m + 1 .. n : h[i] = <<i>> \o IF s[i] = 0 THEN <<>> ELSE h[s[i]]
        BY <3>3 DEF Ahead
      <4>2. \A i \in m .. n : s[i] = 0 \/ s[i] \in m + 1 .. n
        BY <3>2
      <4>3. \A i \in m .. n : s[i] # 0 => f[s[i]] = h[s[i]]
        BY <3>2, <4>2
      <4>4. \A i \in m + 1 .. n : f[i] = h[i]
        BY <3>2
      <4>5. f[m] = <<m>> \o IF s[m] = 0 THEN <<>> ELSE h[s[m]]
        BY <3>2
      <4> HIDE DEF f
      <4>6. ASSUME NEW i \in m .. n
            PROVE  f[i] = <<i>> \o IF s[i] = 0 THEN <<>> ELSE f[s[i]]
        <5>1. CASE i = m
          BY <4>3, <4>5, <5>1
        <5>2. CASE i \in m + 1 .. n
          BY <4>1, <4>3, <4>4, <5>2
        <5>3. QED
          BY <3>2, <5>1, <5>2
      <4>7. QED
        BY <4>6
    <3>5. f = [i \in m .. n |-> f[i]]
      OBVIOUS
    <3> HIDE DEF f
    <3>6. Ahead(f, s, m, n)
      BY <3>4, <3>5 DEF Ahead
    <3>7. QED
      BY <3>2, <3>6
  <2>5. QED
    BY <2>3, <2>4
<1>2. n \notin Wrong
  BY <1>1
<1>3. n + 1 - n = 1
  OBVIOUS
<1>4. QED
  BY <1>2, <1>3

(* Corrections lead from older sales to newer ones, and from one that was   *)
(* not raced to one other.                                                  *)
Chains ==
    /\ \A c \in corrections : c.old < c.new
    /\ \A c, d \in corrections : c.old = d.old /\ c.old \notin raced => c = d

LEMMA Neighbours ==
    ASSUME TypeOK, Chains, NEW i \in DOMAIN transactions
    PROVE  /\ Previous(i) # {} =>
                /\ FindFirst(Previous(i)) \in DOMAIN transactions
                /\ FindFirst(Previous(i)) < i
                /\ \E c \in corrections : c.old = FindFirst(Previous(i)) /\ c.new = i
           /\ Successors(i) # {} =>
                /\ FindFirst(Successors(i)) \in DOMAIN transactions
                /\ i < FindFirst(Successors(i))
                /\ \E c \in corrections : c.old = i /\ c.new = FindFirst(Successors(i))
<1>1. Previous(i) # {} => FindFirst(Previous(i)) \in Previous(i)
  BY DEF FindFirst
<1>2. Successors(i) # {} => FindFirst(Successors(i)) \in Successors(i)
  BY DEF FindFirst
<1>3. \A c \in corrections : c.old \in DOMAIN transactions /\ c.new \in DOMAIN transactions
  BY DEF TypeOK
<1>4. \A j \in Previous(i) : \E c \in corrections : c.old = j /\ c.new = i
  BY DEF Previous
<1>5. \A j \in Successors(i) : \E c \in corrections : c.old = i /\ c.new = j
  BY DEF Successors
<1>6. QED
  BY <1>1, <1>2, <1>3, <1>4, <1>5 DEF Chains

LEMMA RootStep ==
    ASSUME TypeOK, Chains, NEW i \in DOMAIN transactions
    PROVE  Root[i] = IF Previous(i) = {} THEN i ELSE Root[FindFirst(Previous(i))]
<1> DEFINE p == [k \in DOMAIN transactions |->
                    IF Previous(k) = {} THEN 0 ELSE FindFirst(Previous(k))]
<1>1. Len(transactions) \in Nat /\ DOMAIN transactions = 1 .. Len(transactions)
  BY Tables
<1>2. ASSUME NEW k \in DOMAIN transactions
      PROVE  /\ p[k] \in Nat /\ p[k] < k
             /\ Previous(k) = {} => p[k] = 0
             /\ Previous(k) # {} => p[k] = FindFirst(Previous(k)) /\ p[k] # 0
  BY <1>1, Neighbours
<1> HIDE DEF p
<1>3. PICK f : Back(f, p, Len(transactions))
  BY <1>1, <1>2, BackExists
<1>4. \A k \in DOMAIN transactions :
         (IF p[k] = 0 THEN k ELSE f[p[k]])
         = (IF Previous(k) = {} THEN k ELSE f[FindFirst(Previous(k))])
  BY <1>2
<1>5. f = [k \in DOMAIN transactions |->
              IF Previous(k) = {} THEN k ELSE f[FindFirst(Previous(k))]]
  BY <1>1, <1>3, <1>4 DEF Back
<1>6. Root = [k \in DOMAIN transactions |->
                 IF Previous(k) = {} THEN k ELSE Root[FindFirst(Previous(k))]]
  BY <1>5 DEF Root
<1>7. QED
  BY <1>6

LEMMA VersionsStep ==
    ASSUME TypeOK, Chains, NEW i \in DOMAIN transactions
    PROVE  Versions[i] = <<i>> \o IF Successors(i) = {} THEN <<>>
                                  ELSE Versions[FindFirst(Successors(i))]
<1> DEFINE s == [k \in DOMAIN transactions |->
                    IF Successors(k) = {} THEN 0 ELSE FindFirst(Successors(k))]
<1>1. Len(transactions) \in Nat /\ DOMAIN transactions = 1 .. Len(transactions)
  BY Tables
<1>2. ASSUME NEW k \in DOMAIN transactions
      PROVE  /\ s[k] = 0 \/ s[k] \in k + 1 .. Len(transactions)
             /\ Successors(k) = {} => s[k] = 0
             /\ Successors(k) # {} => s[k] = FindFirst(Successors(k)) /\ s[k] # 0
  BY <1>1, Neighbours
<1> HIDE DEF s
<1>3. PICK f : Ahead(f, s, 1, Len(transactions))
  BY <1>1, <1>2, AheadExists
<1>4. \A k \in DOMAIN transactions :
         (<<k>> \o IF s[k] = 0 THEN <<>> ELSE f[s[k]])
         = (<<k>> \o IF Successors(k) = {} THEN <<>> ELSE f[FindFirst(Successors(k))])
  BY <1>2
<1>5. f = [k \in DOMAIN transactions |->
              <<k>> \o IF Successors(k) = {} THEN <<>> ELSE f[FindFirst(Successors(k))]]
  BY <1>1, <1>3, <1>4 DEF Ahead
<1>6. Versions = [k \in DOMAIN transactions |->
              <<k>> \o IF Successors(k) = {} THEN <<>> ELSE Versions[FindFirst(Successors(k))]]
  BY <1>5 DEF Versions
<1>7. QED
  BY <1>6

LEMMA RootTyped ==
    ASSUME TypeOK, Chains
    PROVE  \A i \in DOMAIN transactions : Root[i] \in DOMAIN transactions
<1> DEFINE Wrong == {i \in DOMAIN transactions : Root[i] \notin DOMAIN transactions}
<1> SUFFICES ASSUME Wrong # {} PROVE FALSE
  OBVIOUS
<1>1. Wrong \in SUBSET Nat
  BY Tables
<1>2. PICK i \in Wrong : \A j \in Wrong : i <= j
  BY <1>1, LeastNatural
<1>3. i \in DOMAIN transactions /\ Root[i] \notin DOMAIN transactions
  OBVIOUS
<1>4. CASE Previous(i) = {}
  BY <1>3, <1>4, RootStep
<1>5. CASE Previous(i) # {}
  <2> DEFINE j == FindFirst(Previous(i))
  <2>1. j \in DOMAIN transactions /\ j < i /\ Root[i] = Root[j]
    BY <1>3, <1>5, Neighbours, RootStep
  <2>2. j \in Wrong /\ i \in Nat /\ j \in Nat
    BY <1>1, <1>3, <2>1
  <2>3. QED
    BY <1>2, <2>1, <2>2
<1>6. QED
  BY <1>4, <1>5

(* The walk from i visits i, and with each sale one that replaced it.       *)
Visits(i) ==
    /\ Versions[i] \in Seq(DOMAIN transactions)
    /\ i \in Range(Versions[i])
    /\ \A j \in Range(Versions[i]) :
          Successors(j) # {} => FindFirst(Successors(j)) \in Range(Versions[i])

LEMMA VersionsVisit ==
    ASSUME TypeOK, Chains
    PROVE  \A i \in DOMAIN transactions : Visits(i)
<1> DEFINE n == Len(transactions)
           Wrong == {k \in Nat : k < n /\ ~ Visits(n - k)}
<1>1. n \in Nat /\ DOMAIN transactions = 1 .. n
  BY Tables
<1> HIDE DEF n
<1>2. ASSUME Wrong # {} PROVE FALSE
  <2>1. PICK k \in Wrong : \A j \in Wrong : k <= j
    BY <1>2, LeastNatural
  <2>2. k \in Nat /\ k < n
    OBVIOUS
  <2> DEFINE i == n - k
  <2>3. i \in DOMAIN transactions /\ ~ Visits(i)
    BY <1>1, <2>2
  <2>4. ASSUME NEW j \in DOMAIN transactions, i < j PROVE Visits(j)
    <3>1. n - j \in Nat /\ n - j < k /\ n - (n - j) = j
      BY <1>1, <2>2, <2>4
    <3>2. n - j \notin Wrong
      BY <2>1, <2>2, <3>1
    <3>3. QED
      BY <1>1, <2>2, <3>1, <3>2
  <2> HIDE DEF i
  <2>5. <<i>> \in Seq(DOMAIN transactions) /\ Range(<<i>>) = {i}
    <3>1. <<i>> \in Seq(DOMAIN transactions)
      BY <2>3
    <3>2. QED
      BY <3>1 DEF Range
  <2>6. CASE Successors(i) = {}
    <3>1. Versions[i] = <<i>> \o << >>
      BY <2>3, <2>6, VersionsStep
    <3>2. Versions[i] = <<i>>
      BY <2>5, <3>1, ConcatEmptySeq
    <3>3. QED
      BY <2>3, <2>5, <2>6, <3>2 DEF Visits
  <2>7. CASE Successors(i) # {}
    <3> DEFINE j == FindFirst(Successors(i))
    <3>1. j \in DOMAIN transactions /\ i < j /\ Versions[i] = <<i>> \o Versions[j]
      BY <2>3, <2>7, Neighbours, VersionsStep
    <3>2. Visits(j)
      BY <2>4, <3>1
    <3>3. /\ Versions[i] \in Seq(DOMAIN transactions)
          /\ Range(Versions[i]) = {i} \cup Range(Versions[j])
      <4> DEFINE u == <<i>>
                 v == Versions[j]
      <4>1. u \in Seq(DOMAIN transactions) /\ v \in Seq(DOMAIN transactions)
        BY <2>5, <3>2 DEF Visits
      <4> HIDE DEF u, v
      <4>2. u \o v \in Seq(DOMAIN transactions)
        BY <4>1, ConcatProperties
      <4>3. Range(u \o v) = Range(u) \cup Range(v)
        BY <4>1, RangeConcatenation
      <4>4. QED
        BY <2>5, <3>1, <4>2, <4>3 DEF u, v
    <3>4. \A v \in Range(Versions[i]) :
             Successors(v) # {} => FindFirst(Successors(v)) \in Range(Versions[i])
      BY <3>2, <3>3 DEF Visits
    <3>5. QED
      BY <2>3, <3>3, <3>4 DEF Visits
  <2>8. QED
    BY <2>6, <2>7
<1>3. ASSUME NEW i \in DOMAIN transactions PROVE Visits(i)
  <2>1. n - i \in Nat /\ n - i < n /\ n - (n - i) = i
    BY <1>1
  <2>2. n - i \notin Wrong
    BY <1>2
  <2>3. QED
    BY <2>1, <2>2
<1>4. QED
  BY <1>3

LEMMA ChainsComplete ==
    ASSUME TypeOK, Chains
    PROVE  HistoryIsComplete
<1> DEFINE Whole(i) == Range(Versions[Root[i]]) \cap raced = {} => i \in Range(Versions[Root[i]])
           Wrong == {i \in DOMAIN transactions : ~ Whole(i)}
<1>1. ASSUME Wrong # {} PROVE FALSE
  <2>1. Wrong \in SUBSET Nat
    BY Tables
  <2>2. PICK i \in Wrong : \A j \in Wrong : i <= j
    BY <1>1, <2>1, LeastNatural
  <2>3. i \in DOMAIN transactions /\ ~ Whole(i)
    OBVIOUS
  <2>4. Visits(Root[i])
    BY <2>3, RootTyped, VersionsVisit
  <2>5. CASE Previous(i) = {}
    BY <2>3, <2>4, <2>5, RootStep DEF Visits
  <2>6. CASE Previous(i) # {}
    <3> DEFINE j == FindFirst(Previous(i))
    <3>1. j \in DOMAIN transactions /\ j < i /\ Root[j] = Root[i]
      BY <2>3, <2>6, Neighbours, RootStep
    <3>2. Whole(j)
      <4>1. j \notin Wrong
        BY <2>1, <2>2, <2>3, <3>1
      <4>2. QED
        BY <3>1, <4>1
    <3>3. j \in Range(Versions[Root[i]]) /\ j \notin raced
      BY <2>3, <3>1, <3>2
    <3>4. PICK c \in corrections : c.old = j /\ c.new = i
      BY <2>3, <2>6, Neighbours
    <3>5. Successors(j) # {}
      BY <3>4 DEF Successors
    <3>6. PICK d \in corrections : d.old = j /\ d.new = FindFirst(Successors(j))
      BY <3>1, <3>5, Neighbours
    <3>7. c = d
      BY <3>3, <3>4, <3>6 DEF Chains
    <3>8. FindFirst(Successors(j)) = i
      BY <3>4, <3>6, <3>7
    <3>9. QED
      BY <2>3, <2>4, <3>3, <3>5, <3>8 DEF Visits
  <2>7. QED
    BY <2>5, <2>6
<1>2. ASSUME NEW i \in DOMAIN transactions
      PROVE  GetTransactionHistory[i] = Versions[Root[i]] /\ Whole(i)
  BY <1>1 DEF GetTransactionHistory
<1>3. QED
  BY <1>2 DEF HistoryIsComplete

LEMMA CorrectChains ==
    ASSUME LifecycleInductive, Chains, NEW r \in Request, CorrectTransaction(r)
    PROVE  Chains'
<1> USE DEF LifecycleInductive
<1> SUFFICES ASSUME NEW q, q = inflight[r], NEW i, i = q.row,
                    NEW n, n = Len(transactions) + 1
             PROVE  Chains'
  OBVIOUS
<1> DEFINE b == [old |-> i, new |-> n]
<1>1. /\ q # None /\ q.call = "correct" /\ Wrote(r, i)
      /\ corrections' = corrections \cup {b}
  BY DEF CorrectTransaction, Serving
<1>2. /\ i \in DOMAIN transactions
      /\ r \notin stale => transactions[i].status = "CONFIRMED"
  BY <1>1, Served DEF Points, Sees, OfRow, Correctable
<1>3. b.old = i /\ b.new = n /\ i < n
  BY <1>2, Tables
<1> HIDE DEF b
<1>4. raced \subseteq raced' /\ (i \notin raced' => r \notin stale /\ i \notin raced)
  BY <1>1, <1>2, Writing
<1>5. i \notin raced' => \A c \in corrections : c.old # i
  BY <1>2, <1>4 DEF SettledRows, Settled, Sound, Replaced
<1>6. \A c \in corrections' : c.old < c.new
  BY <1>1, <1>3 DEF Chains
<1>7. \A c, d \in corrections' : c.old = d.old /\ c.old \notin raced' => c = d
  BY <1>1, <1>3, <1>4, <1>5 DEF Chains
<1>8. QED
  BY <1>6, <1>7 DEF Chains

LEMMA NextChains == LifecycleInductive /\ Chains /\ [Next]_vars => Chains'
<1> SUFFICES ASSUME LifecycleInductive, Chains, [Next]_vars PROVE Chains'
  OBVIOUS
<1>1. ASSUME corrections' = corrections, raced \subseteq raced' PROVE Chains'
  BY <1>1 DEF Chains
<1>2. ASSUME NEW r \in Request, Write(r) PROVE Chains'
  <2>1. CASE CorrectTransaction(r)
    BY <2>1, CorrectChains
  <2>2. CASE ~ CorrectTransaction(r)
    BY <1>1, <1>2, <2>2 DEF Write, VoidTransaction, ForceConfirm, CancelConflict, OpenCase,
       ResolveValid, ResolveInvalid, AdjustStock, Wrote
  <2>3. QED
    BY <2>1, <2>2
<1>3. ASSUME NEW r \in Request, Abandon(r) PROVE Chains'
  BY <1>1, <1>3 DEF Abandon, tables
<1>4. ASSUME NEW r \in Request, Begin(r) PROVE Chains'
  BY <1>1, <1>4 DEF Begin, BeginVoid, BeginResolveConflict, BeginCorrection, BeginCreate,
     BeginReconcile, BeginResolveCase, BeginAdjustStock, Accept, tables
<1>5. ASSUME NEW items \in Basket, Synchronize(items) PROVE Chains'
  BY <1>1, <1>5 DEF Synchronize
<1>6. ASSUME UNCHANGED vars PROVE Chains'
  BY <1>1, <1>6 DEF vars, tables
<1>7. QED
  BY <1>2, <1>3, <1>4, <1>5, <1>6 DEF Next

(* getTransactionHistory of any version of a sale, however often it was     *)
(* corrected, has that version in it, unless one of the versions it visits  *)
(* was written by a call that another had overtaken: only such a sale has   *)
(* two successors.                                                          *)
THEOREM LifecycleVersions == Spec => []HistoryIsComplete
<1>1. Init => Chains
  BY DEF Init, Chains
<1>2. LifecycleInductive /\ Chains => HistoryIsComplete
  BY ChainsComplete DEF LifecycleInductive
<1>3. QED
  BY <1>1, <1>2, NextChains, LifecycleInvariant, PTL DEF Spec

=============================================================================
