------------------------- MODULE SyncPipelineProofs -------------------------
(***************************************************************************)
(* Proofs about SyncPipeline, for any number of requests, sales, messages, *)
(* retries and crashes, and any set of faults.                             *)
(***************************************************************************)
EXTENDS SyncPipeline, SequenceTheorems, TLAPS

(* Message m still owes the outcome of s.                                   *)
Owes(m, s) == m.at \notin Gone /\ \E k \in m.next .. Len(m.sales) : m.sales[k] = s

(* A crash does not drop m without a trace: it is not in the memory of the  *)
(* wrapper, or it is a retry nobody waits for any more.                     *)
Safe(m) == m.at # "buffer" \/ (m.attempt > 0 /\ m.waiter = None)

Holds(m, s, a) == Owes(m, s) /\ Safe(m) /\ m.attempt >= a

(* A handler is done with s: there is a row, or there could be none.        *)
Settled(s) == Traced(s) \/ s \in dropped

(* Sale s has an outcome, or a message of at least a attempts owes it.      *)
Kept(s, a) == Settled(s) \/ Leaked(s) \/ \E i \in Ids : Holds(messages[i], s, a)

(* The DLQ handler of x waits for a confirm; m is the retry it is about.    *)
Waits(x) == x.at = "dlq consumer" /\ x.busy
Awaited(m, x) ==
    /\ Waits(x)
    /\ x.next <= Len(x.sales)
    /\ m.sales = <<x.sales[x.next]>>
    /\ m.attempt = x.attempt + 1

BufferFresh == \A i \in Ids : messages[i].at = "buffer" => messages[i].next = 1

RetryWaits ==
    \A i, w \in Ids : messages[i].waiter = w =>
        /\ Awaited(messages[i], messages[w])
        /\ messages[i].at = "buffer" \/ i \in unconfirmed
        /\ \A j \in Ids : messages[j].waiter = w => j = i

WaiterKnown == \A i \in Ids : messages[i].waiter \in Request \cup Ids \cup {None}

BusyWaits ==
    \A w \in Ids : Waits(messages[w]) =>
        \E i \in Ids : messages[i].waiter = w

RequestWaits ==
    \A i \in Ids, r \in Request : messages[i].waiter = r => messages[i].sales = Batch[r]

(* Once the broker has a message its sales are accounted for, by messages   *)
(* of no fewer attempts: not by the DLQ message it is a retry of.           *)
BrokerKeeps ==
    \A i \in unconfirmed, a \in Nat : messages[i].attempt = a =>
        \A s \in Range(messages[i].sales) : Kept(s, a)

AcceptedKept ==
    \A r \in Request : request[r] = "accepted" => \A s \in Range(Batch[r]) : Kept(s, 0)

Pending == BufferFresh /\ WaiterKnown /\ RetryWaits /\ BusyWaits /\ RequestWaits

PipelineInductive == TypeOK /\ Pending /\ BrokerKeeps /\ AcceptedKept

-----------------------------------------------------------------------------
(* Messages. *)

LEMMA MessagesTyped ==
    ASSUME TypeOK
    PROVE  /\ Len(messages) \in Nat
           /\ Ids = 1 .. Len(messages)
           /\ messages \in [Ids -> Message]
<1>1. messages \in Seq(Message)
  BY DEF TypeOK
<1>2. QED
  BY <1>1, LenProperties DEF Ids

(* Requests, messages and nobody are told apart as waiters.                 *)
LEMMA WaitersDistinct ==
    ASSUME TypeOK
    PROVE  /\ None \notin Ids /\ None \notin Request
           /\ \A r \in Request : r \notin Ids
           /\ \A n \in Nat : None # n /\ \A r \in Request : r # n
<1>1. None \notin Request \cup Nat /\ Request \cap Nat = {}
  BY PipelineAssumption
<1>2. Ids \subseteq Nat
  BY MessagesTyped
<1>3. QED
  BY <1>1, <1>2

LEMMA MessageFields ==
    ASSUME NEW m \in Message
    PROVE  /\ m.sales \in Seq(Sale)
           /\ m.attempt \in 0 .. MaxRetries
           /\ m.at \in Place
           /\ m.next \in Nat \ {0}
           /\ m.busy \in BOOLEAN
           /\ m.waiter \in Request \cup Nat \cup {None}
           /\ Len(m.sales) \in Nat
           /\ m.attempt \in Nat
           /\ m.next <= Len(m.sales) => m.sales[m.next] \in Sale
<1>1. /\ m.sales \in Seq(Sale)
      /\ m.attempt \in 0 .. MaxRetries
      /\ m.at \in Place
      /\ m.next \in Nat \ {0}
      /\ m.busy \in BOOLEAN
      /\ m.waiter \in Request \cup Nat \cup {None}
  BY DEF Message
<1>2. Len(m.sales) \in Nat
  BY <1>1, LenProperties
<1>3. m.next <= Len(m.sales) => m.sales[m.next] \in Sale
  BY <1>1, <1>2, ElementOfSeq
<1>4. m.attempt \in Nat
  <2>1. MaxRetries \in Nat
    BY PipelineAssumption
  <2>2. m.attempt \in 0 .. MaxRetries
    BY <1>1
  <2>3. QED
    BY <2>1, <2>2
<1>5. QED
  BY <1>1, <1>2, <1>3, <1>4, Zenon

LEMMA OwesCarries ==
    ASSUME TypeOK, NEW i \in Ids, NEW s
    PROVE  Owes(messages[i], s) <=> Carries(i, s)
<1> DEFINE q == messages[i].sales
           n == messages[i].next
<1>1. /\ q \in Seq(Sale) /\ n \in Nat \ {0} /\ Len(q) \in Nat
      /\ \A k \in n .. Len(q) : q[k] \in Sale
  BY MessagesTyped, MessageFields, ElementOfSeq
<1> HIDE DEF q, n
<1>2. /\ SubSeq(q, n, Len(q)) \in Seq(Sale)
      /\ Len(SubSeq(q, n, Len(q))) = IF n <= Len(q) THEN Len(q) - n + 1 ELSE 0
      /\ \A k \in 1 .. Len(q) - n + 1 : SubSeq(q, n, Len(q))[k] = q[n + k - 1]
  BY <1>1, SubSeqProperties
<1>3. Range(SubSeq(q, n, Len(q))) = {SubSeq(q, n, Len(q))[k] : k \in 1 .. Len(SubSeq(q, n, Len(q)))}
  BY <1>2, RangeEquality
<1>4. (\E k \in n .. Len(q) : q[k] = s) <=> s \in Range(SubSeq(q, n, Len(q)))
  <2>1. ASSUME NEW k \in n .. Len(q), q[k] = s
        PROVE  s \in Range(SubSeq(q, n, Len(q)))
    <3>1. k - n + 1 \in 1 .. Len(SubSeq(q, n, Len(q))) /\ n + (k - n + 1) - 1 = k
      BY <1>1, <1>2
    <3>2. SubSeq(q, n, Len(q))[k - n + 1] = q[k]
      BY <1>1, <1>2, <3>1
    <3>3. QED
      BY <1>3, <2>1, <3>1, <3>2
  <2>2. ASSUME NEW k \in 1 .. Len(SubSeq(q, n, Len(q))), SubSeq(q, n, Len(q))[k] = s
        PROVE  \E j \in n .. Len(q) : q[j] = s
    <3>1. n + k - 1 \in n .. Len(q) /\ k \in 1 .. Len(q) - n + 1
      BY <1>1, <1>2
    <3>2. QED
      BY <1>2, <2>2, <3>1
  <2>3. QED
    BY <1>3, <2>1, <2>2
<1>5. QED
  BY <1>4 DEF Owes, Carries, q, n

(* A function on the message numbers is a list of messages again.           *)
LEMMA MessagesMapped ==
    ASSUME NEW n \in Nat, NEW f \in [1 .. n -> Message]
    PROVE  f \in Seq(Message) /\ Len(f) = n /\ DOMAIN f = 1 .. n
<1>1. f \in Seq(Message)
  BY SeqDef
<1>2. DOMAIN f = 1 .. n
  OBVIOUS
<1>3. Len(f) = n
  BY <1>1, <1>2, LenProperties
<1>4. QED
  BY <1>1, <1>2, <1>3

(* One message is replaced by m.                                            *)
LEMMA Replaced ==
    ASSUME TypeOK, NEW i \in Ids, NEW m \in Message,
           messages' = [messages EXCEPT ![i] = m]
    PROVE  /\ messages' \in Seq(Message)
           /\ Ids' = Ids
           /\ messages'[i] = m
           /\ \A j \in Ids \ {i} : messages'[j] = messages[j]
<1>1. messages' \in [1 .. Len(messages) -> Message]
  BY MessagesTyped
<1>2. QED
  BY <1>1, MessagesTyped, MessagesMapped DEF Ids

(* One message is added.                                                    *)
LEMMA Added ==
    ASSUME TypeOK, NEW m \in Message, messages' = Append(messages, m)
    PROVE  /\ messages' \in Seq(Message)
           /\ Ids' = Ids \cup {Len(messages) + 1}
           /\ Len(messages) + 1 \notin Ids
           /\ Len(messages) + 1 \in Nat
           /\ messages'[Len(messages) + 1] = m
           /\ \A j \in Ids : messages'[j] = messages[j]
<1>1. messages \in Seq(Message)
  BY DEF TypeOK
<1>2. /\ messages' \in Seq(Message)
      /\ Len(messages') = Len(messages) + 1
      /\ \A j \in 1 .. Len(messages) : messages'[j] = messages[j]
      /\ messages'[Len(messages) + 1] = m
  BY <1>1, AppendProperties
<1>3. Ids' = 1 .. Len(messages) + 1
  BY <1>2, LenProperties DEF Ids
<1>4. QED
  BY <1>2, <1>3, MessagesTyped

(* What is kept stays kept when every message that owes it still does, or   *)
(* somebody else.                                                           *)
LEMMA KeptGrows ==
    ASSUME Ids \subseteq Ids', ledger \subseteq ledger', failed \subseteq failed',
           dropped \subseteq dropped',
           \A j \in Ids : /\ messages'[j].sales = messages[j].sales
                          /\ messages'[j].attempt = messages[j].attempt
                          /\ messages[j].at = "lost" => messages'[j].at = "lost",
           \A j \in Ids : \A s, a : a \in Nat /\ Holds(messages[j], s, a) => Kept(s, a)'
    PROVE  \A s, a : a \in Nat /\ Kept(s, a) => Kept(s, a)'
<1> SUFFICES ASSUME NEW s, NEW a \in Nat, Kept(s, a) PROVE Kept(s, a)'
  OBVIOUS
<1>1. CASE Settled(s)
  BY <1>1 DEF Kept, Settled, Traced, Recorded
<1>2. CASE Leaked(s)
  <2>1. PICK i \in Ids : /\ messages[i].at = "lost" /\ messages[i].attempt > 0
                         /\ s \in Range(messages[i].sales)
    BY <1>2 DEF Leaked
  <2>2. /\ i \in Ids' /\ messages'[i].at = "lost" /\ messages'[i].attempt > 0
        /\ s \in Range(messages'[i].sales)
    BY <2>1
  <2>3. Leaked(s)'
    BY <2>2 DEF Leaked
  <2>4. QED
    BY <2>3 DEF Kept
<1>3. CASE \E i \in Ids : Holds(messages[i], s, a)
  BY <1>3
<1>4. QED
  BY <1>1, <1>2, <1>3 DEF Kept

(* BrokerKeeps holds after a step that leaves nothing newly unconfirmed and *)
(* keeps what was kept.                                                     *)
LEMMA BrokerStays ==
    ASSUME TypeOK, BrokerKeeps,
           unconfirmed' \subseteq unconfirmed,
           \A j \in Ids : /\ messages'[j].sales = messages[j].sales
                          /\ messages'[j].attempt = messages[j].attempt,
           \A s, a : a \in Nat /\ Kept(s, a) => Kept(s, a)'
    PROVE  BrokerKeeps'
<1> SUFFICES ASSUME NEW j \in unconfirmed', NEW a \in Nat, messages'[j].attempt = a,
                    NEW s \in Range(messages'[j].sales)
             PROVE  Kept(s, a)'
  BY DEF BrokerKeeps
<1>1. j \in unconfirmed /\ j \in Ids
  BY DEF TypeOK
<1>2. messages[j].attempt = a /\ s \in Range(messages[j].sales)
  BY <1>1
<1>3. Kept(s, a)
  BY <1>1, <1>2 DEF BrokerKeeps
<1>4. QED
  BY <1>3

LEMMA InitPipeline == Init => PipelineInductive
<1> SUFFICES ASSUME Init PROVE PipelineInductive
  OBVIOUS
<1>1. Ids = {} /\ unconfirmed = {} /\ messages = <<>>
  BY DEF Init, Ids
<1>2. TypeOK
  <2>1. consuming \in BOOLEAN
    BY DEF Init, Starting
  <2>2. request \in [Request -> Answer]
    BY DEF Init, Answer
  <2>3. messages \in Seq(Message)
    <3>1. <<>> \in Seq(Message)
      BY EmptySeq
    <3>2. QED
      BY <1>1, <3>1
  <2>4. crashes \in 0 .. MaxCrashes
    <3>1. MaxCrashes \in Nat
      BY PipelineAssumption
    <3>2. QED
      BY <3>1 DEF Init
  <2>5. QED
    BY <1>1, <2>1, <2>2, <2>3, <2>4 DEF Init, TypeOK
<1>3. Pending /\ BrokerKeeps
  BY <1>1 DEF Pending, BrokerKeeps, BufferFresh, WaiterKnown, RetryWaits, BusyWaits, RequestWaits
<1>4. AcceptedKept
  BY DEF Init, AcceptedKept
<1>5. QED
  BY <1>2, <1>3, <1>4 DEF PipelineInductive

-----------------------------------------------------------------------------
(* Steps that change one message nobody waits on. *)

LEMMA Moved ==
    ASSUME TypeOK, NEW i \in Ids, NEW p \in Place, messages' = Put(i, p)
    PROVE  \E m \in Message :
              /\ messages' = [messages EXCEPT ![i] = m]
              /\ m.sales = messages[i].sales
              /\ m.attempt = messages[i].attempt
              /\ m.waiter = messages[i].waiter
              /\ m.at = p /\ m.next = 1 /\ m.busy = FALSE
              /\ \A s : p \notin Gone /\ Owes(messages[i], s) => Owes(m, s)
<1> DEFINE x == messages[i]
           m == [x EXCEPT !.at = p, !.next = 1, !.busy = FALSE]
<1>1. x \in Message
  BY MessagesTyped
<1>2. FALSE \in BOOLEAN /\ 1 \in Nat \ {0}
  OBVIOUS
<1>3. m \in Message
  BY <1>1, <1>2 DEF Message
<1>4. /\ m.sales = x.sales /\ m.attempt = x.attempt /\ m.waiter = x.waiter
      /\ m.at = p /\ m.next = 1 /\ m.busy = FALSE
  BY <1>1 DEF Message
<1>5. messages' = [messages EXCEPT ![i] = m]
  BY DEF Put
<1>6. x.next \in Nat \ {0} /\ Len(x.sales) \in Nat
  BY <1>1, MessageFields
<1> HIDE DEF m
<1>7. \A s : p \notin Gone /\ Owes(x, s) => Owes(m, s)
  BY <1>4, <1>6 DEF Owes
<1> HIDE DEF x
<1>8. QED
  BY <1>3, <1>4, <1>5, <1>7 DEF x

LEMMA Advanced ==
    ASSUME TypeOK, NEW i \in Ids, HasNext(i), Advance(i)
    PROVE  \E m \in Message :
              /\ messages' = [messages EXCEPT ![i] = m]
              /\ m.sales = messages[i].sales
              /\ m.attempt = messages[i].attempt
              /\ m.waiter = messages[i].waiter
              /\ m.at = messages[i].at
              /\ m.next = messages[i].next + 1 /\ m.busy = FALSE
              /\ \A s : Owes(messages[i], s) => s = Current(i) \/ Owes(m, s)
<1> DEFINE x == messages[i]
           m == [x EXCEPT !.next = x.next + 1, !.busy = FALSE]
<1>1. x \in Message
  BY MessagesTyped
<1>2. x.next \in Nat \ {0} /\ Len(x.sales) \in Nat
  BY <1>1, MessageFields
<1>3. FALSE \in BOOLEAN /\ x.next + 1 \in Nat \ {0}
  BY <1>2
<1>4. m \in Message
  BY <1>1, <1>3 DEF Message
<1>5. /\ m.sales = x.sales /\ m.attempt = x.attempt /\ m.waiter = x.waiter
      /\ m.at = x.at /\ m.next = x.next + 1 /\ m.busy = FALSE
  BY <1>1 DEF Message
<1>6. messages' = [messages EXCEPT ![i] = m]
  BY DEF Advance
<1> HIDE DEF m
<1>7. \A s : Owes(x, s) => s = Current(i) \/ Owes(m, s)
  BY <1>2, <1>5 DEF Owes, Current
<1> HIDE DEF x
<1>8. QED
  BY <1>4, <1>5, <1>6, <1>7 DEF x

(* Message i moves on: from a place that is not final, and no DLQ handler   *)
(* is waiting in it before or after.                                        *)
LEMMA OneMessage ==
    ASSUME PipelineInductive, NEW i \in Ids, NEW m \in Message,
           messages' = [messages EXCEPT ![i] = m],
           m.sales = messages[i].sales,
           m.attempt = messages[i].attempt,
           m.waiter = messages[i].waiter,
           m.at # "buffer",
           messages[i].at # "lost",
           ~Waits(messages[i]), ~Waits(m),
           messages[i].at = "buffer" => i \in unconfirmed',
           unconfirmed \subseteq unconfirmed', unconfirmed' \subseteq unconfirmed \cup {i},
           i \in unconfirmed' \ unconfirmed => m.next = 1 /\ m.at \notin Gone,
           UNCHANGED <<request, consuming, crashes>>,
           ledger \subseteq ledger', ledger' \subseteq Sale,
           failed \subseteq failed', failed' \subseteq Sale,
           dropped \subseteq dropped', dropped' \subseteq Sale,
           \A s : Owes(messages[i], s) => Owes(m, s) \/ Settled(s)'
    PROVE  PipelineInductive'
<1> USE DEF PipelineInductive
<1>1. /\ messages' \in Seq(Message)
      /\ Ids' = Ids
      /\ messages'[i] = m
      /\ \A j \in Ids \ {i} : messages'[j] = messages[j]
  BY Replaced
<1>2. \A j \in Ids : /\ messages'[j].sales = messages[j].sales
                     /\ messages'[j].attempt = messages[j].attempt
                     /\ messages'[j].waiter = messages[j].waiter
                     /\ messages[j].at = "lost" => messages'[j].at = "lost"
  BY <1>1
<1>3. TypeOK'
  BY <1>1 DEF TypeOK
<1>4. Pending'
  <2> USE DEF Pending
  <2>1. BufferFresh'
    BY <1>1 DEF BufferFresh
  <2>2. WaiterKnown' /\ RequestWaits'
    BY <1>1, <1>2 DEF WaiterKnown, RequestWaits
  <2>3. RetryWaits'
    <3> SUFFICES ASSUME NEW j \in Ids, NEW w \in Ids, messages'[j].waiter = w
                 PROVE  /\ Awaited(messages'[j], messages'[w])
                        /\ messages'[j].at = "buffer" \/ j \in unconfirmed'
                        /\ \A k \in Ids : messages'[k].waiter = w => k = j
      BY <1>1 DEF RetryWaits
    <3>1. /\ Awaited(messages[j], messages[w])
          /\ messages[j].at = "buffer" \/ j \in unconfirmed
          /\ \A k \in Ids : messages[k].waiter = w => k = j
      BY <1>2 DEF RetryWaits
    <3>2. w # i
      BY <3>1 DEF Awaited
    <3>3. Awaited(messages'[j], messages'[w])
      BY <1>1, <1>2, <3>1, <3>2 DEF Awaited
    <3>4. messages'[j].at = "buffer" \/ j \in unconfirmed'
      BY <1>1, <3>1
    <3>5. QED
      BY <1>2, <3>1, <3>3, <3>4
  <2>4. BusyWaits'
    BY <1>1, <1>2 DEF BusyWaits
  <2>5. QED
    BY <2>1, <2>2, <2>3, <2>4
<1>5. \A s, a : a \in Nat /\ Kept(s, a) => Kept(s, a)'
  <2>1. ASSUME NEW j \in Ids, NEW s, NEW a \in Nat, Holds(messages[j], s, a)
        PROVE  Kept(s, a)'
    <3>1. CASE Settled(s)'
      BY <3>1 DEF Kept
    <3>2. CASE ~Settled(s)'
      <4>1. Holds(messages'[j], s, a)
        BY <1>1, <2>1, <3>2 DEF Holds, Safe
      <4>2. QED
        BY <1>1, <4>1 DEF Kept
    <3>3. QED
      BY <3>1, <3>2
  <2>2. QED
    BY <1>1, <1>2, <2>1, KeptGrows
<1>6. BrokerKeeps'
  <2> SUFFICES ASSUME NEW j \in unconfirmed', NEW a \in Nat, messages'[j].attempt = a,
                      NEW s \in Range(messages'[j].sales)
               PROVE  Kept(s, a)'
    BY DEF BrokerKeeps
  <2>1. CASE j \in unconfirmed
    BY <1>2, <1>5, <2>1 DEF BrokerKeeps, TypeOK
  <2>2. CASE j = i /\ i \notin unconfirmed
    <3>1. m.next = 1 /\ m.at \notin Gone
      BY <2>2
    <3>2. PICK k \in 1 .. Len(m.sales) : m.sales[k] = s
      <4>1. m.sales \in Seq(Sale) /\ messages'[j] = m
        BY <1>1, <2>2, MessageFields
      <4>2. Range(m.sales) = {m.sales[k] : k \in 1 .. Len(m.sales)}
        BY <4>1, RangeEquality
      <4>3. QED
        BY <4>1, <4>2
    <3>3. Owes(m, s)
      BY <3>1, <3>2 DEF Owes
    <3>4. Holds(messages'[j], s, a)
      BY <1>1, <2>2, <3>3 DEF Holds, Safe
    <3>5. QED
      BY <1>1, <2>2, <3>4 DEF Kept
  <2>3. QED
    BY <2>1, <2>2
<1>7. AcceptedKept'
  BY <1>5 DEF AcceptedKept
<1>8. QED
  BY <1>3, <1>4, <1>6, <1>7

(* A message goes to another place, at its beginning.                       *)
LEMMA MovePipeline ==
    ASSUME PipelineInductive, NEW i \in Ids, NEW p \in Place \ (Gone \cup {"buffer"}),
           messages' = Put(i, p),
           messages[i].at # "lost",
           ~Waits(messages[i]),
           messages[i].at = "buffer" => i \in unconfirmed',
           unconfirmed \subseteq unconfirmed', unconfirmed' \subseteq unconfirmed \cup {i},
           UNCHANGED <<request, ledger, failed, dropped, consuming, crashes>>
    PROVE  PipelineInductive'
<1>1. TypeOK
  BY DEF PipelineInductive
<1>2. PICK m \in Message :
              /\ messages' = [messages EXCEPT ![i] = m]
              /\ m.sales = messages[i].sales
              /\ m.attempt = messages[i].attempt
              /\ m.waiter = messages[i].waiter
              /\ m.at = p /\ m.next = 1 /\ m.busy = FALSE
              /\ \A s : p \notin Gone /\ Owes(messages[i], s) => Owes(m, s)
  BY <1>1, Moved
<1>3. p \notin Gone /\ p # "buffer"
  OBVIOUS
<1>4. ledger \subseteq Sale /\ failed \subseteq Sale /\ dropped \subseteq Sale
  BY <1>1 DEF TypeOK
<1>5. ~Waits(m)
  BY <1>2 DEF Waits
<1>6. QED
  BY <1>2, <1>3, <1>4, <1>5, OneMessage

(* A handler has dealt with the current sale: it is recorded, or failed, or *)
(* not even that could be written.                                          *)
LEMMA AdvancePipeline ==
    ASSUME PipelineInductive, NEW i \in Ids, HasNext(i), Advance(i),
           messages[i].at \in {"consumer", "dlq consumer"},
           ~Waits(messages[i]),
           UNCHANGED <<request, unconfirmed, consuming, crashes>>,
           ledger \subseteq ledger', ledger' \subseteq ledger \cup {Current(i)},
           failed \subseteq failed', failed' \subseteq failed \cup {Current(i)},
           dropped \subseteq dropped', dropped' \subseteq dropped \cup {Current(i)},
           Recorded(Current(i)) \/ Current(i) \in ledger' \cup failed' \cup dropped'
    PROVE  PipelineInductive'
<1>1. TypeOK
  BY DEF PipelineInductive
<1>2. PICK m \in Message :
              /\ messages' = [messages EXCEPT ![i] = m]
              /\ m.sales = messages[i].sales
              /\ m.attempt = messages[i].attempt
              /\ m.waiter = messages[i].waiter
              /\ m.at = messages[i].at
              /\ m.next = messages[i].next + 1 /\ m.busy = FALSE
              /\ \A s : Owes(messages[i], s) => s = Current(i) \/ Owes(m, s)
  BY <1>1, Advanced
<1>3. Current(i) \in Sale
  BY <1>1, MessagesTyped, MessageFields DEF Current, HasNext
<1>4. ledger' \subseteq Sale /\ failed' \subseteq Sale /\ dropped' \subseteq Sale
  BY <1>1, <1>3 DEF TypeOK
<1>5. \A s : s = Current(i) => Settled(s)'
  BY DEF Settled, Traced, Recorded
<1>6. ~Waits(m) /\ m.at # "buffer" /\ messages[i].at \notin {"lost", "buffer"}
  BY <1>2 DEF Waits
<1>7. unconfirmed' = unconfirmed
  OBVIOUS
<1>8. QED
  BY <1>2, <1>4, <1>5, <1>6, <1>7, OneMessage

LEMMA TransmitPipeline ==
    ASSUME PipelineInductive, NEW i \in Ids, Transmit(i) PROVE PipelineInductive'
<1> DEFINE p == IF messages[i].attempt = 0 THEN "main" ELSE "retry"
<1>1. p \in Place \ (Gone \cup {"buffer"}) /\ messages' = Put(i, p)
  BY DEF Transmit, Place, Gone
<1> HIDE DEF p
<1>2. QED
  BY <1>1, MovePipeline DEF Transmit, Waits

LEMMA ExpireTtlPipeline ==
    ASSUME PipelineInductive, NEW i \in Ids, ExpireTtl(i) PROVE PipelineInductive'
<1>1. "main" \in Place \ (Gone \cup {"buffer"})
  BY DEF Place, Gone
<1>2. QED
  BY <1>1, MovePipeline DEF ExpireTtl, Waits

LEMMA DeadLetterPipeline ==
    ASSUME PipelineInductive, NEW i \in Ids, DeadLetter(i) PROVE PipelineInductive'
<1>1. "dlq" \in Place \ (Gone \cup {"buffer"})
  BY DEF Place, Gone
<1>2. QED
  BY <1>1, MovePipeline DEF DeadLetter, Waits

LEMMA DeliverPipeline ==
    ASSUME PipelineInductive, NEW i \in Ids, Deliver(i) PROVE PipelineInductive'
<1> DEFINE p == IF messages[i].at = "main" THEN "consumer" ELSE "dlq consumer"
<1>1. p \in Place \ (Gone \cup {"buffer"}) /\ messages' = Put(i, p)
  BY DEF Deliver, Place, Gone
<1>2. messages[i].at \in {"main", "dlq"}
  BY DEF Deliver
<1> HIDE DEF p
<1>3. QED
  BY <1>1, <1>2, MovePipeline DEF Deliver, Waits

LEMMA SkipExistingPipeline ==
    ASSUME PipelineInductive, NEW i \in Ids, SkipExisting(i) PROVE PipelineInductive'
BY AdvancePipeline DEF SkipExisting, Handling, Waits

LEMMA ProcessPipeline ==
    ASSUME PipelineInductive, NEW i \in Ids, ProcessTransaction(i) PROVE PipelineInductive'
BY AdvancePipeline DEF ProcessTransaction, Handling, Waits

LEMMA FailureRecorded ==
    ASSUME NEW s, RecordFailure(s)
    PROVE  /\ failed \subseteq failed' /\ failed' \subseteq failed \cup {s}
           /\ dropped \subseteq dropped' /\ dropped' \subseteq dropped \cup {s}
           /\ Recorded(s) \/ s \in failed' \cup dropped'
BY DEF RecordFailure, Traced

LEMMA HandleFailurePipeline ==
    ASSUME PipelineInductive, NEW i \in Ids, HandleFailure(i) PROVE PipelineInductive'
<1>1. /\ ~Waits(messages[i]) /\ HasNext(i) /\ messages[i].at = "consumer"
      /\ RecordFailure(Current(i))
  BY DEF HandleFailure, Handling, Waits
<1>2. QED
  BY <1>1, FailureRecorded, AdvancePipeline DEF HandleFailure

LEMMA TerminalFailurePipeline ==
    ASSUME PipelineInductive, NEW i \in Ids, RecordTerminalFailure(i) PROVE PipelineInductive'
<1>1. /\ ~Waits(messages[i]) /\ HasNext(i) /\ messages[i].at = "dlq consumer"
      /\ RecordFailure(Current(i))
  BY DEF RecordTerminalFailure, Handling, Waits
<1>2. QED
  BY <1>1, FailureRecorded, AdvancePipeline DEF RecordTerminalFailure

LEMMA FindNonePipeline ==
    ASSUME PipelineInductive, NEW i \in Ids, FindNone(i) PROVE PipelineInductive'
<1> DEFINE x == messages[i]
           m == [x EXCEPT !.busy = TRUE]
<1>1. TypeOK
  BY DEF PipelineInductive
<1>2. x \in Message
  BY <1>1, MessagesTyped
<1>3. TRUE \in BOOLEAN
  OBVIOUS
<1>4. m \in Message
  BY <1>2, <1>3 DEF Message
<1>5. /\ m.sales = x.sales /\ m.attempt = x.attempt /\ m.waiter = x.waiter
      /\ m.at = x.at /\ m.next = x.next
  BY <1>2 DEF Message
<1>6. messages' = [messages EXCEPT ![i] = m]
  BY DEF FindNone
<1>7. x.at = "consumer"
  BY DEF FindNone, Handling
<1> HIDE DEF m
<1>8. \A s : Owes(x, s) => Owes(m, s)
  BY <1>5 DEF Owes
<1>9. /\ UNCHANGED <<request, unconfirmed, ledger, failed, dropped, consuming, crashes>>
      /\ ledger \subseteq Sale /\ failed \subseteq Sale /\ dropped \subseteq Sale
  BY <1>1 DEF FindNone, TypeOK
<1>10. ~Waits(x) /\ ~Waits(m)
  BY <1>5, <1>7 DEF Waits
<1>11. m.at # "buffer" /\ x.at \notin {"lost", "buffer"} /\ unconfirmed' = unconfirmed
  BY <1>5, <1>7, <1>9
<1> HIDE DEF x
<1>12. QED
  BY <1>4, <1>5, <1>6, <1>8, <1>9, <1>10, <1>11, OneMessage DEF x

(* A handler acknowledges when no sale is left; none waits for a confirm.   *)
LEMMA AckPipeline ==
    ASSUME PipelineInductive, NEW i \in Ids, Ack(i) PROVE PipelineInductive'
<1>1. TypeOK /\ BusyWaits /\ RetryWaits
  BY DEF PipelineInductive, Pending
<1>2. "done" \in Place
  BY DEF Place, Gone
<1>3. messages' = Put(i, "done")
  BY DEF Ack
<1>4. PICK m \in Message :
              /\ messages' = [messages EXCEPT ![i] = m]
              /\ m.sales = messages[i].sales
              /\ m.attempt = messages[i].attempt
              /\ m.waiter = messages[i].waiter
              /\ m.at = "done" /\ m.next = 1 /\ m.busy = FALSE
  <2>1. TypeOK
    BY <1>1
  <2>2. \E m \in Message :
              /\ messages' = [messages EXCEPT ![i] = m]
              /\ m.sales = messages[i].sales
              /\ m.attempt = messages[i].attempt
              /\ m.waiter = messages[i].waiter
              /\ m.at = "done" /\ m.next = 1 /\ m.busy = FALSE
              /\ \A s : "done" \notin Gone /\ Owes(messages[i], s) => Owes(m, s)
    BY <1>2, <1>3, <2>1, Moved, Zenon
  <2>3. QED
    BY <2>2
<1>5. \A s : ~Owes(messages[i], s)
  <2>1. ~(messages[i].next <= Len(messages[i].sales))
    BY DEF Ack, HasNext
  <2>2. messages[i].next \in Nat \ {0} /\ Len(messages[i].sales) \in Nat
    BY <1>1, MessagesTyped, MessageFields
  <2>3. messages[i].next .. Len(messages[i].sales) = {}
    BY <2>1, <2>2
  <2>4. QED
    BY <2>3 DEF Owes
<1>6. ~Waits(messages[i]) /\ ~Waits(m)
  <2>1. ~Waits(messages[i])
    BY <1>1 DEF Ack, HasNext, BusyWaits, RetryWaits, Awaited
  <2>2. QED
    BY <1>4, <2>1 DEF Waits
<1>7. /\ UNCHANGED <<request, unconfirmed, ledger, failed, dropped, consuming, crashes>>
      /\ ledger \subseteq Sale /\ failed \subseteq Sale /\ dropped \subseteq Sale
      /\ messages[i].at \notin {"buffer", "lost"}
  BY <1>1 DEF Ack, TypeOK
<1>8. unconfirmed' = unconfirmed /\ m.at # "buffer"
  BY <1>4, <1>7
<1>9. QED
  BY <1>8, <1>4, <1>5, <1>6, <1>7, OneMessage

-----------------------------------------------------------------------------
(* Steps that settle waiters or add messages. *)

(* What is kept by messages of more attempts than w does not depend on w.   *)
LEMMA KeptElsewhere ==
    ASSUME TypeOK, NEW w \in Ids, NEW s, NEW b \in Nat, Kept(s, b), messages[w].attempt < b,
           Ids \subseteq Ids', ledger \subseteq ledger', failed \subseteq failed',
           dropped \subseteq dropped',
           \A j \in Ids : /\ messages'[j].sales = messages[j].sales
                          /\ messages'[j].attempt = messages[j].attempt
                          /\ messages[j].at = "lost" => messages'[j].at = "lost",
           \A j \in Ids \ {w} : Holds(messages[j], s, b) => Holds(messages'[j], s, b)
    PROVE  \A a \in Nat : a <= b => Kept(s, a)'
<1> SUFFICES ASSUME NEW a \in Nat, a <= b PROVE Kept(s, a)'
  OBVIOUS
<1>1. CASE Settled(s)
  BY <1>1 DEF Kept, Settled, Traced, Recorded
<1>2. CASE Leaked(s)
  <2>1. PICK i \in Ids : /\ messages[i].at = "lost" /\ messages[i].attempt > 0
                         /\ s \in Range(messages[i].sales)
    BY <1>2 DEF Leaked
  <2>2. /\ i \in Ids' /\ messages'[i].at = "lost" /\ messages'[i].attempt > 0
        /\ s \in Range(messages'[i].sales)
    BY <2>1
  <2>3. Leaked(s)'
    BY <2>2 DEF Leaked
  <2>4. QED
    BY <2>3 DEF Kept
<1>3. CASE \E i \in Ids : Holds(messages[i], s, b)
  <2>1. PICK i \in Ids : Holds(messages[i], s, b)
    BY <1>3
  <2>2. messages[w].attempt \in Nat /\ messages[i].attempt \in Nat
    BY MessagesTyped, MessageFields
  <2>3. i # w
    BY <2>1, <2>2 DEF Holds
  <2>4. Holds(messages'[i], s, b) /\ messages'[i].attempt = messages[i].attempt
    BY <2>1, <2>3
  <2>5. Holds(messages'[i], s, a)
    BY <2>2, <2>4 DEF Holds
  <2>6. QED
    BY <2>5 DEF Kept
<1>4. QED
  BY <1>1, <1>2, <1>3 DEF Kept

LEMMA ReleasedMessage ==
    ASSUME NEW m \in Message, NEW x, x = [m EXCEPT !.waiter = None]
    PROVE  /\ x \in Message
           /\ x.sales = m.sales /\ x.attempt = m.attempt /\ x.at = m.at
           /\ x.next = m.next /\ x.waiter = None
           /\ Waits(x) <=> Waits(m)
           /\ \A s, a : Holds(m, s, a) => Holds(x, s, a)
<1>1. /\ x.sales = m.sales /\ x.attempt = m.attempt /\ x.at = m.at
      /\ x.next = m.next /\ x.waiter = None /\ x.busy = m.busy
  BY DEF Message
<1>2. x \in Message
  BY DEF Message
<1>3. Waits(x) <=> Waits(m)
  BY <1>1 DEF Waits
<1>4. \A s, a : Holds(m, s, a) => Holds(x, s, a)
  BY <1>1 DEF Holds, Owes, Safe
<1>5. QED
  BY <1>1, <1>2, <1>3, <1>4

(* Waiters that are requests go away: answered, timed out or never there.   *)
LEMMA ReleasePipeline ==
    ASSUME PipelineInductive,
           messages' \in [Ids -> Message],
           \A j \in Ids : \/ messages'[j] = messages[j]
                          \/ /\ messages[j].waiter \notin Ids
                             /\ messages'[j] = [messages[j] EXCEPT !.waiter = None],
           unconfirmed' \subseteq unconfirmed,
           \A j \in unconfirmed \ unconfirmed' : messages[j].waiter \notin Ids,
           UNCHANGED <<ledger, failed, dropped, consuming, crashes>>,
           request' \in [Request -> Answer],
           \A r \in Request : request'[r] = "accepted" =>
              request[r] = "accepted" \/ \E i \in unconfirmed : messages[i].waiter = r
    PROVE  PipelineInductive'
<1> USE DEF PipelineInductive
<1>1. messages' \in Seq(Message) /\ Ids' = Ids
  BY MessagesTyped, MessagesMapped DEF Ids
<1>2. \A j \in Ids : /\ messages'[j].sales = messages[j].sales
                     /\ messages'[j].attempt = messages[j].attempt
                     /\ messages'[j].at = messages[j].at
                     /\ messages'[j].next = messages[j].next
                     /\ Waits(messages'[j]) <=> Waits(messages[j])
                     /\ \A s, a : Holds(messages[j], s, a) => Holds(messages'[j], s, a)
  BY MessagesTyped, ReleasedMessage
<1>3. \A j \in Ids : \/ messages'[j].waiter = messages[j].waiter
                     \/ messages'[j].waiter = None /\ messages[j].waiter \notin Ids
  BY MessagesTyped, ReleasedMessage
<1>4. None \notin Ids /\ None \notin Request
  BY WaitersDistinct
<1>5. TypeOK'
  BY <1>1 DEF TypeOK
<1>6. Pending'
  <2> USE DEF Pending
  <2>1. BufferFresh'
    BY <1>1, <1>2 DEF BufferFresh
  <2>2. WaiterKnown'
    BY <1>1, <1>3 DEF WaiterKnown
  <2>3. RequestWaits'
    BY <1>1, <1>2, <1>3, <1>4 DEF RequestWaits
  <2>4. RetryWaits'
    <3> SUFFICES ASSUME NEW j \in Ids, NEW w \in Ids, messages'[j].waiter = w
                 PROVE  /\ Awaited(messages'[j], messages'[w])
                        /\ messages'[j].at = "buffer" \/ j \in unconfirmed'
                        /\ \A k \in Ids : messages'[k].waiter = w => k = j
      BY <1>1 DEF RetryWaits
    <3>1. messages[j].waiter = w
      BY <1>3, <1>4
    <3>2. /\ Awaited(messages[j], messages[w])
          /\ messages[j].at = "buffer" \/ j \in unconfirmed
          /\ \A k \in Ids : messages[k].waiter = w => k = j
      BY <3>1 DEF RetryWaits
    <3>3. Awaited(messages'[j], messages'[w])
      BY <1>2, <3>2 DEF Awaited
    <3>4. \A k \in Ids : messages'[k].waiter = w => k = j
      BY <1>3, <1>4, <3>2
    <3>5. QED
      BY <1>2, <3>1, <3>2, <3>3, <3>4
  <2>5. BusyWaits'
    BY <1>1, <1>2, <1>3 DEF BusyWaits
  <2>6. QED
    BY <2>1, <2>2, <2>3, <2>4, <2>5
<1>7. \A s, a : a \in Nat /\ Kept(s, a) => Kept(s, a)'
  <2>1. \A j \in Ids : \A s, a : a \in Nat /\ Holds(messages[j], s, a) => Kept(s, a)'
    BY <1>1, <1>2 DEF Kept
  <2>2. QED
    BY <1>1, <1>2, <2>1, KeptGrows
<1>8. BrokerKeeps'
  BY <1>1, <1>2, <1>7, BrokerStays
<1>9. AcceptedKept'
  <2> SUFFICES ASSUME NEW r \in Request, request'[r] = "accepted", NEW s \in Range(Batch[r])
               PROVE  Kept(s, 0)'
    BY DEF AcceptedKept
  <2>1. CASE request[r] = "accepted"
    BY <1>7, <2>1 DEF AcceptedKept
  <2>2. CASE \E i \in unconfirmed : messages[i].waiter = r
    <3>1. PICK i \in unconfirmed : messages[i].waiter = r
      BY <2>2
    <3>2. i \in Ids /\ messages[i].sales = Batch[r] /\ messages[i].attempt \in Nat
      BY <3>1, MessagesTyped, MessageFields DEF TypeOK, Pending, RequestWaits
    <3>3. Kept(s, messages[i].attempt)
      BY <3>2 DEF BrokerKeeps
    <3>4. Kept(s, 0)
      <4>1. ASSUME NEW k \in Ids, Holds(messages[k], s, messages[i].attempt)
            PROVE  Holds(messages[k], s, 0)
        BY <3>2, <4>1, MessagesTyped, MessageFields DEF Holds
      <4>2. QED
        BY <3>3, <4>1 DEF Kept
    <3>5. QED
      BY <1>7, <3>4
  <2>3. QED
    BY <2>1, <2>2
<1>10. QED
  BY <1>5, <1>6, <1>8, <1>9

LEMMA PublishTimeoutPipeline ==
    ASSUME PipelineInductive, NEW r \in Request, PublishTimeout(r) PROVE PipelineInductive'
<1> USE DEF PipelineInductive
<1>1. messages' = [j \in Ids |->
          IF messages[j].waiter = r THEN [messages[j] EXCEPT !.waiter = None] ELSE messages[j]]
  BY DEF PublishTimeout
<1>2. r \notin Ids
  BY WaitersDistinct
<1>3. \A j \in Ids : messages[j] \in Message /\ [messages[j] EXCEPT !.waiter = None] \in Message
  BY MessagesTyped, ReleasedMessage
<1>4. messages' \in [Ids -> Message]
  BY <1>1, <1>3
<1>5. \A j \in Ids : \/ messages'[j] = messages[j]
                     \/ /\ messages[j].waiter \notin Ids
                        /\ messages'[j] = [messages[j] EXCEPT !.waiter = None]
  BY <1>1, <1>2
<1>6. /\ request' \in [Request -> Answer]
      /\ \A q \in Request : request'[q] = "accepted" => request[q] = "accepted"
      /\ UNCHANGED <<unconfirmed, ledger, failed, dropped, consuming, crashes>>
  BY DEF PublishTimeout, TypeOK, Answer
<1>7. QED
  BY <1>4, <1>5, <1>6, ReleasePipeline

LEMMA ConfirmPipeline ==
    ASSUME PipelineInductive, NEW i \in Ids, Confirm(i) PROVE PipelineInductive'
<1> DEFINE w == messages[i].waiter
<1> USE DEF PipelineInductive
<1>1. /\ i \in unconfirmed
      /\ unconfirmed' = unconfirmed \ {i}
      /\ UNCHANGED <<ledger, failed, dropped, consuming, crashes>>
  BY DEF Confirm
<1>2. messages[i] \in Message /\ w \in Request \cup Ids \cup {None}
  BY MessagesTyped DEF Pending, WaiterKnown
<1>3. /\ None \notin Ids /\ None \notin Request
      /\ \A r \in Request : r \notin Ids
  BY WaitersDistinct
<1>4. CASE w \notin Ids
  <2> DEFINE x == [messages[i] EXCEPT !.waiter = None]
  <2>1. messages' = [messages EXCEPT ![i] = x]
    BY <1>4 DEF Confirm
  <2>2. x \in Message
    BY <1>2, ReleasedMessage
  <2>3. messages' \in [Ids -> Message]
    BY <2>1, <2>2, MessagesTyped
  <2>4. \A j \in Ids : \/ messages'[j] = messages[j]
                       \/ /\ messages[j].waiter \notin Ids
                          /\ messages'[j] = [messages[j] EXCEPT !.waiter = None]
    BY <1>4, <2>1, MessagesTyped
  <2>5. /\ request' \in [Request -> Answer]
        /\ \A r \in Request : request'[r] = "accepted" => request[r] = "accepted" \/ w = r
    BY DEF Confirm, TypeOK, Answer
  <2>6. \A r \in Request : request'[r] = "accepted" =>
           request[r] = "accepted" \/ \E k \in unconfirmed : messages[k].waiter = r
    BY <1>1, <2>5
  <2>7. \A j \in unconfirmed \ unconfirmed' : messages[j].waiter \notin Ids
    BY <1>1, <1>4
  <2> HIDE DEF x, w
  <2>8. QED
    BY <1>1, <2>3, <2>4, <2>5, <2>6, <2>7, ReleasePipeline
<1>5. CASE w \in Ids
  <2> DEFINE x == [messages[i] EXCEPT !.waiter = None]
             y == [messages[w] EXCEPT !.busy = FALSE, !.next = messages[w].next + 1]
             b == messages[w].attempt + 1
  <2>1. /\ Awaited(messages[i], messages[w])
        /\ \A k \in Ids : messages[k].waiter = w => k = i
    BY <1>5 DEF Pending, RetryWaits
  <2>2. /\ messages[w] \in Message /\ messages[w].attempt \in Nat
        /\ messages[w].next \in Nat \ {0} /\ Len(messages[w].sales) \in Nat
        /\ messages[i].attempt \in Nat
    BY <1>5, MessagesTyped, MessageFields
  <2>3. i # w
    BY <2>1, <2>2 DEF Awaited
  <2>4. x \in Message
    BY <1>2, ReleasedMessage
  <2>5. /\ y \in Message
        /\ y.sales = messages[w].sales /\ y.attempt = messages[w].attempt
        /\ y.at = messages[w].at /\ y.waiter = messages[w].waiter
        /\ y.next = messages[w].next + 1
        /\ ~Waits(y)
    <3>1. FALSE \in BOOLEAN /\ messages[w].next + 1 \in Nat \ {0}
      BY <2>2
    <3>2. y \in Message
      BY <2>2, <3>1 DEF Message
    <3>3. /\ y.sales = messages[w].sales /\ y.attempt = messages[w].attempt
          /\ y.at = messages[w].at /\ y.waiter = messages[w].waiter
          /\ y.next = messages[w].next + 1 /\ y.busy = FALSE
      BY <2>2 DEF Message
    <3>4. ~Waits(y)
      BY <3>3 DEF Waits
    <3>5. QED
      BY <3>2, <3>3, <3>4
  <2>6. messages' = [messages EXCEPT ![i] = x, ![w] = y]
    BY <1>5, <2>3 DEF Confirm
  <2>7. request' = request
    BY <1>3, <1>5 DEF Confirm
  <2>8. /\ messages' \in [Ids -> Message]
        /\ messages'[i] = x /\ messages'[w] = y
        /\ \A j \in Ids \ {i, w} : messages'[j] = messages[j]
    BY <1>5, <2>3, <2>4, <2>5, <2>6, MessagesTyped
  <2>9. messages' \in Seq(Message) /\ Ids' = Ids
    BY <2>8, MessagesTyped, MessagesMapped DEF Ids
  <2>10. /\ x.sales = messages[i].sales /\ x.attempt = messages[i].attempt
         /\ x.at = messages[i].at /\ x.next = messages[i].next /\ x.waiter = None
         /\ Waits(x) <=> Waits(messages[i])
         /\ \A s, a : Holds(messages[i], s, a) => Holds(x, s, a)
    BY <1>2, ReleasedMessage
  <2> HIDE DEF x, y, w
  <2>11. \A j \in Ids : /\ messages'[j].sales = messages[j].sales
                        /\ messages'[j].attempt = messages[j].attempt
                        /\ messages'[j].at = messages[j].at
                        /\ j # w => messages'[j].next = messages[j].next
                        /\ j # i => messages'[j].waiter = messages[j].waiter
                        /\ j # w => (Waits(messages'[j]) <=> Waits(messages[j]))
    BY <2>5, <2>8, <2>10
  <2>12. TypeOK'
    BY <1>1, <2>7, <2>9 DEF TypeOK
  <2>13. Pending'
    <3>1. BufferFresh'
      <4>1. messages[w].at # "buffer"
        BY <2>1 DEF Awaited, Waits
      <4>2. QED
        BY <2>9, <2>11, <4>1 DEF Pending, BufferFresh
    <3>2. WaiterKnown' /\ RequestWaits'
      BY <1>3, <2>8, <2>9, <2>10, <2>11 DEF Pending, WaiterKnown, RequestWaits
    <3>3. RetryWaits'
      <4> SUFFICES ASSUME NEW j \in Ids, NEW v \in Ids, messages'[j].waiter = v
                   PROVE  /\ Awaited(messages'[j], messages'[v])
                          /\ messages'[j].at = "buffer" \/ j \in unconfirmed'
                          /\ \A k \in Ids : messages'[k].waiter = v => k = j
        BY <2>9 DEF RetryWaits
      <4>1. j # i /\ messages[j].waiter = v
        BY <1>3, <2>8, <2>10, <2>11
      <4>2. v # w
        BY <2>1, <4>1 DEF w
      <4>3. /\ Awaited(messages[j], messages[v])
            /\ messages[j].at = "buffer" \/ j \in unconfirmed
            /\ \A k \in Ids : messages[k].waiter = v => k = j
        BY <4>1 DEF Pending, RetryWaits
      <4>4. Awaited(messages'[j], messages'[v])
        BY <2>11, <4>2, <4>3 DEF Awaited
      <4>5. \A k \in Ids : messages'[k].waiter = v => k = j
        BY <1>3, <2>8, <2>10, <2>11, <4>3
      <4>6. QED
        BY <1>1, <2>11, <4>1, <4>3, <4>4, <4>5
    <3>4. BusyWaits'
      <4> SUFFICES ASSUME NEW v \in Ids, Waits(messages'[v])
                   PROVE  \E k \in Ids : messages'[k].waiter = v
        BY <2>9 DEF BusyWaits
      <4>1. v # w /\ Waits(messages[v])
        BY <2>5, <2>8, <2>11
      <4>2. PICK k \in Ids : messages[k].waiter = v
        BY <4>1 DEF Pending, BusyWaits
      <4>3. k # i
        BY <4>1, <4>2 DEF w
      <4>4. QED
        BY <2>11, <4>2, <4>3
    <3>5. QED
      BY <3>1, <3>2, <3>3, <3>4 DEF Pending
  <2>14. \A j \in Ids \ {w} : \A s, a : Holds(messages[j], s, a) => Holds(messages'[j], s, a)
    BY <2>8, <2>10
  <2>15. \A s, a : a \in Nat /\ Kept(s, a) => Kept(s, a)'
    <3>1. ASSUME NEW j \in Ids \ {w}, NEW s, NEW a \in Nat, Holds(messages[j], s, a)
          PROVE  Kept(s, a)'
      BY <2>9, <2>14, <3>1 DEF Kept
    <3>2. ASSUME NEW s, NEW a \in Nat, Holds(messages[w], s, a)
          PROVE  Kept(s, a)'
      <4>1. CASE s = messages[w].sales[messages[w].next]
        <5>1. messages[i].sales = <<s>> /\ messages[i].attempt = b /\ b \in Nat
          BY <2>1, <2>2, <4>1 DEF Awaited
        <5>2. s \in Range(messages[i].sales)
          BY <5>1 DEF Range
        <5>3. Kept(s, b)
          BY <1>1, <5>1, <5>2 DEF BrokerKeeps
        <5>4. messages[w].attempt < b /\ a <= b
          BY <2>2, <3>2 DEF Holds
        <5>5. QED
          BY <1>1, <1>5, <2>9, <2>11, <2>14, <5>1, <5>3, <5>4, KeptElsewhere
      <4>2. CASE s # messages[w].sales[messages[w].next]
        <5>1. Holds(y, s, a)
          BY <2>2, <2>5, <3>2, <4>2 DEF Holds, Owes, Safe
        <5>2. QED
          BY <1>5, <2>8, <2>9, <5>1 DEF Kept
      <4>3. QED
        BY <4>1, <4>2
    <3>3. QED
      BY <1>1, <2>9, <2>11, <3>1, <3>2, KeptGrows
  <2>16. BrokerKeeps'
    BY <1>1, <2>11, <2>15, BrokerStays
  <2>17. AcceptedKept'
    BY <2>7, <2>15 DEF AcceptedKept
  <2>18. QED
    BY <2>12, <2>13, <2>16, <2>17
<1>6. QED
  BY <1>4, <1>5

LEMMA PublishedTyped ==
    ASSUME NEW q \in Seq(Sale), NEW a \in 0 .. MaxRetries,
           NEW w \in Request \cup Nat \cup {None}
    PROVE  /\ Published(q, a, w) \in Message
           /\ Published(q, a, w).sales = q
           /\ Published(q, a, w).attempt = a
           /\ Published(q, a, w).at = "buffer"
           /\ Published(q, a, w).next = 1
           /\ Published(q, a, w).waiter = w
           /\ ~Waits(Published(q, a, w))
<1>1. FALSE \in BOOLEAN /\ "buffer" \in Place /\ 1 \in Nat \ {0}
  BY DEF Place
<1>2. Published(q, a, w) \in Message
  BY <1>1 DEF Published, Message
<1>3. QED
  BY <1>2 DEF Published, Waits

(* A new message nobody waits for, except a request.                        *)
LEMMA AddPipeline ==
    ASSUME PipelineInductive, NEW m \in Message,
           messages' = Append(messages, m),
           m.next = 1, ~Waits(m), m.waiter \in Request \cup {None},
           \A r \in Request : m.waiter = r => m.sales = Batch[r],
           UNCHANGED <<unconfirmed, ledger, failed, dropped, consuming, crashes>>,
           request' \in [Request -> Answer],
           \A r \in Request : request'[r] = "accepted" => request[r] = "accepted"
    PROVE  PipelineInductive'
<1> DEFINE n == Len(messages) + 1
<1> USE DEF PipelineInductive
<1>1. /\ messages' \in Seq(Message)
      /\ Ids' = Ids \cup {n}
      /\ n \notin Ids /\ n \in Nat
      /\ messages'[n] = m
      /\ \A j \in Ids : messages'[j] = messages[j]
  BY Added
<1>2. /\ None \notin Ids /\ None \notin Request /\ None # n
      /\ \A r \in Request : r \notin Ids /\ r # n
  BY <1>1, WaitersDistinct
<1> HIDE DEF n
<1>3. m.waiter \notin Ids'
  BY <1>1, <1>2
<1>4. TypeOK'
  BY <1>1 DEF TypeOK
<1>5. Pending'
  <2> USE DEF Pending
  <2>1. BufferFresh' /\ WaiterKnown' /\ RequestWaits'
    <3>1. BufferFresh'
      BY <1>1 DEF BufferFresh
    <3>2. WaiterKnown'
      BY <1>1 DEF WaiterKnown
    <3>3. ASSUME NEW j \in Ids', NEW r \in Request, messages'[j].waiter = r
          PROVE  messages'[j].sales = Batch[r]
      <4>1. CASE j = n
        BY <1>1, <3>3, <4>1
      <4>2. CASE j \in Ids
        BY <1>1, <3>3, <4>2 DEF RequestWaits
      <4>3. QED
        BY <1>1, <4>1, <4>2
    <3>4. RequestWaits'
      BY <3>3 DEF RequestWaits
    <3>5. QED
      BY <3>1, <3>2, <3>4
  <2>2. RetryWaits'
    <3> SUFFICES ASSUME NEW j \in Ids', NEW w \in Ids', messages'[j].waiter = w
                 PROVE  /\ Awaited(messages'[j], messages'[w])
                        /\ messages'[j].at = "buffer" \/ j \in unconfirmed
                        /\ \A k \in Ids' : messages'[k].waiter = w => k = j
      BY DEF RetryWaits
    <3>1. j \in Ids /\ messages[j].waiter = w /\ w \in Ids
      BY <1>1, <1>2, <1>3 DEF WaiterKnown
    <3>2. /\ Awaited(messages[j], messages[w])
          /\ messages[j].at = "buffer" \/ j \in unconfirmed
          /\ \A k \in Ids : messages[k].waiter = w => k = j
      BY <3>1 DEF RetryWaits
    <3>3. \A k \in Ids' : messages'[k].waiter = w => k = j
      BY <1>1, <1>3, <3>2
    <3>4. QED
      BY <1>1, <3>1, <3>2, <3>3
  <2>3. BusyWaits'
    BY <1>1 DEF BusyWaits
  <2>4. QED
    BY <2>1, <2>2, <2>3
<1>6. \A s, a : a \in Nat /\ Kept(s, a) => Kept(s, a)'
  <2>1. \A j \in Ids : \A s, a : a \in Nat /\ Holds(messages[j], s, a) => Kept(s, a)'
    BY <1>1 DEF Kept
  <2>2. QED
    BY <1>1, <2>1, KeptGrows
<1>7. BrokerKeeps'
  BY <1>1, <1>6, BrokerStays
<1>8. AcceptedKept'
  BY <1>6 DEF AcceptedKept
<1>9. QED
  BY <1>4, <1>5, <1>7, <1>8

LEMMA SyncTransactionsPipeline ==
    ASSUME PipelineInductive, NEW r \in Request, SyncTransactions(r) PROVE PipelineInductive'
<1> USE DEF PipelineInductive
<1>1. /\ UNCHANGED <<unconfirmed, ledger, failed, dropped, consuming, crashes>>
      /\ request' \in [Request -> Answer]
      /\ \A q \in Request : request'[q] = "accepted" => request[q] = "accepted"
  BY DEF SyncTransactions, TypeOK, Answer
<1>2. CASE messages' = messages
  <2>1. messages' \in [Ids -> Message]
    BY <1>2, MessagesTyped
  <2>2. QED
    BY <1>1, <1>2, <2>1, ReleasePipeline
<1>3. CASE messages' = Append(messages, Published(Batch[r], 0, r))
  <2> DEFINE m == Published(Batch[r], 0, r)
  <2>1. Batch[r] \in Seq(Sale) /\ 0 \in 0 .. MaxRetries
    <3>1. MaxRetries \in Nat /\ Batch \in [Request -> Seq(Sale)]
      BY PipelineAssumption
    <3>2. QED
      BY <3>1
  <2>2. /\ m \in Message /\ m.next = 1 /\ ~Waits(m)
        /\ m.waiter = r /\ m.sales = Batch[r]
    BY <2>1, PublishedTyped
  <2> HIDE DEF m
  <2>3. messages' = Append(messages, m)
    BY <1>3 DEF m
  <2>4. QED
    BY <1>1, <2>2, <2>3, AddPipeline
<1>4. QED
  BY <1>2, <1>3 DEF SyncTransactions

LEMMA RedeliverPipeline ==
    ASSUME PipelineInductive, NEW i \in Ids, Redeliver(i) PROVE PipelineInductive'
<1> USE DEF PipelineInductive
<1> DEFINE p == IF messages[i].at = "consumer" THEN "main" ELSE "dlq"
           x == Published(messages[i].sales, messages[i].attempt, None)
           m == [x EXCEPT !.at = p]
<1>1. messages[i].sales \in Seq(Sale) /\ messages[i].attempt \in 0 .. MaxRetries
  BY MessagesTyped, MessageFields
<1>2. x \in Message /\ x.next = 1 /\ x.waiter = None
  BY <1>1, PublishedTyped
<1>3. p \in Place /\ p # "dlq consumer"
  BY DEF Place
<1>4. m \in Message /\ m.next = 1 /\ m.waiter = None /\ m.at = p
  BY <1>2, <1>3 DEF Message
<1>5. messages' = Append(messages, m)
  BY DEF Redeliver
<1> HIDE DEF m, p, x
<1>6. ~Waits(m)
  BY <1>3, <1>4 DEF Waits
<1>7. \A r \in Request : m.waiter # r
  BY <1>4, WaitersDistinct
<1>8. /\ UNCHANGED <<request, unconfirmed, ledger, failed, dropped, consuming, crashes>>
      /\ request' \in [Request -> Answer]
  BY DEF Redeliver, TypeOK
<1>9. QED
  BY <1>4, <1>5, <1>6, <1>7, <1>8, AddPipeline

(* One message is replaced and one is added.                                *)
LEMMA ReplacedAdded ==
    ASSUME TypeOK, NEW i \in Ids, NEW x \in Message, NEW m \in Message,
           messages' = Append([messages EXCEPT ![i] = x], m)
    PROVE  /\ messages' \in Seq(Message)
           /\ Ids' = Ids \cup {Len(messages) + 1}
           /\ Len(messages) + 1 \notin Ids
           /\ Len(messages) + 1 \in Nat
           /\ messages'[Len(messages) + 1] = m
           /\ messages'[i] = x
           /\ \A j \in Ids \ {i} : messages'[j] = messages[j]
<1> DEFINE q == [messages EXCEPT ![i] = x]
<1>1. /\ q \in Seq(Message)
      /\ Len(q) = Len(messages)
      /\ \A j \in Ids : q[j] = IF j = i THEN x ELSE messages[j]
  BY MessagesTyped, ExceptSeq DEF TypeOK
<1> HIDE DEF q
<1>2. messages' = Append(q, m)
  BY DEF q
<1>3. /\ messages' \in Seq(Message)
      /\ Len(messages') = Len(messages) + 1
      /\ \A j \in 1 .. Len(messages) : messages'[j] = q[j]
      /\ messages'[Len(messages) + 1] = m
  <2>1. q \in Seq(Message)
    BY <1>1
  <2>2. /\ Append(q, m) \in Seq(Message)
        /\ Len(Append(q, m)) = Len(q) + 1
        /\ \A j \in 1 .. Len(q) : Append(q, m)[j] = q[j]
        /\ Append(q, m)[Len(q) + 1] = m
    BY <2>1, AppendProperties
  <2>3. Len(q) = Len(messages)
    BY <1>1
  <2>4. QED
    BY <1>2, <2>2, <2>3
<1>4. Ids' = 1 .. Len(messages) + 1
  BY <1>3, LenProperties DEF Ids
<1>5. QED
  BY <1>1, <1>3, <1>4, MessagesTyped

LEMMA ResendPipeline ==
    ASSUME PipelineInductive, NEW i \in Ids, Resend(i) PROVE PipelineInductive'
<1> USE DEF PipelineInductive
<1> DEFINE x == [messages[i] EXCEPT !.waiter = None]
           m == Published(messages[i].sales, messages[i].attempt, messages[i].waiter)
           n == Len(messages) + 1
<1>1. /\ messages' = Append([messages EXCEPT ![i] = x], m)
      /\ unconfirmed' = unconfirmed \ {i}
      /\ UNCHANGED <<request, ledger, failed, dropped, consuming, crashes>>
  BY DEF Resend
<1>2. /\ messages[i] \in Message
      /\ messages[i].sales \in Seq(Sale) /\ messages[i].attempt \in 0 .. MaxRetries
      /\ messages[i].waiter \in Request \cup Nat \cup {None}
  BY MessagesTyped, MessageFields
<1>3. /\ x \in Message
      /\ x.sales = messages[i].sales /\ x.attempt = messages[i].attempt
      /\ x.at = messages[i].at /\ x.next = messages[i].next /\ x.waiter = None
      /\ Waits(x) <=> Waits(messages[i])
      /\ \A s, a : Holds(messages[i], s, a) => Holds(x, s, a)
  BY <1>2, ReleasedMessage
<1>4. /\ m \in Message
      /\ m.sales = messages[i].sales /\ m.attempt = messages[i].attempt
      /\ m.at = "buffer" /\ m.next = 1 /\ m.waiter = messages[i].waiter
      /\ ~Waits(m)
  BY <1>2, PublishedTyped
<1> HIDE DEF x, m
<1>5. /\ messages' \in Seq(Message)
      /\ Ids' = Ids \cup {n}
      /\ n \notin Ids /\ n \in Nat
      /\ messages'[n] = m
      /\ messages'[i] = x
      /\ \A j \in Ids \ {i} : messages'[j] = messages[j]
  BY <1>1, <1>3, <1>4, ReplacedAdded
<1>6. /\ None \notin Ids /\ None \notin Request /\ None # n
      /\ \A r \in Request : r \notin Ids /\ r # n
  BY <1>5, WaitersDistinct
<1> HIDE DEF n
<1>7. \A j \in Ids : /\ messages'[j].sales = messages[j].sales
                     /\ messages'[j].attempt = messages[j].attempt
                     /\ messages'[j].at = messages[j].at
                     /\ messages'[j].next = messages[j].next
                     /\ messages'[j].waiter = IF j = i THEN None ELSE messages[j].waiter
                     /\ Waits(messages'[j]) <=> Waits(messages[j])
                     /\ \A s, a : Holds(messages[j], s, a) => Holds(messages'[j], s, a)
  BY <1>3, <1>5
<1>8. TypeOK'
  BY <1>1, <1>5 DEF TypeOK
<1>9. Pending'
  <2> USE DEF Pending
  <2>1. BufferFresh'
    BY <1>4, <1>5, <1>7 DEF BufferFresh
  <2>2. WaiterKnown'
    BY <1>4, <1>5, <1>7 DEF WaiterKnown
  <2>3. RequestWaits'
    BY <1>4, <1>5, <1>6, <1>7 DEF RequestWaits
  <2>4. RetryWaits'
    <3> SUFFICES ASSUME NEW j \in Ids', NEW w \in Ids', messages'[j].waiter = w
                 PROVE  /\ Awaited(messages'[j], messages'[w])
                        /\ messages'[j].at = "buffer" \/ j \in unconfirmed'
                        /\ \A k \in Ids' : messages'[k].waiter = w => k = j
      BY DEF RetryWaits
    <3> DEFINE o == IF j = n THEN i ELSE j
    <3>1. o \in Ids /\ messages[o].waiter = w /\ w \in Ids
      BY <1>4, <1>5, <1>6, <1>7 DEF WaiterKnown
    <3>2. /\ Awaited(messages[o], messages[w])
          /\ messages[o].at = "buffer" \/ o \in unconfirmed
          /\ \A k \in Ids : messages[k].waiter = w => k = o
      BY <3>1 DEF RetryWaits
    <3>3. /\ messages'[j].sales = messages[o].sales
          /\ messages'[j].attempt = messages[o].attempt
      BY <1>4, <1>5, <1>7, <3>1
    <3>4. Awaited(messages'[j], messages'[w])
      BY <1>7, <3>1, <3>2, <3>3 DEF Awaited
    <3>5. messages'[j].at = "buffer" \/ j \in unconfirmed'
      BY <1>1, <1>4, <1>5, <1>6, <1>7, <3>1, <3>2
    <3>6. \A k \in Ids' : messages'[k].waiter = w => k = j
      BY <1>4, <1>5, <1>6, <1>7, <3>1, <3>2
    <3>7. QED
      BY <3>4, <3>5, <3>6
  <2>5. BusyWaits'
    <3> SUFFICES ASSUME NEW w \in Ids', Waits(messages'[w])
                 PROVE  \E k \in Ids' : messages'[k].waiter = w
      BY DEF BusyWaits
    <3>1. w \in Ids /\ Waits(messages[w])
      BY <1>4, <1>5, <1>7
    <3>2. PICK k \in Ids : messages[k].waiter = w
      BY <3>1 DEF BusyWaits
    <3>3. QED
      BY <1>4, <1>5, <1>7, <3>2
  <2>6. QED
    BY <2>1, <2>2, <2>3, <2>4, <2>5
<1>10. \A s, a : a \in Nat /\ Kept(s, a) => Kept(s, a)'
  <2>1. \A j \in Ids : \A s, a : a \in Nat /\ Holds(messages[j], s, a) => Kept(s, a)'
    BY <1>5, <1>7 DEF Kept
  <2>2. QED
    BY <1>1, <1>5, <1>7, <2>1, KeptGrows
<1>11. BrokerKeeps'
  BY <1>1, <1>7, <1>10, BrokerStays
<1>12. AcceptedKept'
  BY <1>1, <1>10 DEF AcceptedKept
<1>13. QED
  BY <1>8, <1>9, <1>11, <1>12

LEMMA PublishToRetryPipeline ==
    ASSUME PipelineInductive, NEW i \in Ids, PublishToRetry(i) PROVE PipelineInductive'
<1> USE DEF PipelineInductive
<1> DEFINE x == [messages[i] EXCEPT !.busy = TRUE]
           c == Current(i)
           m == Published(<<c>>, messages[i].attempt + 1, i)
           n == Len(messages) + 1
<1>1. /\ messages' = Append([messages EXCEPT ![i] = x], m)
      /\ messages[i].at = "dlq consumer"
      /\ messages[i].next <= Len(messages[i].sales)
      /\ ~Waits(messages[i])
      /\ messages[i].attempt + 1 <= MaxRetries
      /\ UNCHANGED <<request, unconfirmed, ledger, failed, dropped, consuming, crashes>>
  BY DEF PublishToRetry, Handling, HasNext, RetriesLeft, Waits
<1>2. /\ messages[i] \in Message
      /\ messages[i].attempt \in Nat
      /\ c \in Sale
      /\ i \in Nat
  <2>1. messages[i] \in Message /\ i \in Nat
    BY MessagesTyped
  <2>2. QED
    BY <1>1, <2>1, MessageFields DEF Current
<1>3. /\ x \in Message
      /\ x.sales = messages[i].sales /\ x.attempt = messages[i].attempt
      /\ x.at = messages[i].at /\ x.next = messages[i].next
      /\ x.waiter = messages[i].waiter
      /\ Waits(x)
      /\ \A s, a : Holds(messages[i], s, a) => Holds(x, s, a)
  <2>1. TRUE \in BOOLEAN
    OBVIOUS
  <2>2. x \in Message
    BY <1>2, <2>1 DEF Message
  <2>3. /\ x.sales = messages[i].sales /\ x.attempt = messages[i].attempt
        /\ x.at = messages[i].at /\ x.next = messages[i].next
        /\ x.waiter = messages[i].waiter /\ x.busy = TRUE
    BY <1>2 DEF Message
  <2> HIDE DEF x
  <2>4. Waits(x)
    BY <1>1, <2>3 DEF Waits
  <2>5. \A s, a : Holds(messages[i], s, a) => Holds(x, s, a)
    BY <2>3 DEF Holds, Owes, Safe
  <2>6. QED
    BY <2>2, <2>3, <2>4, <2>5
<1>4. /\ m \in Message
      /\ m.sales = <<c>> /\ m.attempt = messages[i].attempt + 1
      /\ m.at = "buffer" /\ m.next = 1 /\ m.waiter = i
      /\ ~Waits(m)
  <2> DEFINE a == messages[i].attempt + 1
  <2>1. <<c>> \in Seq(Sale)
    BY <1>2
  <2>2. a <= MaxRetries /\ MaxRetries \in Nat /\ a \in Nat
    <3>1. MaxRetries \in Nat
      BY PipelineAssumption
    <3>2. a <= MaxRetries
      BY <1>1
    <3>3. a \in Nat
      BY <1>2
    <3>4. QED
      BY <3>1, <3>2, <3>3
  <2> HIDE DEF a, c
  <2>3. a \in 0 .. MaxRetries /\ i \in Request \cup Nat \cup {None}
    BY <1>2, <2>2
  <2> DEFINE q == <<c>>
  <2> HIDE DEF q
  <2>4. m = Published(q, a, i) /\ q \in Seq(Sale)
    BY <2>1 DEF a, q
  <2> HIDE DEF m
  <2>5. /\ m \in Message
        /\ m.sales = q /\ m.attempt = a
        /\ m.at = "buffer" /\ m.next = 1 /\ m.waiter = i
        /\ ~Waits(m)
    BY <2>3, <2>4, PublishedTyped
  <2>6. QED
    BY <2>5 DEF a, q
<1> HIDE DEF x, m
<1>5. /\ messages' \in Seq(Message)
      /\ Ids' = Ids \cup {n}
      /\ n \notin Ids /\ n \in Nat
      /\ messages'[n] = m
      /\ messages'[i] = x
      /\ \A j \in Ids \ {i} : messages'[j] = messages[j]
  BY <1>1, <1>3, <1>4, ReplacedAdded
<1>6. \A r \in Request : r \notin Ids
  BY WaitersDistinct
<1>7. \A j \in Ids : messages[j].waiter # i
  BY <1>1 DEF Pending, RetryWaits, Awaited
<1>8. Awaited(m, x)
  BY <1>1, <1>3, <1>4 DEF Awaited, Current
<1> HIDE DEF n, c
<1>9. \A j \in Ids : /\ messages'[j].sales = messages[j].sales
                     /\ messages'[j].attempt = messages[j].attempt
                     /\ messages'[j].at = messages[j].at
                     /\ messages'[j].next = messages[j].next
                     /\ messages'[j].waiter = messages[j].waiter
                     /\ \A s, a : Holds(messages[j], s, a) => Holds(messages'[j], s, a)
  BY <1>3, <1>5
<1>10. TypeOK'
  BY <1>1, <1>5 DEF TypeOK
<1>11. Pending'
  <2> USE DEF Pending
  <2>1. BufferFresh'
    BY <1>4, <1>5, <1>9 DEF BufferFresh
  <2>2. WaiterKnown'
    BY <1>4, <1>5, <1>9 DEF WaiterKnown
  <2>3. RequestWaits'
    BY <1>4, <1>5, <1>6, <1>9 DEF RequestWaits
  <2>4. RetryWaits'
    <3> SUFFICES ASSUME NEW j \in Ids', NEW w \in Ids', messages'[j].waiter = w
                 PROVE  /\ Awaited(messages'[j], messages'[w])
                        /\ messages'[j].at = "buffer" \/ j \in unconfirmed'
                        /\ \A k \in Ids' : messages'[k].waiter = w => k = j
      BY DEF RetryWaits
    <3>1. CASE j = n
      BY <1>4, <1>5, <1>7, <1>8, <1>9, <3>1
    <3>2. CASE j \in Ids
      <4>1. messages[j].waiter = w /\ w # i /\ w \in Ids
        <5>1. messages[j].waiter = w /\ w # i
          BY <1>7, <1>9, <3>2
        <5>2. w # n
          <6>1. messages[j].waiter \in Request \cup Ids \cup {None}
            BY <3>2 DEF WaiterKnown
          <6>2. QED
            BY <1>5, <5>1, <6>1, WaitersDistinct
        <5>3. QED
          BY <1>5, <5>1, <5>2
      <4>2. /\ Awaited(messages[j], messages[w])
            /\ messages[j].at = "buffer" \/ j \in unconfirmed
            /\ \A k \in Ids : messages[k].waiter = w => k = j
        BY <3>2, <4>1 DEF RetryWaits
      <4>3. Awaited(messages'[j], messages'[w])
        BY <1>5, <1>9, <3>2, <4>1, <4>2 DEF Awaited
      <4>4. \A k \in Ids' : messages'[k].waiter = w => k = j
        BY <1>4, <1>5, <1>9, <4>1, <4>2
      <4>5. QED
        BY <1>1, <1>9, <3>2, <4>2, <4>3, <4>4
    <3>3. QED
      BY <1>5, <3>1, <3>2
  <2>5. BusyWaits'
    <3> SUFFICES ASSUME NEW w \in Ids', Waits(messages'[w])
                 PROVE  \E k \in Ids' : messages'[k].waiter = w
      BY DEF BusyWaits
    <3>1. CASE w = i
      BY <1>4, <1>5, <3>1
    <3>2. CASE w # i
      <4>1. w \in Ids /\ Waits(messages[w])
        BY <1>4, <1>5, <3>2
      <4>2. QED
        BY <1>5, <1>9, <4>1 DEF BusyWaits
    <3>3. QED
      BY <3>1, <3>2
  <2>6. QED
    BY <2>1, <2>2, <2>3, <2>4, <2>5
<1>12. \A s, a : a \in Nat /\ Kept(s, a) => Kept(s, a)'
  <2>1. \A j \in Ids : \A s, a : a \in Nat /\ Holds(messages[j], s, a) => Kept(s, a)'
    BY <1>5, <1>9 DEF Kept
  <2>2. QED
    BY <1>1, <1>5, <1>9, <2>1, KeptGrows
<1>13. BrokerKeeps'
  BY <1>1, <1>9, <1>12, BrokerStays
<1>14. AcceptedKept'
  BY <1>1, <1>12 DEF AcceptedKept
<1>15. QED
  BY <1>10, <1>11, <1>13, <1>14

(* Nobody waits any more for the retry k: the broker has it, or it is       *)
(* still in the memory of the wrapper and now what a crash would leak.      *)
LEMMA RetryTimeoutPipeline ==
    ASSUME PipelineInductive, NEW i \in Ids, RetryTimeout(i) PROVE PipelineInductive'
<1> USE DEF PipelineInductive
<1>1. /\ UNCHANGED <<request, unconfirmed, ledger, failed, dropped, consuming, crashes>>
      /\ Waits(messages[i])
      /\ messages[i].next <= Len(messages[i].sales)
  BY DEF RetryTimeout, Handling, HasNext, Waits
<1>2. PICK k \in Ids : messages[k].waiter = i
  BY <1>1 DEF Pending, BusyWaits
<1>3. /\ Awaited(messages[k], messages[i])
      /\ messages[k].at = "buffer" \/ k \in unconfirmed
      /\ \A j \in Ids : messages[j].waiter = i => j = k
  BY <1>2 DEF Pending, RetryWaits
<1> DEFINE y == [messages[i] EXCEPT !.busy = FALSE, !.next = messages[i].next + 1]
           z == [messages[k] EXCEPT !.waiter = None]
           b == messages[i].attempt + 1
<1>4. /\ messages[i] \in Message /\ messages[i].attempt \in Nat
      /\ messages[i].next \in Nat \ {0} /\ Len(messages[i].sales) \in Nat
      /\ messages[k] \in Message /\ messages[k].attempt \in Nat
  BY MessagesTyped, MessageFields
<1>5. k # i
  BY <1>3, <1>4 DEF Awaited
<1>6. None \notin Ids /\ None \notin Request
  BY WaitersDistinct
<1>7. /\ y \in Message
      /\ y.sales = messages[i].sales /\ y.attempt = messages[i].attempt
      /\ y.at = messages[i].at /\ y.waiter = messages[i].waiter
      /\ y.next = messages[i].next + 1
      /\ ~Waits(y)
  <2>1. FALSE \in BOOLEAN /\ messages[i].next + 1 \in Nat \ {0}
    BY <1>4
  <2>2. y \in Message
    BY <1>4, <2>1 DEF Message
  <2>3. /\ y.sales = messages[i].sales /\ y.attempt = messages[i].attempt
        /\ y.at = messages[i].at /\ y.waiter = messages[i].waiter
        /\ y.next = messages[i].next + 1 /\ y.busy = FALSE
    BY <1>4 DEF Message
  <2>4. ~Waits(y)
    BY <2>3 DEF Waits
  <2>5. QED
    BY <2>2, <2>3, <2>4
<1>8. /\ z \in Message
      /\ z.sales = messages[k].sales /\ z.attempt = messages[k].attempt
      /\ z.at = messages[k].at /\ z.next = messages[k].next /\ z.waiter = None
      /\ Waits(z) <=> Waits(messages[k])
      /\ \A s, a : Holds(messages[k], s, a) => Holds(z, s, a)
  BY <1>4, ReleasedMessage
<1>9. /\ messages' = [j \in Ids |-> IF j = i THEN y ELSE IF j = k THEN z ELSE messages[j]]
  <2>1. messages' = [j \in Ids |->
          CASE j = i -> [messages[i] EXCEPT !.next = @ + 1, !.busy = FALSE]
            [] messages[j].waiter = i -> [messages[j] EXCEPT !.waiter = None]
            [] OTHER -> messages[j]]
    BY DEF RetryTimeout
  <2>2. y = [messages[i] EXCEPT !.next = @ + 1, !.busy = FALSE]
    BY <1>4 DEF Message
  <2>3. ASSUME NEW j \in Ids
        PROVE  (CASE j = i -> [messages[i] EXCEPT !.next = @ + 1, !.busy = FALSE]
                  [] messages[j].waiter = i -> [messages[j] EXCEPT !.waiter = None]
                  [] OTHER -> messages[j])
               = IF j = i THEN y ELSE IF j = k THEN z ELSE messages[j]
    <3> HIDE DEF y
    <3>1. CASE j = i
      <4>1. messages[i].waiter # i
        BY <1>3, <1>5
      <4>2. QED
        BY <2>2, <3>1, <4>1
    <3>2. CASE j = k
      BY <1>2, <1>5, <3>2
    <3>3. CASE j # i /\ j # k
      BY <1>3, <3>3
    <3>4. QED
      BY <3>1, <3>2, <3>3
  <2>4. QED
    BY <2>1, <2>3
<1> HIDE DEF y, z
<1>10. /\ messages' \in [Ids -> Message]
       /\ messages'[k] = z /\ messages'[i] = y
       /\ \A j \in Ids \ {k, i} : messages'[j] = messages[j]
  BY <1>5, <1>7, <1>8, <1>9, MessagesTyped
<1>11. messages' \in Seq(Message) /\ Ids' = Ids
  BY <1>10, MessagesTyped, MessagesMapped DEF Ids
<1>12. \A j \in Ids : /\ messages'[j].sales = messages[j].sales
                      /\ messages'[j].attempt = messages[j].attempt
                      /\ messages'[j].at = messages[j].at
                      /\ j # i => messages'[j].next = messages[j].next
                      /\ j # k => messages'[j].waiter = messages[j].waiter
                      /\ j # i => (Waits(messages'[j]) <=> Waits(messages[j]))
  BY <1>7, <1>8, <1>10
<1>13. TypeOK'
  BY <1>1, <1>11 DEF TypeOK
<1>14. Pending'
  <2>1. BufferFresh'
    <3>1. messages[i].at # "buffer"
      BY <1>1 DEF Waits
    <3>2. QED
      BY <1>11, <1>12, <3>1 DEF Pending, BufferFresh
  <2>2. WaiterKnown' /\ RequestWaits'
    BY <1>6, <1>8, <1>10, <1>11, <1>12 DEF Pending, WaiterKnown, RequestWaits
  <2>3. RetryWaits'
    <3> SUFFICES ASSUME NEW j \in Ids, NEW v \in Ids, messages'[j].waiter = v
                 PROVE  /\ Awaited(messages'[j], messages'[v])
                        /\ messages'[j].at = "buffer" \/ j \in unconfirmed'
                        /\ \A l \in Ids : messages'[l].waiter = v => l = j
      BY <1>11 DEF RetryWaits
    <3>1. j # k /\ messages[j].waiter = v
      BY <1>6, <1>8, <1>10, <1>12
    <3>2. v # i
      BY <1>3, <3>1
    <3>3. /\ Awaited(messages[j], messages[v])
          /\ messages[j].at = "buffer" \/ j \in unconfirmed
          /\ \A l \in Ids : messages[l].waiter = v => l = j
      BY <3>1 DEF Pending, RetryWaits
    <3>4. Awaited(messages'[j], messages'[v])
      BY <1>12, <3>2, <3>3 DEF Awaited
    <3>5. \A l \in Ids : messages'[l].waiter = v => l = j
      BY <1>6, <1>8, <1>10, <1>12, <3>3
    <3>6. QED
      BY <1>1, <1>12, <3>3, <3>4, <3>5
  <2>4. BusyWaits'
    <3> SUFFICES ASSUME NEW v \in Ids, Waits(messages'[v])
                 PROVE  \E l \in Ids : messages'[l].waiter = v
      BY <1>11 DEF BusyWaits
    <3>1. v # i /\ Waits(messages[v])
      BY <1>7, <1>10, <1>12
    <3>2. PICK l \in Ids : messages[l].waiter = v
      BY <3>1 DEF Pending, BusyWaits
    <3>3. l # k
      BY <1>2, <3>1, <3>2
    <3>4. QED
      BY <1>12, <3>2, <3>3
  <2>5. QED
    BY <2>1, <2>2, <2>3, <2>4 DEF Pending
<1>15. \A j \in Ids \ {i} : \A s, a : Holds(messages[j], s, a) => Holds(messages'[j], s, a)
  BY <1>8, <1>10
<1>16. \A s, a : a \in Nat /\ Kept(s, a) => Kept(s, a)'
  <2>1. ASSUME NEW j \in Ids \ {i}, NEW s, NEW a \in Nat, Holds(messages[j], s, a)
        PROVE  Kept(s, a)'
    BY <1>11, <1>15, <2>1 DEF Kept
  <2>2. ASSUME NEW s, NEW a \in Nat, Holds(messages[i], s, a)
        PROVE  Kept(s, a)'
    <3>1. CASE s # messages[i].sales[messages[i].next]
      <4>1. Holds(y, s, a)
        BY <1>4, <1>7, <2>2, <3>1 DEF Holds, Owes, Safe
      <4>2. QED
        BY <1>10, <1>11, <4>1 DEF Kept
    <3>2. CASE s = messages[i].sales[messages[i].next]
      <4>1. /\ messages[k].sales = <<s>> /\ messages[k].attempt = b /\ b \in Nat
            /\ messages[i].attempt < b /\ a <= b
        BY <1>3, <1>4, <2>2, <3>2 DEF Awaited, Holds
      <4>2. CASE k \in unconfirmed
        <5>1. s \in Range(messages[k].sales)
          BY <4>1 DEF Range
        <5>2. Kept(s, b)
          BY <4>1, <4>2, <5>1 DEF BrokerKeeps
        <5>3. QED
          BY <1>1, <1>11, <1>12, <1>15, <4>1, <5>2, KeptElsewhere
      <4>3. CASE messages[k].at = "buffer"
        <5>1. messages[k].next = 1
          BY <4>3 DEF Pending, BufferFresh
        <5>2. Owes(z, s)
          <6>1. z.sales = <<s>> /\ z.next = 1 /\ z.at = "buffer"
            BY <1>8, <4>1, <4>3, <5>1
          <6>2. Len(z.sales) = 1 /\ z.sales[1] = s
            BY <6>1
          <6>3. QED
            BY <6>1, <6>2 DEF Owes, Gone
        <5>3. Holds(z, s, a)
          BY <1>4, <1>8, <4>1, <5>2 DEF Holds, Safe
        <5>4. QED
          BY <1>10, <1>11, <5>3 DEF Kept
      <4>4. QED
        BY <1>3, <4>2, <4>3
    <3>3. QED
      BY <3>1, <3>2
  <2>3. QED
    BY <1>1, <1>11, <1>12, <2>1, <2>2, KeptGrows
<1>17. BrokerKeeps'
  BY <1>1, <1>12, <1>16, BrokerStays
<1>18. AcceptedKept'
  BY <1>1, <1>16 DEF AcceptedKept
<1>19. QED
  BY <1>13, <1>14, <1>17, <1>18

(* A message after a crash: out of the handlers, unless it was in the       *)
(* memory of the wrapper, where it is lost when nobody waited for it.       *)
AfterCrash(p, waiter) ==
    CASE p = "buffer" -> IF waiter = None THEN "lost" ELSE "done"
      [] p = "consumer" -> "main"
      [] p = "dlq consumer" -> "dlq"
      [] OTHER -> p

LEMMA CrashedMessage ==
    ASSUME PipelineInductive, Crash, NEW i \in Ids
    PROVE  /\ messages'[i] \in Message
           /\ messages'[i].sales = messages[i].sales
           /\ messages'[i].attempt = messages[i].attempt
           /\ messages'[i].waiter = None
           /\ messages'[i].at # "buffer"
           /\ ~Waits(messages'[i])
           /\ messages[i].at = "lost" => messages'[i].at = "lost"
           /\ messages[i].at = "buffer" /\ messages[i].waiter = None => messages'[i].at = "lost"
           /\ \A s, a : messages[i].at # "buffer" /\ Holds(messages[i], s, a)
                           => Holds(messages'[i], s, a)
<1> DEFINE x == messages[i]
           q == AfterCrash(x.at, x.waiter)
           y == [x EXCEPT !.at = q, !.next = 1, !.busy = FALSE]
           z == [y EXCEPT !.waiter = None]
<1>1. x \in Message /\ x.at \in Place /\ x.next \in Nat \ {0} /\ Len(x.sales) \in Nat
  BY MessagesTyped, MessageFields DEF PipelineInductive
<1>2. messages'[i] = z
  <2>1. Put(i, q)[i] = y
    BY MessagesTyped DEF PipelineInductive, Put
  <2> HIDE DEF y
  <2>2. messages'[i] = [Put(i, q)[i] EXCEPT !.waiter = None]
    BY DEF Crash, AfterCrash
  <2>3. QED
    BY <2>1, <2>2
<1>3. q \in Place /\ q # "buffer" /\ q # "dlq consumer"
  <2> HIDE DEF x
  <2>1. QED
    BY <1>1 DEF AfterCrash, Place, Gone
<1>4. /\ x.at = "lost" => q = "lost"
      /\ x.at = "buffer" /\ x.waiter = None => q = "lost"
      /\ x.at \notin Gone \cup {"buffer"} => q \notin Gone
  <2> HIDE DEF x
  <2>1. QED
    BY <1>1 DEF AfterCrash, Gone
<1> HIDE DEF q
<1>5. y \in Message
  <2>1. FALSE \in BOOLEAN /\ 1 \in Nat \ {0}
    OBVIOUS
  <2>2. QED
    BY <1>1, <1>3, <2>1 DEF Message
<1>6. /\ y.sales = x.sales /\ y.attempt = x.attempt /\ y.at = q
      /\ y.next = 1 /\ y.busy = FALSE
  BY <1>1 DEF Message
<1> HIDE DEF x, y
<1>7. /\ z \in Message
      /\ z.sales = x.sales /\ z.attempt = x.attempt /\ z.at = q
      /\ z.next = 1 /\ z.waiter = None /\ ~Waits(z)
  <2>1. ~Waits(y)
    BY <1>6 DEF Waits
  <2>2. QED
    BY <1>5, <1>6, <2>1, ReleasedMessage
<1> HIDE DEF z
<1>8. \A s, a : x.at # "buffer" /\ Holds(x, s, a) => Holds(z, s, a)
  <2>1. ASSUME NEW s, x.at # "buffer", Owes(x, s)
        PROVE  Owes(z, s)
    <3>1. q \notin Gone
      BY <1>4, <2>1 DEF Owes
    <3>2. PICK k \in x.next .. Len(x.sales) : x.sales[k] = s
      BY <2>1 DEF Owes
    <3>3. k \in 1 .. Len(z.sales) /\ z.sales[k] = s
      BY <1>1, <1>7, <3>2
    <3>4. QED
      BY <1>7, <3>1, <3>3 DEF Owes
  <2>2. Safe(z) /\ z.attempt = x.attempt
    BY <1>3, <1>7 DEF Safe
  <2>3. QED
    BY <2>1, <2>2 DEF Holds
<1>9. QED
  BY <1>2, <1>3, <1>4, <1>7, <1>8 DEF x

LEMMA CrashPipeline == ASSUME PipelineInductive, Crash PROVE PipelineInductive'
<1> USE DEF PipelineInductive
<1>1. /\ unconfirmed' = {}
      /\ UNCHANGED <<ledger, failed, dropped>>
      /\ consuming' \in BOOLEAN
      /\ request' \in [Request -> Answer]
      /\ \A r \in Request : request'[r] = "accepted" => request[r] = "accepted"
  BY DEF Crash, Starting, TypeOK, Answer
<1>2. crashes' \in 0 .. MaxCrashes
  <2>1. MaxCrashes \in Nat
    BY PipelineAssumption
  <2>2. crashes \in 0 .. MaxCrashes /\ crashes < MaxCrashes /\ crashes' = crashes + 1
    BY DEF Crash, TypeOK
  <2>3. QED
    BY <2>1, <2>2
<1>3. messages' \in [Ids -> Message]
  <2>1. messages' = [i \in Ids |-> messages'[i]]
    BY DEF Crash
  <2>2. \A i \in Ids : messages'[i] \in Message
    BY CrashedMessage
  <2>3. QED
    BY <2>1, <2>2
<1>4. messages' \in Seq(Message) /\ Ids' = Ids
  BY <1>3, MessagesTyped, MessagesMapped DEF Ids
<1>5. TypeOK'
  BY <1>1, <1>2, <1>4 DEF TypeOK
<1>6. Pending'
  <2>1. \A i \in Ids : /\ messages'[i].waiter = None /\ messages'[i].at # "buffer"
                       /\ ~Waits(messages'[i])
    BY CrashedMessage
  <2>2. None \notin Ids /\ None \notin Request
    BY WaitersDistinct
  <2>3. BufferFresh' /\ WaiterKnown'
    BY <1>4, <2>1 DEF BufferFresh, WaiterKnown
  <2>4. RetryWaits' /\ BusyWaits' /\ RequestWaits'
    BY <1>4, <2>1, <2>2 DEF RetryWaits, BusyWaits, RequestWaits
  <2>5. QED
    BY <2>3, <2>4 DEF Pending
<1>7. \A s, a : a \in Nat /\ Kept(s, a) => Kept(s, a)'
  <2>1. ASSUME NEW j \in Ids, NEW s, NEW a \in Nat, Holds(messages[j], s, a)
        PROVE  Kept(s, a)'
    <3>1. CASE messages[j].at # "buffer"
      BY <1>4, <2>1, <3>1, CrashedMessage DEF Kept
    <3>2. CASE messages[j].at = "buffer"
      <4>1. messages[j].attempt > 0 /\ messages[j].waiter = None
        BY <2>1, <3>2 DEF Holds, Safe
      <4>2. messages'[j].at = "lost" /\ messages'[j].attempt > 0
        BY <3>2, <4>1, CrashedMessage
      <4>3. s \in Range(messages'[j].sales)
        <5>1. PICK l \in messages[j].next .. Len(messages[j].sales) : messages[j].sales[l] = s
          BY <2>1 DEF Holds, Owes
        <5>2. /\ messages[j].sales \in Seq(Sale) /\ messages[j].next \in Nat \ {0}
              /\ Len(messages[j].sales) \in Nat
          BY MessagesTyped, MessageFields
        <5>3. l \in DOMAIN messages[j].sales
          BY <5>2, LenProperties
        <5>4. messages'[j].sales = messages[j].sales
          BY CrashedMessage
        <5>5. QED
          BY <5>1, <5>3, <5>4 DEF Range
      <4>4. Leaked(s)'
        BY <1>4, <4>2, <4>3 DEF Leaked
      <4>5. QED
        BY <4>4 DEF Kept
    <3>3. QED
      BY <3>1, <3>2
  <2>2. \A j \in Ids : /\ messages'[j].sales = messages[j].sales
                       /\ messages'[j].attempt = messages[j].attempt
                       /\ messages[j].at = "lost" => messages'[j].at = "lost"
    BY CrashedMessage
  <2>3. QED
    BY <1>1, <1>4, <2>1, <2>2, KeptGrows
<1>8. BrokerKeeps'
  BY <1>1 DEF BrokerKeeps
<1>9. AcceptedKept'
  BY <1>1, <1>7 DEF AcceptedKept
<1>10. QED
  BY <1>5, <1>6, <1>8, <1>9

LEMMA NextPipeline == PipelineInductive /\ [Next]_vars => PipelineInductive'
<1> SUFFICES ASSUME PipelineInductive, [Next]_vars PROVE PipelineInductive'
  OBVIOUS
<1>1. ASSUME NEW r \in Request, SyncTransactions(r) \/ PublishTimeout(r)
      PROVE  PipelineInductive'
  BY <1>1, SyncTransactionsPipeline, PublishTimeoutPipeline
<1>2. ASSUME NEW i \in Ids, Consume(i)
      PROVE  PipelineInductive'
  BY <1>2, SkipExistingPipeline, FindNonePipeline, ProcessPipeline, HandleFailurePipeline,
     PublishToRetryPipeline, TerminalFailurePipeline, AckPipeline DEF Consume
<1>3. ASSUME NEW i \in Ids, Broker(i)
      PROVE  PipelineInductive'
  BY <1>3, TransmitPipeline, ConfirmPipeline, ExpireTtlPipeline, DeliverPipeline DEF Broker
<1>4. ASSUME NEW i \in Ids, Fault(i)
      PROVE  PipelineInductive'
  BY <1>4, ResendPipeline, RedeliverPipeline, DeadLetterPipeline, RetryTimeoutPipeline DEF Fault
<1>5. ASSUME UNCHANGED vars
      PROVE  PipelineInductive'
  <2>1. TypeOK /\ messages' \in [Ids -> Message]
    BY <1>5, MessagesTyped DEF PipelineInductive, vars
  <2>2. UNCHANGED <<request, messages, unconfirmed, ledger, failed, dropped, consuming, crashes>>
    BY <1>5 DEF vars
  <2>3. request' \in [Request -> Answer]
    BY <2>1, <2>2 DEF TypeOK
  <2>4. QED
    BY <2>1, <2>2, <2>3, ReleasePipeline
<1>6. QED
  BY <1>1, <1>2, <1>3, <1>4, <1>5, CrashPipeline DEF Next, Terminating

-----------------------------------------------------------------------------
(* What holds of every run. *)

(* A batch on its way from POST /sync to the tables is always in a state    *)
(* where the message, the buffer of the channel wrapper and whoever waits   *)
(* for the confirm agree, and where everything the broker has confirmed is  *)
(* accounted for.                                                           *)
THEOREM PipelineInvariant == Spec => []PipelineInductive
<1>1. QED
  BY InitPipeline, NextPipeline, PTL DEF Spec

(* Every message, answer and row stays of its kind.                         *)
THEOREM PipelineTyped == Spec => []TypeOK
<1>1. PipelineInductive => TypeOK
  BY DEF PipelineInductive
<1>2. QED
  BY <1>1, PipelineInvariant, PTL

(* A sale whose request was answered 200 is in a table or still owed by a   *)
(* message, through resends, redeliveries, retries and crashes, unless the  *)
(* retry of the DLQ handler leaked it or the row that should tell of its    *)
(* failure could not be written.                                            *)
THEOREM PipelineKeepsAccepted == Spec => []AcceptedNotLost
<1>1. PipelineInductive => AcceptedNotLost
  <2> SUFFICES ASSUME PipelineInductive, NEW r \in Request, request[r] = "accepted",
                      NEW s \in Range(Batch[r])
               PROVE  Traced(s) \/ Untold(s) \/ \E i \in Ids : Carries(i, s)
    BY DEF AcceptedNotLost
  <2>1. Kept(s, 0) /\ TypeOK
    BY DEF PipelineInductive, AcceptedKept
  <2>2. ASSUME NEW i \in Ids, Holds(messages[i], s, 0)
        PROVE  Carries(i, s)
    BY <2>1, <2>2, OwesCarries DEF Holds
  <2>3. QED
    BY <2>1, <2>2 DEF Kept, Settled, Untold
<1>2. QED
  BY <1>1, PipelineInvariant, PTL

=============================================================================
