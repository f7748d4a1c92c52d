---------------------------- MODULE SyncPipeline ----------------------------
(***************************************************************************)
(* The way of a batch from POST /sync to the database: SyncController and  *)
(* SyncService.validateBatch, SyncProducerService with its channel         *)
(* wrapper, the queues sync.transactions, sync.retry.* and sync.dlq, and   *)
(* the two consumers of SyncConsumerService.  SyncWorker has the consumer  *)
(* statement by statement; here one sale is looked up in one step and      *)
(* recorded or refused in another.                                         *)
(*                                                                         *)
(* messages[i].at says where message i is.  "buffer" is the memory of the  *)
(* channel wrapper, which keeps what the broker has not confirmed and      *)
(* sends it again after a reconnect, long after publishWithConfirm gave    *)
(* up.  A retry message is dead-lettered back to the main queue when its   *)
(* time to live is over.  Nothing in the code rejects a message of the     *)
(* main queue: what reaches the DLQ is put there from outside.             *)
(***************************************************************************)
EXTENDS Integers, Sequences, FiniteSets, Functions

CONSTANTS
    Request,        \* POST /sync requests, first ones and repetitions
    Sale,           \* payloads: two sales may carry one offline_uuid
    Batch,          \* Batch[r]: the sales request r carries, in order
    UuidOf,         \* offline_uuid of a sale; the devices are known
    HashOf,         \* payload_hash of a sale
    MaxRetries,     \* MAX_RETRIES
    Faults,         \* what may go wrong, see below
    MaxMessages,    \* bound: no fault copies a message beyond that many
    MaxCrashes,     \* bound on process crashes
    None

ASSUME PipelineAssumption ==
    /\ Batch \in [Request -> Seq(Sale)]
    /\ MaxRetries \in Nat \ {0}
    /\ Faults \subseteq {"publish timeout", \* no confirm within five seconds,
                         "retry timeout",   \* the same for the DLQ handler
                         "disconnect",      \* the broker connection breaks
                         "refusal",         \* processTransaction throws
                         "failure write",   \* the insert into SyncQueue throws
                         "dead letter",     \* a message is put into the DLQ
                         "degraded start"}  \* the process starts without broker
    /\ MaxMessages \in Nat /\ MaxCrashes \in Nat
    /\ None \notin Request \cup Nat /\ Request \cap Nat = {}

VARIABLES
    request,        \* the answer to each request
    messages,       \* every message published so far
    unconfirmed,    \* those the broker has and the wrapper still remembers
    ledger,         \* the sales with a Transaction row
    failed,         \* the sales with a SYNC_FAILED row in SyncQueue
    dropped,        \* auxiliary: the sales given up without a row of any kind
    consuming,      \* the process has a consumer of the main queue
    crashes

vars == <<request, messages, unconfirmed, ledger, failed, dropped, consuming, crashes>>

Answer == {"new", "publishing",
           "accepted",      \* 200
           "mismatch",      \* 409
           "unavailable",   \* 503
           "broken"}        \* the process died

\* "lost": it was in the buffer when the process died, and nobody waited for
\* its confirm any more.
Gone == {"done", "lost"}
Place == {"buffer", "main", "retry", "dlq", "consumer", "dlq consumer"} \cup Gone

\* busy: the handler is between looking a sale up and recording it, or waits
\* for the confirm of a retry message.  waiter: who waits for the confirm.
Message == [sales : Seq(Sale), attempt : 0 .. MaxRetries, at : Place,
            next : Nat \ {0}, busy : BOOLEAN, waiter : Request \cup Nat \cup {None}]

Published(sales, attempt, waiter) ==
    [sales |-> sales, attempt |-> attempt, at |-> "buffer",
     next |-> 1, busy |-> FALSE, waiter |-> waiter]

Ids == DOMAIN messages

\* Message i is back at place p, to be handled from its first sale.
Put(i, p) == [messages EXCEPT ![i].at = p, ![i].next = 1, ![i].busy = FALSE]

HasNext(i) == messages[i].next <= Len(messages[i].sales)
Current(i) == messages[i].sales[messages[i].next]

Recorded(s) == \E t \in ledger : UuidOf[t] = UuidOf[s]
Traced(s) == Recorded(s) \/ s \in failed

\* GET /sync/status asks by offline_uuid; Transaction rows come before SyncQueue
\* rows.  SYNCED stands for CONFLICT as well: SyncWorker tells them apart.  The
\* code looks the two tables up one after the other, here it is one step.
QueueFirst(s) ==
    IF \E t \in failed : UuidOf[t] = UuidOf[s] THEN "FAILED"
    ELSE IF Recorded(s) THEN "SYNCED"
    ELSE "UNKNOWN"
Status(s) ==
    IF Recorded(s) THEN "SYNCED"
    ELSE IF \E t \in failed : UuidOf[t] = UuidOf[s] THEN "FAILED"
    ELSE "UNKNOWN"

-----------------------------------------------------------------------------
\* When startAllMicroservices fails, bootstrap logs [DEGRADED] and goes on without
\* a consumer of the main queue until somebody starts the process again.
Starting == IF "degraded start" \in Faults THEN BOOLEAN ELSE {TRUE}

Init ==
    /\ request = [r \in Request |-> "new"]
    /\ messages = <<>>
    /\ unconfirmed = {}
    /\ ledger = {}
    /\ failed = {}
    /\ dropped = {}
    /\ consuming \in Starting
    /\ crashes = 0

-----------------------------------------------------------------------------
(* POST /sync. *)

\* validateBatch is all or nothing.
Mismatch(r) ==
    \E s \in Range(Batch[r]), t \in ledger :
        UuidOf[s] = UuidOf[t] /\ HashOf[s] # HashOf[t]

SyncTransactions(r) ==
    /\ request[r] = "new"
    /\ IF Mismatch(r)
       THEN /\ request' = [request EXCEPT ![r] = "mismatch"]
            /\ UNCHANGED messages
       ELSE /\ request' = [request EXCEPT ![r] = "publishing"]
            /\ messages' = Append(messages, Published(Batch[r], 0, r))
    /\ UNCHANGED <<unconfirmed, ledger, failed, dropped, consuming, crashes>>

\* Five seconds without a confirm: 503, but the message stays in the buffer.
AcceptOnTimeout(r) ==
    /\ "publish timeout" \in Faults
    /\ request[r] = "publishing"
    /\ request' = [request EXCEPT ![r] = "accepted"]
    /\ UNCHANGED <<messages, unconfirmed, ledger, failed, dropped, consuming, crashes>>
PublishTimeout(r) ==
    /\ "publish timeout" \in Faults
    /\ request[r] = "publishing"
    /\ request' = [request EXCEPT ![r] = "unavailable"]
    /\ messages' = [i \in Ids |->
          IF messages[i].waiter = r THEN [messages[i] EXCEPT !.waiter = None]
                                    ELSE messages[i]]
    /\ UNCHANGED <<unconfirmed, ledger, failed, dropped, consuming, crashes>>

-----------------------------------------------------------------------------
(* The channel wrapper and the broker. *)

Transmit(i) ==
    /\ messages[i].at = "buffer"
    /\ messages' = Put(i, IF messages[i].attempt = 0 THEN "main" ELSE "retry")
    /\ unconfirmed' = unconfirmed \cup {i}
    /\ UNCHANGED <<request, ledger, failed, dropped, consuming, crashes>>

\* The confirm settles the promise of the request, or of the DLQ handler.
Confirm(i) ==
    LET w == messages[i].waiter IN
    /\ i \in unconfirmed
    /\ unconfirmed' = unconfirmed \ {i}
    /\ request' = IF w \in Request THEN [request EXCEPT ![w] = "accepted"]
                                   ELSE request
    /\ messages' = IF w \in Ids
                   THEN [messages EXCEPT ![i].waiter = None, ![w].busy = FALSE,
                                         ![w].next = @ + 1]
                   ELSE [messages EXCEPT ![i].waiter = None]
    /\ UNCHANGED <<ledger, failed, dropped, consuming, crashes>>

\* The connection broke before the confirm arrived: the wrapper sends again.
Resend(i) ==
    /\ "disconnect" \in Faults
    /\ i \in unconfirmed
    /\ Len(messages) < MaxMessages
    /\ messages' = Append([messages EXCEPT ![i].waiter = None],
          Published(messages[i].sales, messages[i].attempt, messages[i].waiter))
    /\ unconfirmed' = unconfirmed \ {i}
    /\ UNCHANGED <<request, ledger, failed, dropped, consuming, crashes>>

\* The connection of a consumer broke: its message is delivered to another
\* handler while the first one goes on, its acknowledgement in vain.
Redeliver(i) ==
    /\ "disconnect" \in Faults
    /\ messages[i].at \in {"consumer", "dlq consumer"}
    /\ Len(messages) < MaxMessages
    /\ messages' = Append(messages,
          [Published(messages[i].sales, messages[i].attempt, None) EXCEPT
             !.at = IF messages[i].at = "consumer" THEN "main" ELSE "dlq"])
    /\ UNCHANGED <<request, unconfirmed, ledger, failed, dropped, consuming, crashes>>

\* The time to live of a retry queue is over.
RouteToItself(i) ==
    /\ messages[i].at = "retry"
    /\ messages' = Put(i, "retry")
    /\ UNCHANGED <<request, unconfirmed, ledger, failed, dropped, consuming, crashes>>
ExpireTtl(i) ==
    /\ messages[i].at = "retry"
    /\ messages' = Put(i, "main")
    /\ UNCHANGED <<request, unconfirmed, ledger, failed, dropped, consuming, crashes>>

DeadLetter(i) ==
    /\ "dead letter" \in Faults
    /\ messages[i].at = "main"
    /\ messages' = Put(i, "dlq")
    /\ UNCHANGED <<request, unconfirmed, ledger, failed, dropped, consuming, crashes>>

Deliver(i) ==
    /\ messages[i].at \in IF consuming THEN {"main", "dlq"} ELSE {"dlq"}
    /\ messages' = Put(i, IF messages[i].at = "main" THEN "consumer"
                                                     ELSE "dlq consumer")
    /\ UNCHANGED <<request, unconfirmed, ledger, failed, dropped, consuming, crashes>>

\* Both handlers acknowledge after the last sale.
AckAfterFirst(i) ==
    /\ messages[i].at \in {"consumer", "dlq consumer"}
    /\ ~messages[i].busy
    /\ messages[i].next > 1
    /\ messages' = Put(i, "done")
    /\ UNCHANGED <<request, unconfirmed, ledger, failed, dropped, consuming, crashes>>
Ack(i) ==
    /\ messages[i].at \in {"consumer", "dlq consumer"}
    /\ ~HasNext(i)
    /\ messages' = Put(i, "done")
    /\ UNCHANGED <<request, unconfirmed, ledger, failed, dropped, consuming, crashes>>

-----------------------------------------------------------------------------
(* handleSyncTransactionBatch. *)

Handling(i, p, busy) ==
    messages[i].at = p /\ HasNext(i) /\ messages[i].busy = busy

Advance(i) == messages' = [messages EXCEPT ![i].next = @ + 1, ![i].busy = FALSE]

SkipExisting(i) ==
    /\ Handling(i, "consumer", FALSE)
    /\ Recorded(Current(i))
    /\ Advance(i)
    /\ UNCHANGED <<request, unconfirmed, ledger, failed, dropped, consuming, crashes>>

FindNone(i) ==
    /\ Handling(i, "consumer", FALSE)
    /\ ~Recorded(Current(i))
    /\ messages' = [messages EXCEPT ![i].busy = TRUE]
    /\ UNCHANGED <<request, unconfirmed, ledger, failed, dropped, consuming, crashes>>

\* The unique index decides between two handlers of one offline_uuid.
ProcessTransaction(i) ==
    /\ Handling(i, "consumer", TRUE)
    /\ ~Recorded(Current(i))
    /\ ledger' = ledger \cup {Current(i)}
    /\ Advance(i)
    /\ UNCHANGED <<request, unconfirmed, failed, dropped, consuming, crashes>>

\* Both handlers catch what the insert into SyncQueue throws, log it, go on with
\* the next sale and acknowledge: nothing is left of this one.
RecordFailure(s) ==
    \/ /\ failed' = failed \cup {s}
       /\ UNCHANGED dropped
    \/ /\ "failure write" \in Faults
       /\ dropped' = IF Traced(s) THEN dropped ELSE dropped \cup {s}
       /\ UNCHANGED failed

\* processTransaction throws: on the unique index, or for a reason of its own.
ForgetFailure(i) ==
    /\ Handling(i, "consumer", TRUE)
    /\ Recorded(Current(i)) \/ "refusal" \in Faults
    /\ Advance(i)
    /\ UNCHANGED <<request, unconfirmed, ledger, failed, dropped, consuming, crashes>>
HandleFailure(i) ==
    /\ Handling(i, "consumer", TRUE)
    /\ Recorded(Current(i)) \/ "refusal" \in Faults
    /\ RecordFailure(Current(i))
    /\ Advance(i)
    /\ UNCHANGED <<request, unconfirmed, ledger, consuming, crashes>>

-----------------------------------------------------------------------------
(* handleDlqMessage. *)

OneRetryTooMany(i) == messages[i].attempt <= MaxRetries
RetriesLeft(i) == messages[i].attempt + 1 <= MaxRetries

\* publishToRetry sends the sale alone and waits for the confirm.
PublishToRetry(i) ==
    /\ Handling(i, "dlq consumer", FALSE)
    /\ RetriesLeft(i)
    /\ messages' = Append([messages EXCEPT ![i].busy = TRUE],
          Published(<<Current(i)>>, messages[i].attempt + 1, i))
    /\ UNCHANGED <<request, unconfirmed, ledger, failed, dropped, consuming, crashes>>

\* No confirm: the error is logged and the handler goes on with the next sale.
RetryTimeout(i) ==
    /\ "retry timeout" \in Faults
    /\ Handling(i, "dlq consumer", TRUE)
    /\ messages' = [j \in Ids |->
          CASE j = i -> [messages[i] EXCEPT !.next = @ + 1, !.busy = FALSE]
            [] messages[j].waiter = i -> [messages[j] EXCEPT !.waiter = None]
            [] OTHER -> messages[j]]
    /\ UNCHANGED <<request, unconfirmed, ledger, failed, dropped, consuming, crashes>>

RecordTerminalFailure(i) ==
    /\ Handling(i, "dlq consumer", FALSE)
    /\ ~RetriesLeft(i)
    /\ RecordFailure(Current(i))
    /\ Advance(i)
    /\ UNCHANGED <<request, unconfirmed, ledger, consuming, crashes>>

-----------------------------------------------------------------------------
\* The process dies with its memory and starts again; the broker requeues what is not
\* acknowledged.
Crash ==
    /\ crashes < MaxCrashes
    /\ crashes' = crashes + 1
    /\ consuming' \in Starting
    /\ request' = [r \in Request |->
          IF request[r] = "publishing" THEN "broken" ELSE request[r]]
    /\ messages' = [i \in Ids |->
          [Put(i, CASE messages[i].at = "buffer" ->
                         IF messages[i].waiter = None THEN "lost" ELSE "done"
                    [] messages[i].at = "consumer" -> "main"
                    [] messages[i].at = "dlq consumer" -> "dlq"
                    [] OTHER -> messages[i].at)[i] EXCEPT !.waiter = None]]
    /\ unconfirmed' = {}
    /\ UNCHANGED <<ledger, failed, dropped>>

Consume(i) ==
    \/ SkipExisting(i) \/ FindNone(i) \/ ProcessTransaction(i) \/ HandleFailure(i)
    \/ PublishToRetry(i) \/ RecordTerminalFailure(i) \/ Ack(i)

Broker(i) == Transmit(i) \/ Confirm(i) \/ ExpireTtl(i) \/ Deliver(i)

Fault(i) == Resend(i) \/ Redeliver(i) \/ DeadLetter(i) \/ RetryTimeout(i)

\* Out of the queues, or waiting for somebody to start a consumer.
Drained(i) == messages[i].at \in IF consuming THEN Gone ELSE Gone \cup {"main"}

Terminating ==
    /\ \A r \in Request : request[r] \notin {"new", "publishing"}
    /\ \A i \in Ids : Drained(i)
    /\ unconfirmed = {}
    /\ UNCHANGED vars

Next ==
    \/ \E r \in Request : SyncTransactions(r) \/ PublishTimeout(r)
    \/ \E i \in Ids : Consume(i) \/ Broker(i) \/ Fault(i)
    \/ Crash
    \/ Terminating

Spec == Init /\ [][Next]_vars

\* The broker is up again sooner or later and the handlers run.  No fairness
\* for requests, faults and crashes.
FairSpec ==
    /\ Spec
    /\ WF_vars(\E i \in Ids : Consume(i))
    /\ WF_vars(\E i \in Ids : Broker(i))

-----------------------------------------------------------------------------
(* Properties. *)

TypeOK ==
    /\ request \in [Request -> Answer]
    /\ messages \in Seq(Message)
    /\ unconfirmed \subseteq Ids
    /\ ledger \subseteq Sale
    /\ failed \subseteq Sale
    /\ dropped \subseteq Sale
    /\ consuming \in BOOLEAN
    /\ crashes \in 0 .. MaxCrashes

\* Message i still owes the outcome of sale s.
Carries(i, s) ==
    /\ messages[i].at \notin Gone
    /\ s \in Range(SubSeq(messages[i].sales, messages[i].next,
                          Len(messages[i].sales)))

\* The leak of publishToRetry: a retry that was not confirmed in time, so
\* that the DLQ handler went on and acknowledged, and then a crash.
Leaked(s) ==
    \E i \in Ids : /\ messages[i].at = "lost" /\ messages[i].attempt > 0
                   /\ s \in Range(messages[i].sales)

\* The other leak: the row that should tell of the refusal could not be written.
Untold(s) == Leaked(s) \/ s \in dropped

\* A sale whose request was answered 200 is in a table or still on its way,
\* whatever was duplicated, retried or interrupted since, with the two leaks as
\* the only exceptions.
AcceptedNotLost ==
    \A r \in Request : request[r] = "accepted" =>
        \A s \in Range(Batch[r]) :
            Traced(s) \/ Untold(s) \/ \E i \in Ids : Carries(i, s)

\* GET /sync/status of an accepted sale is UNKNOWN for a while only: there is a
\* row for it, or for the payload that took its uuid first, unless one of the
\* two leaks has swallowed it.  A process that has started without the broker
\* accepts sales just the same and records none.
AcceptedIsTraced ==
    \A r \in Request :
        request[r] = "accepted" ~>
            ~consuming \/ \A s \in Range(Batch[r]) : Traced(s) \/ Untold(s)

\* SYNCED is never taken back, although a duplicate that loses to the unique
\* index leaves a SYNC_FAILED row for a recorded sale; and a sale once known is
\* never UNKNOWN again.  FAILED may become SYNCED.
StatusHolds ==
    [][\A s \in Sale :
          /\ Status(s) = "SYNCED" => Status(s)' = "SYNCED"
          /\ Status(s) # "UNKNOWN" => Status(s)' # "UNKNOWN"]_vars

\* Every message leaves the queues, or waits for a consumer of the main queue:
\* the way from the DLQ through the retry queues and back ends after MAX_RETRIES
\* rounds.
QueuesDrain == <>[](\A i \in Ids : Drained(i))
=============================================================================
