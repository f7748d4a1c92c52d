# K-POS backend: TLA+ specifications

The backend of a point of sale. Tills sell while they are offline; later they send batches of
sales to `POST /sync`, which go through RabbitMQ to a worker that records them in PostgreSQL and
deducts the stock. Owners and operators then void, correct and reconcile the recorded sales over
HTTP. These specifications model that code (NestJS, Prisma, amqp-connection-manager; `src/`), check
it with TLC on small instances and prove most of what the runs check with TLAPS for every size.

## 1. Inventory

| Component (source) | State | Operations | Hard about it | What makes it correct |
|---|---|---|---|---|
| Sync API (`sync.controller`, `sync.service`) | none of its own | `POST /sync` with `validateBatch`, `GET /sync/status`, `GET /sync/failed-queues` | answers before anything is recorded; a status is put together from two tables | an accepted sale is never lost, its status is known in the end, SYNCED is not taken back |
| Sync producer (`sync-producer.service`) | buffer of the channel wrapper, unconfirmed messages | `publishBatch`, `publishToRetry`, reconnect | confirm may be late, lost or never come | nothing acknowledged is only in memory |
| RabbitMQ (external; topology in `sync-producer.service`, `main.ts`) | `sync.transactions`, `sync.retry.*`, `sync.dlq` | deliver, requeue, expire | at least once, out of order; a process may start without it | queues drain |
| Sync consumer (`sync-consumer.service`, `inventory.util`) | one handler per unacknowledged message, up to ten | batch handler, DLQ handler | handlers interleave at every await; row locks, deadlocks, crashes | no overselling, one row per `offline_uuid`, whole sales or nothing |
| Transactions (`transactions.service`) | `Transaction`, `TransactionCorrection` | void, resolve conflict, correct, history, list | decisions on reads outside the database transaction | stock movements follow the status, corrections form a chain |
| Reconciliations, payments | `Reconciliation`, `Payment.status` | create, reconcile, resolve | two services open cases; verdicts race | FAILED only for a cause |
| Products and stock (`products.service`) | `Product`, `Inventory`, `StockHistory` | create, update, remove, adjust stock, list | stale stock check; image and row are two stores | stock is explained by its history; a walk through a list returns each row once |
| Product images (`supabase-storage.service`) | objects in a bucket | upload, delete | no transaction spans bucket and row | a row shows the image of the last update; nothing is left behind |
| Sessions (`auth.service`, `auth.controller`) | `RefreshToken`, the cookie of each browser | login, refresh, logout | rotation is three statements; replies get lost or overtaken | one live token per session; logout is final; the cookie works |
| Accounts (`auth.service`, `users.service`) | `Merchant`, `User` | register, create, updateStatus | look up, hash, then insert | no merchant without its owner |
| Devices (`devices.service`) | `Device` | create, pair, remove | check on a read, update by id | one till per device; removed stays removed |
| Merchants, health, guards, filters, logging, seeds, scripts | none | reads, wrappers | nothing | not modelled |

How they interact: the API calls the producer and waits for a publisher confirm; the producer and
the consumer share only the queues; the consumer, transactions and products share the rows of
`Product` and `Inventory`, so the sync path and the HTTP calls meet in the database alone. There is
no lock in the process: what keeps concurrent calls apart is `SELECT ... FOR UPDATE` in the consumer,
unique indexes, foreign keys, and the row locks of updates.

## 2. Modules

| Module | Models | State ↔ code | Granularity |
|---|---|---|---|
| `SyncWorker` | the consumer of `sync.transactions`, products going off sale and back | `pc`, `idx`, `pos`: where each handler is; `lock`, `shared`, `reserved`, `taken`: what its open database transaction holds; `ledger`, `stock`, `active`, `failed`: committed `Transaction`, `Inventory`, `Product.is_active`, `SyncQueue`; `systemUser`: does that user exist | one action per awaited statement |
| `SaleLedger` | abstract: what synchronization promises | `ledger`, `stock`, `active` | one action per sale |
| `SyncPipeline` | controller, producer, queues, both consumers, the degraded start, `GET /sync/status` | `messages[i].at` is where a message is; `request` the HTTP answers; `ledger`, `failed` the two tables; `dropped`: refused sales whose `SyncQueue` row could not be written; `consuming`: did `startAllMicroservices` succeed | one action per message movement; a sale is looked up in one step and recorded in another |
| `TransactionLifecycle` | void, resolve, correct, history, reconcile, adjust | `transactions[i].moved` is the sum of the sale's `StockHistory` rows; `inflight[r]` what request r remembers; `stale`, `raced` auxiliary | a read action `Begin...` and a write action per call |
| `SaleAccounts` | abstract: the owner's books | `accounts`, `stock` | one action per decision on a sale |
| `StockLocks` | the consumer, corrections, resolutions and adjustments on the rows of `Inventory` and `Product` | `step`: the statement of a job; `inventory`, `product`, `shared`: row locks; `delta`: its uncommitted changes; `catalog`: is a product on sale, off sale or unknown | one action per statement |
| `StockBook` | abstract: what these jobs promise together | `stock`, `outcome`, `active` | one action per job |
| `ProductImages` | create and update of products with their images | `products`: rows; `bucket`: objects, named by product and type; `calls`: what each request remembers; `latest`, `torn`, `littered` auxiliary | one action per statement or storage call |
| `Sessions` | register, create user, login, refresh, logout, deactivation, the cookies | `users`: rows by address; `merchants`: how many `Merchant` rows there are, each with its own id; `tokens`: every token issued, `gone` when its row is; `cookie`: what each browser has; `ended`, `broken`, `lost` auxiliary | one action per statement of refresh; elsewhere read, write and reply |
| `DevicePairing` | create, pair, remove | `devices`: rows; `claims`: which till was told to be which device; `raced` auxiliary | read and write apart |
| `CursorPages` | `findAll` of transactions and of products | `passes`: does the client pass `next_cursor` or the last item of the page; `cursor`: what it passes; `simultaneous`: rows with the `created_at` of the one before | one action per page |
| `MC...` | – | the constants of the instances | – |
| `Sums` | the sum of a sequence of numbers: lines of a sale, rows of a ledger, stock movements | – | – |
| `SyncWorkerProofs`, `SyncPipelineProofs`, `LifecycleProofs`, `StockLocksProofs`, `ProductImagesProofs`, `SessionsProofs`, `DevicesAndPagesProofs` | – | theorems about the module they extend; `DevicesAndPagesProofs` has two of these, `DevicePairing` and `CursorPages` | – |
| `SumProofs` | – | lemmas about `Sums`, and that finitely many waiters who all wait contain a cycle | – |

### How the modules fit together

Three abstract specifications state what is promised, and three detailed ones are shown to implement
them:

- `SyncWorker` implements `SaleLedger`: every step of the handlers is a step of the ledger, where a sale
  is covered or not *at the moment it is recorded*, or a stutter. The mapping is the identity on the
  three committed variables. So `SyncPipeline`, which keeps the messages and reduces the database to "recorded or not", and
  `TransactionLifecycle`, which keeps the rows, may take the recording of a sale as one step.
- `StockLocks` implements `StockBook`: the same for the consumer *together with* the HTTP calls, which
  lock nothing in advance and update rows in the order of their own lines. This is why a correction or
  a resolution may be one write action in `TransactionLifecycle`.
- `TransactionLifecycle` implements `SaleAccounts` up to the first write on a stale read: calls that overlap on different
  sales, or on one sale without one of them having decided on an overtaken read, keep the books. The mapping reads the state
  of a sale off its row: disputed while SYNC_CONFLICT, sold while SYNCED and not VOIDED, else voided or
  written off, according to whether its goods came back.

### How PostgreSQL and RabbitMQ are modelled

Both are external; only what the code relies on is there.

- READ COMMITTED: a statement reads committed rows. `FOR UPDATE` locks the row of `Inventory` and then
  that of `Product`; a detail row and a `StockHistory` row take `FOR KEY SHARE` on the `Product` row
  through their foreign key; an `UPDATE` locks the `Inventory` row. `StockLocks` keeps the two rows apart;
  `SyncWorker` has one `lock` for both, because its handlers always take the two together, and
  also the wait for an uncommitted entry of the unique index (`reserved`). A cycle of waiting jobs may
  abort any of its members (`DeadlockVictim`).
- A crash empties the process memory and rolls open transactions back; RabbitMQ requeues what was not
  acknowledged. A broken connection duplicates messages in either direction (`Resend`, `Redeliver`).
- Queues are sets: messages may overtake one another, which requeueing and the retry delays allow.
- Prisma's limit of five seconds for an interactive transaction is `TransactionTimeout`.
- Prisma's `cursor` finds the cursor row among the rows that match; releases differ in what follows when
  it no longer matches, and `CursorPages` allows both answers.

Data is abstracted: amounts are reduced to whether `validateArithmetic` accepts the sale (`Sound`), a
payload hash is the payload, a token or a pairing code is a number or a model value, an image is its type and
a content, times are left out.

## 3. Runs

Bounds are constants of the modules (`Max...`), the sizes of the sets in each cfg, or batches named in
the MC modules.

| Run | Result | Instance and what it shows |
|---|---|---|
| `worker_duplicates` | holds | Three messages: a batch, a repetition of its first sale, and a sale that reuses an `offline_uuid` on another device; products go off sale and back; one crash. The inductive invariant of the proofs, one row per uuid, nothing acknowledged is lost, refusals have a cause, `SaleLedger` is implemented. |
| `worker_faults` | holds | Two messages with sales that lock two products in opposite orders and sales that are refused, the user `system_sync` present or missing, timeouts, deadlocks, failing failure writes and a crash: no overselling, all rollbacks are complete (`StockMatchesLedger`), and under fairness every message is acknowledged. |
| `worker_repeated_line` | **fails** | `NoOversell`: two lines for one product take the stock below zero. |
| `pipeline_delivery` | holds | A batch and a request for one of its uuids with another payload; late or missing confirms, up to two messages, refusals, lost failure rows, a crash, a start without the broker: what was answered 200 is recorded, failed or on its way, under fairness traced in the end, both but for the two leaks named below; SYNCED stays SYNCED and what is known stays known. |
| `pipeline_retries` | holds | The batch lands in the DLQ, whose handler may die between two sales or wait in vain for a confirm, and whose failure rows may be lost: nothing else is lost, and all queues drain in the end, after at most `MaxRetries` rounds. |
| `lifecycle` | holds | Two requests at a time beside the consumer, all calls, three rows of sales, cases included: the stock is always its history and a pending sale moves nothing; `SaleAccounts` is implemented until a call writes a sale on a stale read; for every sale not so written, the movements follow the status, the history has all its versions, and the payment is FAILED for a cause. |
| `stock_locks` | holds | Two sales with crossed lines, a correction, a resolution and an adjustment on two products, which go off sale and back or do not exist, statement by statement, with deadlocks and timeouts: `StockBook` is implemented (a sale is deducted only when on sale and covered, parked only when some line is off sale, short or unknown), a call of one line is never a deadlock victim, every job ends. |
| `product_images` | holds | Two calls at a time on two products that compete for two SKUs, three images of two types; uploads, deletes and row updates fail anywhere: the product shows its latest image, names a missing one only between two statements of a call, and leaves no orphans. |
| `sessions_rotation` | holds | Two calls at a time by the tabs of one browser and two users, three tokens; lost replies, expiry, deactivation, crashes: each merchant has exactly one owner, one live token per session, logout is final, the cookie works, and under fairness a session keeps a token. |
| `device_pairing` | holds | Three devices, two tills, two overlapping requests: one till per device, one device per till, removed stays removed, for the devices whose updates did not overlap. |
| `cursor_pages` | holds | Five rows, page sizes 1 and 2, three pages, both lists, read by `next_cursor` and by the last item of each page; rows are created, some in one instant, and change meanwhile. Nothing is skipped, except at most one product per page boundary by `next_cursor`; no row comes twice, except transactions by the last item. |
| `cursor_conventions` | **fails** | `EachRowOnce`, for the transactions read by the last item and the products read by `next_cursor`: the first client gets rows twice, the second misses some. |

The two failing runs are behind the findings in `PROJECT.json`, each with the line of code and the sentence it contradicts:

- `worker_repeated_line`: `checkStockAvailability` compares every line with the whole stock; section 7 of
  `architecture_justification.md` claims that the row lock keeps the stock from becoming negative.
- `cursor_conventions`, products: `next_cursor` is the row that was fetched only to see whether there is a next page, and
  `skip: 1` passes over it. It is on no page; section 12 says that each page goes on from the last index.
- `cursor_conventions`, transactions: `query-transactions.dto.ts:33` calls the cursor the last item of the previous page, but
  `findAll` skips nothing, so that item comes again; with `limit` 1 the walk never gets on.

The opposite ways, the transactions by `next_cursor` and the products by the last item, satisfy `EachRowOnce`.

### What holds only with an exception

Some of what one would like to claim is false of the code, and the properties name the exception instead
of leaving out the behaviour. For several of these the documents of the repository say otherwise, and no failing run is
devoted to them:

| The document says | The code, and the exception below |
|---|---|
| `FRD.md:5`: no transaction is lost or recorded twice | swallowed failure rows and the leaked retry lose one (`Untold`); after a degraded start nothing consumes |
| `architecture_justification.md` section 4: without RabbitMQ synchronization is only delayed | it is delayed until somebody starts the process again (`consuming`) |
| section 5: transient failures are retried, SYNC_FAILED comes only after `MAX_RETRIES` | the batch handler catches every error and writes SYNC_FAILED at once (`RejectedForCause`) |
| section 6: a second payload for one `offline_uuid` is rejected | not while the first is still queued (`validateBatch`) |
| section 7: row locks keep the stock from becoming negative | not where a sale repeats a product, nor with `adjustStock` |
| NFR-REL-02: no inconsistent stock from races | two corrections or two resolutions that overlap both move the stock (`raced`) |

In detail:

- Stale reads. `devices.service`, `transactions.service` and `products.service` decide on a read and write later by id
  alone. `raced` (with `stale`, or with the snapshot `seen` in `DevicePairing`) is an auxiliary variable that no action
  reads: the rows that were written by a call which another one had overtaken. The properties speak of the
  other rows; only `StockIsHistory` and `PendingMovesNothing` are about the raced ones too. For these the models do reach two corrections
  of one sale, two resolutions that deduct twice, two open cases, two verdicts for one case, two tills on one code, and a
  removed device that becomes PAIRED. (So there is no property of one open case per sale: without an overlap it would only repeat the
  guard, and with one it is false.)
- `torn` and `littered` in `ProductImages` are the products a call left half way, or two overlapping calls left
  with each other's image. The next call with an image that succeeds by itself clears `torn`; nothing
  ever deletes what is `littered`.
- Void, then resolve. `voidTransaction` leaves SYNC_CONFLICT in place and `resolveConflict` looks at nothing
  else, so a voided sale in conflict may still be confirmed, also without any overlap. `SaleAccounts` therefore
  counts every sale in conflict as disputed.
- `Leaked` in `SyncPipeline`: `publishToRetry` swallows a missing confirm, so the DLQ message is acknowledged
  while the sale is only in the buffer, and a crash then loses it.
- `dropped` in `SyncPipeline`: `handleFailure` and `recordTerminalFailure` catch the error of their own insert, log it, and the
  message is acknowledged all the same, so the sale is in no table and no queue. `Untold` is this or `Leaked`;
  `AcceptedNotLost` and `AcceptedIsTraced` except exactly these two.
- A process that starts while RabbitMQ is away accepts sales and consumes none until it is started again:
  `AcceptedIsTraced` excepts it, `AcceptedNotLost` does not.
- `AckedMeansRecorded` is checked where the insert of a failure succeeds, and is about known devices: a
  sale whose device is unknown, which the foreign key refuses in both tables, is acknowledged and leaves no trace.
- `RejectedForCause` is checked in `worker_duplicates`, where nothing times out and every sale locks its
  products in one order. It is false in the instance of `worker_faults`: the victim of a deadlock or a
  timeout is recorded SYNC_FAILED and not retried, and without a `system_sync` user every sale that the stock covers ends the same way.
  Nothing in the code orders the lines of a sale. Even with ordered lines a deadlock is possible when an
  `offline_uuid` comes back on another device with other products: one handler has found its first product short, so it
  has locked no more, has its header in, and waits with its detail row for the product the other has locked, while the other waits for
  the index entry of the uuid.
- `StatusHolds` lets FAILED become SYNCED: the sale that failed under one message may be recorded under its copy.
- `validateBatch` compares with committed rows only: two payloads of one uuid that are both
  still queued are both accepted; the second is skipped (`OneRowPerUuid`).
- `LogoutIsFinal` is about logouts that deleted a token: one that meets a refresh between its delete and its
  create finds nothing, answers success, and the session goes on.
- `CookieWorks` is about browsers that got their last reply. After a lost one the cookie names a deleted
  token until the next login. A `create` that fails in `refresh` is a `Crash` there: the client has got an error and a dead cookie.
- `adjustStock` checks a stock it read before; the increment may take it below zero. `StockIsHistory` holds, and `StockBook`
  makes adjustments unconditional: no property speaks against it.
- `NoneSkipped` lets the products by `next_cursor` lose one row per page boundary and no more, and `NoneTwice` leaves out the
  transactions by the last item; `EachRowOnce` is the property without these exceptions, and fails.
  Rows with equal `created_at` have no defined order, and a cursor row that left the filter may end the walk;
  all three exempt the former, and `NoneSkipped` and `EachRowOnce` the latter.

### Why the bounds are enough

The races need two actors that meet on one row, so two or three messages,
two requests and two products give every pair of steps in every order; three messages also allow a
waiter behind a waiter, and the five jobs of `stock_locks` a cycle of three. One crash at every point covers each
single interruption; the state after it has no memory of the crash, so a second one would repeat it
(`Sessions` has no bound on crashes). Three rows, of sales and cases together, hold a sale, its correction and one more version or a case about
either, or two sales and a case; one product is enough there, since `StockLocks` has the locks on several. Three tokens are a login and two rotations, or two sessions that share a browser;
a third request could only repeat what one of two has done, because the token row is decided by whoever deletes it first.
Two image types and three files give an upload that overwrites and one that does not. Five rows are two
page boundaries with page size two, and four pages would only repeat the step from one boundary to the next.
The code's retry limit
is three; `pipeline_retries` uses one round, because the counter is only compared with the limit and each round
passes the same states. `CHECK_DEADLOCK FALSE` is set where the bounds, not the system, end the
behaviour; the worker, the pipeline and `StockLocks` have an explicit `Terminating` step instead and their runs check
deadlock. Symmetry is used only where there is no liveness property.

## 4. Fairness

`SyncWorker!FairSpec` has weak fairness for each handler: Node runs a callback that is ready, and
PostgreSQL wakes a waiter whose lock is free and breaks a deadlock. A handler that waits is not enabled,
so nothing is assumed of it. `SyncPipeline!FairSpec` has weak fairness for the consumers and for the
broker as a whole; no request, timeout, refusal, dead-lettering or crash is fair. `StockLocks!Spec` has weak
fairness for the statements of each job, with the same reasons as the worker; a job that waits is only helped by the end
of another or by the deadlock detection, and no timeout is fair. `Sessions!FairSpec`
lets a refresh that has begun run its next statement; a client never has to call anything. Crashes are
bounded in the worker and the pipeline, which amounts to assuming that the process stays up long enough in the
end; in `Sessions` they are not, and `SessionKept` names the sessions they break.

## 5. Proofs

Every theorem below is checked by TLAPS to its last leaf, for every value of the constants: any number of
messages, sales, products, requests, tokens and crashes, any subset of the calls and faults. "Run" names
the run that checks the same property on an instance; `worker_duplicates` also checks the inductive invariant itself.

| Theorem | States | Assumes | Run |
|---|---|---|---|
| `WorkerInductive` | `[]Inductive` of `SyncWorker` | `DistinctLines` | `worker_duplicates` |
| `WorkerNeverOversells` | `[]NoOversell` | `DistinctLines` | `worker_faults` |
| `WorkerRecordsOnce` | `[]OneRowPerUuid` | – | `worker_duplicates` |
| `WorkerStockMatches` | `[]StockMatchesLedger` | – | `worker_faults` |
| `WorkerRecordsAcked` | `[]AckedMeansRecorded` | `"failure write" \notin Faults` | `worker_duplicates` |
| `WorkerKeepsLedger` | `Spec => ImplementsSaleLedger` | `DistinctLines` | `worker_duplicates` |
| `WorkerNeverStuck` | `[]SomeoneCanGoOn`: while a message is unacknowledged, some handler waits for nobody or is in a cycle that PostgreSQL breaks | `IsFiniteSet(Message)` | – |
| `PipelineInvariant`, `PipelineTyped` | the inductive invariant, `[]TypeOK` of `SyncPipeline` | – | `pipeline_retries` |
| `PipelineKeepsAccepted` | `[]AcceptedNotLost` | – | `pipeline_delivery` |
| `LifecycleInvariant`, `LifecycleTyped` | the inductive invariant, `[]TypeOK` of `TransactionLifecycle` | – | `lifecycle` |
| `LifecyclePending`, `LifecycleStock`, `LifecycleFailed` | `[]PendingMovesNothing`, `[]StockFollowsStatus`, `[]FailedForCause` | – | `lifecycle` |
| `LifecycleHistory`, `LifecycleVersions` | `[]StockIsHistory`, `[]HistoryIsComplete` | – | `lifecycle` |
| `LifecycleBooks` | `Spec => ImplementsSaleAccounts` | – | `lifecycle` |
| `LocksInvariant` | the inductive invariant of `StockLocks` | – | – |
| `SingleLineJobsFinish` | `[]SingleLineNeverFails` | – | `stock_locks` |
| `LocksKeepBook` | `Spec => ImplementsStockBook` | `DistinctLines` | `stock_locks` |
| `LocksNeverStuck` | `[]SomeoneCanGoOn`, the same for the jobs of `StockLocks` | `IsFiniteSet(Job)` | – |
| `ImagesInvariant` | the inductive invariant of `ProductImages` | – | – |
| `ImagesShowLatest`, `ImagesNamedAreStored`, `ImagesLeaveNoOrphans` | `[]ShowsLatest`, `[]NamedIsStored`, `[]NoOrphans` | – | `product_images` |
| `SessionsInvariant`, `SessionsTyped` | the inductive invariant, `[]TypeOK` of `Sessions` | – | – |
| `SessionsOwners`, `SessionsOneToken`, `SessionsLogout`, `SessionsCookie` | `[]NoOwnerlessMerchant`, `[]OneLiveToken`, `[]LogoutIsFinal`, `[]CookieWorks` | – | `sessions_rotation` |
| `PairingInvariant`, `PairingTyped` | the inductive invariant, `[]TypeOK` of `DevicePairing` | – | `device_pairing` |
| `PairingOneTill`, `PairingOneDevice`, `PairingRevoked` | `[]OneTillPerDevice`, `[]OneDevicePerTill`, `[]RevokedStaysRevoked` | – | `device_pairing` |
| `PagesInvariant` | the inductive invariant of `CursorPages` | – | – |
| `PagesNoneTwice`, `PagesNoneSkipped` | `[]NoneTwice`, `[]NoneSkipped` of `CursorPages` | – | `cursor_pages` |

### Assumptions

Each module names what it assumes of its constants, and TLC evaluates it in every run: their types, that a sale
has a line and a positive quantity (the DTO demands it), and that the value `None` is none of the
values it stands beside. Beyond these:

- `DistinctLines`, that no sale names a product twice. Nothing in the code demands it; without it `NoOversell`, and with it
  the refinements, are false (`worker_repeated_line`). What does not depend on it is proved without it.
- `WorkerRecordsAcked` needs the insert of `handleFailure` to succeed, because its error is swallowed. `PipelineKeepsAccepted`
  does without: what is lost in this way is in `dropped`.
- `IsFiniteSet` of the messages or jobs: an infinite chain of waiters needs no cycle.

### The arguments

*SyncWorker.* `NoOversell` is not inductive: that the check of a line still holds when the line is deducted depends on
the lock in between. `Inductive` says so: only open transactions hold locks (`HeldInTransaction`); each line
that is checked and not yet deducted is locked by its handler and covered by the stock left after what
the handler has taken (`CheckedIsBacked`); what is taken is locked and covered (`TakenIsLocked`). With
distinct lines a handler that deducts one line leaves the backing of its other lines alone, and another
handler cannot touch a locked product. For the refinement, `Judged` adds that a product found active or a line found
short still is at the commit. Three more invariants do without `DistinctLines`, as nobody's check matters to them:
`Counting` (what a transaction has taken is the sum of the lines behind `pos`, so that each commit takes exactly the
demand of its row), `Recording` (from the insert to the commit a handler owns the index entry of its uuid, and no
committed row has it) and `Walking` (the sales before `idx` have left a trace).

For `WorkerNeverStuck`, `Holders` says that whoever has a lock or an index entry is inside its
transaction, so that whoever is waited for still has something to do; if all of them wait, `WaitingCycle` (`SumProofs`, from a least
set of waiters closed under waiting) finds a set in which everyone waits and is waited for, which is `InDeadlock`, and
`DeadlockVictim` is possible. `LocksNeverStuck` is the same argument over `Position`. `CanGoOn` spells out the guards of the
statements, because the provers know no `ENABLED`; with weak fairness it is the safety half of `EveryMessageAcked` and
`EveryJobEnds`.

*SyncPipeline.* That an accepted sale is not lost does not survive a single step by itself: the message that owes
it may be a copy in the wrapper's buffer, which a crash drops. `BrokerKeeps` accounts for the sales of every
unconfirmed message with a message *of no fewer attempts* outside the buffer; counting attempts is what keeps a DLQ message from being its
own retry's excuse. A sale whose turn is over has a row or is in `dropped`. `RetryWaits` and `BusyWaits` tie each DLQ handler that waits to the one retry it waits for.

*TransactionLifecycle.* `Fresh` says what a call that was not overtaken knows still holds, `Settled` which combinations of
status, sync_status, movements, cases and corrections a sale that was not raced may have. Every write of a fresh call starts
from one such combination and ends in another; a stale call puts its sale into `raced`. `PendingMovesNothing` and `StockIsHistory` need no
such exception. `HistoryIsComplete` needs `Chains`: corrections lead to younger rows, so that both walks of
`getTransactionHistory` end, and only a raced sale has two successors. `LifecycleBooks` goes through the writes once more: as long as
nothing is raced every request is fresh when it writes, or makes `raced'` nonempty, and each write is one step of the books.

*StockLocks.* `Position` (a job holds the Inventory row of all its finished statements but the references, and nothing before its second
statement), `Moved` (its uncommitted change is the sum of its finished updates), `Behind` and `Parking` (a line found on sale and
covered still is, and a sale in conflict has a line that is unknown, or off sale or short still, since its two rows are locked) and `InventoryFirst` (who holds a Product row FOR UPDATE holds its Inventory
row). A job of one update waits at its update with nothing held, and at its reference for a holder of
the Inventory row, which is itself: no cycle passes through it.

*ProductImages, Sessions, DevicePairing.* For each the invariant says, call by call, what the value a call remembers has to do with
the rows now: the object a call has stored or is to delete; the token a refresh has deleted, which
no other call can delete again, so that only one create follows; the device a pairing has found.

*CursorPages.* `BeforeCursor`: a row that was returned, and is no row of one instant, comes before the cursor, or is the cursor
itself when the client passes the last item, and was returned once unless the walk repeats its cursor rows (`Repeats`). Each page starts at the
cursor and the products pass over it, so it returns none of these; this is `NoneTwice`. `FewBehind` counts the rows that matched all along, come before the
cursor and were not returned: a page adds none to them, unless the products pass over a cursor row that was not returned, as
`next_cursor` never is (`Skips`). When the walk ends nothing lies beyond it, and these rows are the missed ones, which gives `NoneSkipped`.

*Sums.* The sums of the models are recursive functions on the naturals. The induction theorems of the library take an operator as
a parameter and cannot be used; `SumProofs` proves that the recursion has a solution, its step and the sums of concatenations, pairs and changed elements by
the least counterexample (`LeastNatural`). `LifecycleProofs` does the same for the two walks of the history.

What the proofs changed in the models: `SaleAccounts` lets the write-off of an empty sale void it, as
`ResolveInvalid` does; `StockBook` asks for cover only where a sale takes something; `SingleLineNeverFails` is about
jobs of one update and no detail row, because a correction that only adds a line can be a deadlock victim (its
detail row comes first); the sums are functions instead of folds.

### Only model-checked

- Liveness (`EveryMessageAcked`, `AcceptedIsTraced`, `QueuesDrain`, `SessionKept`, `EveryJobEnds`): outside the
  prover's reach.
- `RejectedForCause`: whether a good sale is refused depends on the order in which sales name their products, of which the code
  guarantees nothing; a theorem would have to assume just what excludes the refusal, so the run shows it for its batches and no more.
- `StatusHolds`: for every size it would follow from the two tables only growing.

## 6. Not modelled

- Amounts: `validateArithmetic` computes with floating point; the model only has its verdict.
- Names, prices and categories of products: a sale carries its own names and prices.
- The answer of `adjustStock`, which joins reads of three moments; no row depends on it.
- `uploadProfilePhoto`, which nothing calls, and the lists without cursor, `findOne` and the other calls that only read.
- Merchants and health: one read each. Guards, filters, interceptors and the logger refuse or decorate
  a request and keep no state. DTO validation is in the choice of inputs.
- Passwords, the signing of access tokens, error formatting, seeds, load tests and scripts.
- Fields nothing writes (`DeviceSyncLog`, `Inventory.reserved`).

## 7. Plan

Every invariant and refinement that a passing run checks has its theorem, apart from `RejectedForCause`; liveness has its
runs and, where handlers or jobs wait for one another, `WorkerNeverStuck` and `LocksNeverStuck`. What would come next:

1. Should `handleFailure` and `recordTerminalFailure` let their error out, so that the message is delivered again, `dropped` can go,
   and `AcceptedNotLost` holds with the leaked retry as the only exception.
2. Should the code sort the lines of a sale before it locks them, and leave deadlock victims and timeouts to a redelivery,
   `RejectedForCause` becomes a property of `worker_faults` and can be proved.
3. Should `voidTransaction`, `resolveConflict`, `pairDevice` and `reconcile` decide inside their update (a `WHERE` on the state they read),
   `raced` and `stale` can go, and the properties hold without their exception.
4. Should the lists return the last item as `next_cursor` and both skip it, `cursor_conventions` holds and `NoneSkipped` and `NoneTwice` lose
   their exceptions.
