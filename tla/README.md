# Acropora OS: the stock protocol in TLA+

Acropora OS is the operations system of a Hungarian aquarium business: a NestJS
API over PostgreSQL (`apps/api`), a Next.js office front end (`apps/web`), an
Expo field app (`apps/mobile`) and a few smaller sites. This directory holds
TLA+ models of the part of it where a mistake is expensive and hard to test: the
stock ledger, the queue that publishes stock to the UNAS webshop, the mirror of
the webshop's orders, the stock held for projects, and the queue of the
technicians' phones. TLC checks the models on small instances; TLAPS proves every
safety property the passing runs check, and both refinements, for every instance;
one refinement (`LedgerRefined`) has a condition, stated with it. Liveness is left to
TLC.

Where the code does not keep a promise, the property names the exception exactly
(a call that has outlived its lease, a deadlock's victim, an order a page passed over),
usually with a history variable that no action reads. Each such exception is needed:
TLC refutes the property without it, as the sections below say.

Run everything inside this directory; a configuration belongs to the MC module of
its component, a proof module stands alone:

    tlc -config OutboxOneWorker.cfg MCStockSyncOutbox.tla
    tlc -config PostingBusy.cfg     MCStockPosting.tla
    tlc -config OrdersCalls.cfg     MCUnasOrderSync.tla
    tlc -config HoldsInvoices.cfg   MCProjectHolds.tla
    tlc -config HandoffPlan.cfg     MCHandoffPlan.tla
    tlc -config OfflineQueue.cfg    MCOfflineQueue.tla
    tlapm ProjectHoldsProofs.tla

| Modules | Are |
|---|---|
| `StockSyncOutbox`, `ShopMirror`, `MCStockSyncOutbox`, `StockSyncOutboxProofs` | the publishing queue, what it promises, its instances, its theorems |
| `StockPosting`, `StockLedger`, `MCStockPosting`, `StockPostingProofs` | the transactions that post stock, what they promise, their instances, their theorems |
| `UnasOrderSync`, `MCUnasOrderSync`, `UnasOrderSyncProofs` | the mirror of UNAS's orders: incremental runs, refreshes, the deletion worker |
| `ProjectHolds`, `HandoffShares`, `MCProjectHolds`, `ProjectHoldsProofs` | stock held for projects, with the invoices and quotes that hold it |
| `FiniteSums`, `HandoffSharesProofs` | lemmas: sums over finite sets, and what the shares of a quote add up to |
| `HandoffPlan`, `MCHandoffPlan`, `HandoffPlanProofs` | the greedy loop that plans a handoff, against the shares `ProjectHolds` uses |
| `OfflineQueue`, `MCOfflineQueue`, `OfflineQueueProofs` | the queue of a technician's phone |

## Inventory

Paths below are under `apps/api/src` unless they say otherwise.

| Component | State | Operations | Hard behaviour | What makes it correct |
|---|---|---|---|---|
| Stock writer `common/inventory-movement-writer.ts` | `StockItem`, `StockMovement(Line)` | `postInventoryMovement`, `enqueueStockSyncOutboxEntry` | concurrent postings of several lines in transactions of different isolation levels; repeated requests; rows that do not exist yet | no lost update, no double booking, no deadlock, stock = sum of movements |
| Stock-sync outbox `inventory/unas-stock-sync-outbox.*` | `UnasStockSyncOutbox`, `ProductVariant.unasReportedStock` | claim, publish, close, retry, dead-letter, manual retry | overlapping workers, leases, crashes, lost replies, queue order | the shop converges to a level of the ledger, an older level replaces a newer one only between overlapping calls, an invented level never goes out |
| UNAS order sync `orders/unas-order-sync` | `SalesOrder`, its movements | import, update, cancel, delete, restore | the same order seen twice at once, keys reused after a deletion, partial refunds | booked quantity = ordered quantity, every change booked once |
| Project reservations `purchasing` and purchase invoices | `ProjectInventoryReservation`, `StockItem.reserved`, invoices | receipt with holds, release, project close, invoice cancel | release racing close, cancel after a part was used | reserved = sum of active holds, one release per hold |
| Inventory count `inventory/inventory-count.repository.ts` | `InventoryCount`, its lines | upload, recheck, apply, finalize | stock moving between count and apply | a count books the difference to what was counted, once |
| Stock reconciliation and repair `inventory/stock-reconciliation*` | `StockReconciliationRepair` | compare, repair the row from the ledger, republish | repeated requests, stale before-values | a repair is applied at most once per state and never when the state has moved |
| POS `pos`, mortality log `mortality`, billing issue/storno `billing` | their documents | each posts through the stock writer | repeated requests | one movement per document state |
| UNAS import and client `imports/unas` | product snapshots, auth token | sync, diff, apply, HTTP with retries | rate limits, expired login | catalogue equals the last applied snapshot |
| Medusa projection `integrations/medusa` | projection links, due times | due scan, project, inventory sync | partial failures, retries | the projected product equals the source |
| Settlements and connectors `integrations/{foxpost,gls,simplepay,szamlazz,nav,ebiz}` | settlement rows, poll positions | poll mail or service, parse, match | repeats and gaps in a feed | every settlement once |
| Billing, paid marks, missing invoices `billing`, `missing-invoices` | documents, marks, bank rows | issue, storno, mark, match | issue answered late by the provider | one invoice per document |
| Mail and push `notifications` | mail outbox, device tokens | queue, send, retry | send failing half way | every mail at most once per attempt record |
| Quotes `quotes` | quote versions, links | edit, publish, accept, expire | acceptance racing a new version | the accepted version is the published one |
| Service jobs, worksheets `service-jobs`, `worksheets` | jobs, sheets | status transitions, signing | two people on one sheet | closed sheets do not change |
| Mobile offline queue `apps/mobile/src/lib/offline` | queued writes on the device | save or queue, drain, resend, discard | connection loss in the middle of a drain | each queued write reaches the server, in order |
| Rest: catalogue, customers, auth, content, messages, front ends, shared packages, database schema | tables | create, read, update, delete | none of protocol nature | |

How they meet: every flow that changes stock calls the stock writer inside its
own database transaction; the writer updates `StockItem` and, for products the
UNAS catalogue owns, appends an outbox row in the same transaction. The outbox
worker, in any API process, claims rows in transactions of its own, reads
`StockItem` again and calls UNAS between them. UNAS orders come back through the
order sync, which posts through the writer. Reconciliation compares `StockItem`,
the movements and the snapshot the worker stored.

## Plan

1. `StockSyncOutbox` with the abstract `ShopMirror` and its proofs. *Done.*
2. `StockPosting`: the writer's transactions statement by statement, with
   snapshots, advisory locks and two isolation levels, against the abstract
   `StockLedger`. *Done.*
3. `UnasOrderSync`: sightings, deltas from the ledger, cancel, delete, restore, key
   reuse. *Done, without the invoice mirror and the customer links.*
4. `ProjectHolds` with the invoices and quote handoffs that create holds, and
   `HandoffPlan`. *Done.*
5. `OfflineQueue`, the mobile queue. *Done.*
6. Left: reconciliation and its repairs, the inventory count's upload and recheck,
   the mortality log, the mail outbox, the Medusa due queue, the rest of quotes.
7. Proofs of the safety properties and of both refinements. *Done.* Of what the
   modules above promise only liveness is without a proof.

## StockSyncOutbox

`StockSyncOutbox.tla` is the protocol of
`inventory/unas-stock-sync-outbox.{repository,service,scheduler}.ts` together
with the enqueue of `common/inventory-movement-writer.ts`.

**State.** A *pool* is a (variant, warehouse) pair of a UNAS-owned product. The
number `stock[p]` counts the movements of the pool: the protocol never does
arithmetic on quantities, it only has to tell older from newer, and two
different levels must not be confused because their quantities coincide.
`outbox` is the table, by `sequence`; a row keeps the columns that decide
anything (status, the marker in `resolutionNote`, attempts, whether
`nextAttemptAt` has passed, whether the lease is absent, live or expired).
`workerVars` are the local variables of a running `processClaimedRows`: the rows
left, the row in hand, the token, the quantity read, the time stamp.

Rows, supersession and stock are per pool, but the outside is not: `setStock` sends a
SKU and a quantity (`unas-stock-sync-outbox.service.ts:386-391`) and the snapshot is
stored by `variantId` (`unas-stock-sync-outbox.repository.ts:296-308`). So `shop`,
what UNAS shows, and `reported`, the snapshot with its stamp, hold one number per
variant, remembered with the pool it came `from`.

History, read by no guard: `verified`, the pools that started with a known quantity or
were released by an admin; `sent`, the newest level of a pool ever given to UNAS;
`overtaken`, the calls between their read and their answer whose pool another call has
published meanwhile; `lateMarks`, the rows marked by a call whose lease was over.

**Actions.** `PostMovement` is one committed posting of one line. `ProcessBatch`
and `ProcessForUnasOrder` are the two claims. `CloseSuperseded`, `ClosePackage`,
`CloseUnmapped` and `StartRow` are the four ways `processOne` goes on after its
first queries; `GetToken`, `ReadStock`, `UnasApplies`, `SetStockReturns`,
`MarkSucceeded` are the publish, each a separate step because other actors move
between them. `SetStockFails` covers a refused call and a lost reply;
`MarkSucceededFails` the transaction inside the `try` failing after the publish;
`HandleFailure` the `catch` block; `AbandonBatch` a dead process or an error that
escapes `processOne` (a failed login). `LeaseExpires` and `BackoffElapses` are
time; `ManualRetry` is the admin.

Two decisions need a word. Time: a lease is "live" or "expired", and it may
expire under a live worker once that worker has started more than `LeaseCalls`
calls of `setStock` since its claim (`Late`). The code writes one lease per batch and
renews it never: 120 s for 20 calls of up to about 110 s each, so `LeaseCalls` is 1
and `BatchSize` is larger. Stamps: `publishedAt` values are only ever compared while
some call waits to store one, so the clock returns to zero when nobody does, which
keeps the state space finite without a bound.

**Abstract specification.** `ShopMirror` says what the queue is for: the shop shows a
level of one warehouse of the variant, the one published last; it may lag and skip
levels, never shows a level of an unverified pool, and never goes back to an older
level of a pool, except that of two publishers at work at the same time the one who
read first may come second (`PublishLate`). `MirrorSpec` is that specification of the
outbox's `stock`, `sent`, `shop` and `verified`.

**Two warehouses.** What the shop shows after both warehouses of a variant have moved
is the stock of the one published last, not their sum. `docs/INVENTORY-CONSISTENCY.md:521-531`
says that UNAS has one warehouse-agnostic number and compares it with the sum over
warehouses; with stock in two of them the publish and that comparison disagree. The
model has it as the code has it: `Converges` and `PublishedIsCurrent` promise the level
of the warehouse shown, and nothing about the others.

### Runs

All configurations set `CHECK_DEADLOCK FALSE`: with every row settled and the
bounds used up the real system idles too.

| Run | Instance | Shows |
|---|---|---|
| `outbox_two_workers` | 1 variant in 2 warehouses, 2 overlapping calls (one may be an order's), batch of 2, lease of 1 call, 2 rows, 2 attempts | `TypeOK`, `ExclusiveUntilLate`, `ReopenedOnlyLate`, `PublishedIsCurrent`, `MirrorSpec` |
| `outbox_one_worker` | 4 pools (2 warehouses of one variant, an unmapped variant, a package), the scheduler alone, batch and lease of 2, 2 rows, 1 fault, 1 manual retry; with fairness | `UnverifiedNeverPublished`, `EveryRowSettles`, `Converges` |
| `outbox_supersede` | 1 pool, 1 call | violated: `EnqueueClosesOlderRows` |

The bounds: two calls are the fewest that overlap, and with a lease that outlasts one
call of a batch of two the second row of a batch is in hand without a lease, is claimed
again, and is marked twice. Two rows are the fewest of which one supersedes the other
or which are of two warehouses. Two attempts separate "try again" from "give up";
crashes are left to the other run, a lost reply is in both. In `outbox_one_worker` one fault and one
manual retry let a crash and a revival happen at any point. Worker symmetry is used
only where the specification has no fairness and no property names a worker.

`outbox_supersede` is a disagreement between the code and what it says of itself:
`resolutionNote: { not: marker }` becomes `<>` in SQL, which no NULL note satisfies,
so a posting closes no ordinary open row. The second line of defence,
`isSuperseded`, makes up for it within a call: `PublishedIsCurrent` holds all the same.

The exceptions in the properties are what TLC finds without them, each with the
constants of `OutboxTwoWorkers.cfg` and the property added or stripped:
* `ExclusiveClaim` (`ExclusiveUntilLate` with no exception): the lease of a batch runs out
  under its worker and a second call claims the rows it still holds, while
  `unas-stock-sync-outbox.service.ts:84-86` takes it to outlast the work. That one of
  the two calls is late is not enough either: the late call marks a row the other has
  claimed, a retry makes it claimable, a third claim shares it with a call in time;
  hence `lateMarks`.
* "SUCCEEDED is final" (`ReopenedOnlyLate` with no exception): a call that comes back
  after its lease fails and marks by id alone (`unas-stock-sync-outbox.repository.ts:342`)
  a row that the other call has published.
* `OlderNeverOverwritesNewer`: a call reads the level, an overlapping call publishes a
  newer one, and the old absolute value is sent last.
  `unas-stock-sync-outbox.service.ts:306-307` and `docs/INVENTORY-CONSISTENCY.md:116`
  say otherwise. `MirrorSpec` and `PublishedIsCurrent` therefore except overtaken calls,
  and nothing else: a claim alone, a late mark or an expired lease is no excuse.

**Fairness** (`outbox_one_worker`). The enabled scheduler reschedules itself after
every tick, so its claim is weakly fair; a running call takes its next step
unless it fails; time passes, so leases and backoffs run out. Nothing is assumed
of postings, of the admin, of "run now", nor of a reply ever being good: UNAS may
fail every call, then rows end as `DEAD_LETTER`. Crashes are bounded by
`MaxFaults`; with crashes for ever no queue settles.

### Proofs

`StockSyncOutboxProofs.tla`, for any number of variants, warehouses and overlapping
calls, any batch, lease and budget of attempts: the constants satisfy
`ConfigAssumption` (these numbers are positive, the named sets are subsets),
`ElsewhereAssumption` and `NowhereAssumption`, and nothing else.

* `TypeCorrect`: `Spec => []TypeOK`. The conjunct that needs care is the lease:
  a row has one exactly while it is `PROCESSING`.
* `BaselineHolds`: `Spec => []UnverifiedNeverPublished`. By itself the property is
  not inductive: a step could publish a claimed row of an unverified pool. The
  strengthening `BaselineGuarded` says that every row of an unverified pool is a
  marker, that a tracked unverified pool has one, and that no worker holds a row
  of such a pool. A posting keeps it because an existing marker makes the next
  row a marker and the enqueue does not close markers; a claim keeps it because a
  marker is `DEAD_LETTER`.
* `ClaimsAreExclusive`: `Spec => []ExclusiveUntilLate`. The strengthening `LeaseHeld`
  says that a row no late call has marked is `PROCESSING` under a live lease while a
  call in time holds it, and that there is one such call: a claim cannot take it, and
  only its own call can mark it, the others being late.
* `SettledStaysSettled`: `Spec => ReopenedOnlyLate`, from `LeaseHeld`: a mark falls on a
  `PROCESSING` row, unless the marker is late or a late one was there before.
* `PublishedHolds` and `MirrorRefined`: `Spec => []PublishedIsCurrent` and `Spec =>
  MirrorSpec`. The invariant is `PublishWell`. A call carries no more than the ledger has,
  the ledger's level while its row is the newest, and no less than what has been sent of
  the pool unless it was overtaken (`CarriesWell`); the shop and the snapshot hold a level
  of a warehouse of their variant, the newest sent unless the call that wrote it was
  overtaken (`ShopWell`, `ReportedWell`). The snapshot is decided by stamps, which are taken
  when an answer comes, not when the level was read; `StampsWell` says that of two calls
  of a pool the later stamp carries no older level unless it was overtaken, and `SettledWell` that once the newest
  row of a pool is published every snapshot yet to come with a winning stamp carries its
  level too. `MirrorRefined` takes from `BaselineGuarded` that no unverified level is sent.

The steps of a worker fall into two kinds, `Closes` (marks and drops a row) and
`Carries` (touches neither the queue nor what it holds); lemma `WorkerStep` sorts
them once. `QuietStep` is any step that leaves shop, snapshot and stamps alone.
`EveryRowSettles` and `Converges` are model-checked only: liveness is beyond the prover.

### Left out

The quantity itself (`availableToSell`, decimals, negative stock); the shop's own
decrement when an order is placed there, which the next publish overwrites; a
`setStock` request that the network delivers after its caller has given up; the
feature flag that turns the scheduler off; the text of errors. The `mark*` and
lookup queries of `processOne` are joined to the check before them where nothing
another actor does in between can change the outcome (a newer row never goes
away).

## StockPosting

`StockPosting.tla` is `postInventoryMovement` with `lockVariantWarehouse`
(`common/inventory-movement-writer.ts`), `setStockItemQuantity`
(`common/stock-item-writer.ts`) and `retryOnSerializationConflict`
(`common/transaction-retry.util.ts`), inside the transactions of their callers.
A *job* is one business event; it has the isolation level, the retries and the
postings of its caller. A *request* is one call that wants a job done.

| Caller | Job |
|---|---|
| POS sale, billing issue and storno, mortality log | one posting, READ COMMITTED, one try |
| purchase invoice (receipt, cancellation) | one posting, SERIALIZABLE, one try |
| UNAS order sync | a sale and a return posting in one transaction, SERIALIZABLE, five tries |
| inventory count | SERIALIZABLE, one try; baselines for untracked products before and after at most one posting |

**State.** `items` are the committed `StockItem` rows. A row's id names its pool
and its creator, since a whole-warehouse row has NULL `locationId` and `lotId` and
no unique index keeps two apart. `movements` are the committed idempotency keys.
Each request has a place (`pc`, `posting`, `left`, `attempt`) and a transaction:
its `locks`, its uncommitted `keys` and `writes`, and what its snapshot misses
(`unseen` rows, `changed` rows, `unseenKeys`), which a commit of somebody else adds
to and the end of the transaction empties. `victims` is history: the requests PostgreSQL broke
a deadlock with.

**Actions.** `Begin` is the first statement, which takes the snapshot; `AlreadyPosted`
and `NotYetPosted` are the lookup of the idempotency key; `CreateMovement` and
`CreateMovementFails` the insert with its unique index; `PostLine` one round of the
loop over the sorted lines (lock, `findFirst`, write); `SetBaseline` the count's two
loops over products without a row; `WriteConflicts` a refused write; `Commit`;
`DeadlockVictim`, `TransactionFails` and `FalseConflict` what the database or the
network does to a transaction. A lock and the write after it are one step: until
the transaction ends nobody else reads the row to write it.

**PostgreSQL** is modelled as far as the code depends on it, and is marked external:
statement snapshots under READ COMMITTED, one snapshot per transaction under
SERIALIZABLE, refusal of an update of a row that changed since, refusal of two
serializable transactions that both create the row both found missing, waiting for
an advisory lock and for an uncommitted unique entry, locks and writes that go with
their transaction, and one victim per wait cycle. Which error code a deadlock victim
sees is left open, so it may be retried or not.

**Abstract specification.** `StockLedger` has only quantities and booked events: an
event adds all of its quantities, at once, once, and assumes its baseline only for
pools without a known quantity. `LedgerSpec` says that the committed rows do that.
A lost update, a half-booked order, a sale booked twice and a baseline written over
a movement that was faster are all steps `StockLedger` does not have.

### Runs

| Run | Instance | Shows |
|---|---|---|
| `posting_busy` | 2 products with rows and one without, which the counter's sale and return touch; the sale asked for twice, a return, an order with two postings against the order of products; both isolation levels, 1 fault | `TypeOK`, `OnlyLongOnesCycle`, `OneRowPerLevel`, `RetriesSuffice`, `LedgerSpec` |
| `posting_counts` | 2 products without rows; a count closed twice, a receipt, an order with two postings, all SERIALIZABLE, 1 fault; with fairness | `OneRowPerLevel`, `LedgerSpec`, `EveryRequestEnds` |

They set `CHECK_DEADLOCK FALSE`: when every request is answered nothing is left to
do. Deadlock between transactions is not a deadlock of the specification (the
database resolves it) and is what `OnlyLongOnesCycle` is about; in both runs there are
such cycles.

The bounds: two products are the fewest with a lock order; a second request for one
job is the fewest that repeats it; a reader with a snapshot, a writer that commits
under it and a third that commits in between need three or four requests; one fault
may fall at any point. Quantities differ from job to job so that sums tell which
jobs were booked.

What the code promises without qualification holds up to one case each. The property
names the case, and TLC finds it when it is taken out of the property:
* `OneRowPerLevel` allows a pool a second row where a SERIALIZABLE creator meets a READ
  COMMITTED one. Let the order of `posting_busy` post `<< 2 :> -3, 3 :> 2 >>`, with the
  product that has no row: the order takes its snapshot, waits for the lock while the
  sale creates the first row, does not see it and creates a second. Serializable
  isolation does not help, since the sale is not serializable.
  `docs/INVENTORY-CONSISTENCY.md:66-75` and `inventory-movement-writer.ts:206-209` say
  there is one.
* `OnlyLongOnesCycle` allows a circle of waiting transactions with a count in it, or with
  one in its second posting. The order of `posting_busy` gives one product back and takes
  another, next to a sale of both: lines are sorted within a posting, not across
  postings, and `inventory-movement-writer.ts:321-325` promises more.
* `RetriesSuffice` speaks of requests that were no deadlock's victim (`victims`): a victim
  uses up a try without anybody having committed, and the same two can meet again.

**Fairness** (`posting_counts`). A running transaction goes on, PostgreSQL ends a wait
cycle after `deadlock_timeout`, and a retry follows its delay. No request has to
arrive. Timeouts, crashes and false conflicts are bounded by `MaxFaults`.

### Proofs

`StockPostingProofs.tla`, for every choice of pools, jobs, postings and requests that
satisfies `JobAssumption` (types, finitely many pools and requests), `CountAssumption` (what a
count posts it has counted) and `CreatorAssumption`:

* `TypeCorrect`: `Spec => []TypeOK`. Its conjunct `AtRest` says that no lock, key or
  write outlives its transaction.
* `OneRow`: `Spec => []OneRowPerLevel`. The strengthening `RowInv` says in addition that
  locks are exclusive, that what a request has written adds no further exception to what
  is committed, and that a snapshot misses only rows that requests created. A new row is safe because the lookup saw none; the only row it
  can have missed was committed after its snapshot, by a serializable creator, and then
  the write is refused (`CreatesFirst`), or by one of the other level, which is the
  exception. A commit is safe because the rows it publishes are of pools nobody else has
  locked (`CommitRows`).
* `NoCircle`: `Spec => []OnlyLongOnesCycle`. The strengthening `OrderInv` says that a
  request that is not `Long` checks and registers its key with nothing in hand, and then
  holds only pools below those it still needs. In a wait cycle of such requests the pools
  waited for would rise without end; `HasMaximum` says that finitely many cannot.
* `LedgerRefined`: `Spec => LedgerSpec`, if the callers that may create a pool's first row
  have one isolation level (`FirstRowsAgree`); this is a real restriction, the first
  exception above, and the counter's sales next to the order sync do not meet it for a
  product without a row. A commit is one event
  of `StockLedger` and every other step a stutter. The invariant is `LedgerInv`, which
  joins `SoleRows` (`RowInv`, and one row per pool) with two more parts. `KeysInv` is about repetition: the committed keys
  are those of the jobs done, all of each; no two transactions hold a key; a snapshot
  misses all keys of a job or none, so a replay passes over all of its postings or over
  none (`Replays`). `BooksOK` is about quantities: an uncommitted row says the committed
  level, plus the baseline a count assumed, plus the postings the request has applied to
  that pool so far (`WritesAddUp`), and everything a posting reached is written. It is
  also what makes a lost update impossible: the committed level in it is today's, not the
  snapshot's, because a write to a changed row is refused. Without `FirstRowsAgree` a pool
  may have two rows, of which `StockLedger` would have to see the sum and the code
  sees one.
* `RetriesEnough`: `Spec => []RetriesSuffice`, for jobs of any number of postings and next
  to counts. The invariant `RetryInv` counts: each attempt of a caller that is alone with
  its job and was no deadlock's victim, but for the one nobody has overtaken yet, has
  seen another request commit, and that is at most all the others.

Every step is one of four kinds, `GoesOn`, `Writes`, `Ends` and `Commit`; lemma
`StepKinds` sorts them and most of the work is done for the kinds.
`EveryRequestEnds` is model-checked only.

### Left out

The outbox row that a posting appends is `StockSyncOutbox`'s `PostMovement`. The
movement number and its collision retry, two lines of one product in one posting
(callers add them up first), the reservation column and the callers' own rows. The
order sync's lock on the order (`lockUnasOrder`) is left out, so two requests for one
order meet at the key instead: the model has more interleavings than the code.

## UnasOrderSync

`UnasOrderSync.tla` is `apps/api/src/orders/unas-order-sync`: the incremental run, the
refresh of one order, and the worker that looks for orders UNAS has deleted.

**State.** UNAS's orders (`shop`) have an Id that is never used again, a Key that may
be, a state, a quantity and the time of their last change. The mirror is kept by Key,
because `orderNumber` is `UNAS-<Key>`: `status`, `lines`, `deletedAt`, `externalId` and
`booked`, the net quantity its movements took from stock. The code finds what to book
by adding the movements it posted for the order, generation by generation; `booked` is
that sum. `cursor`, `active`, `started` are `UnasOrderSyncRun`. `step` and the variables
next to it are what a caller holds between two awaits: its window and page, the answer
it received, whom the deletion worker's lease covers.

**Actions.** `Place`, `Change` and `Delete` happen in UNAS, `Tick` is the clock.
`ReadCursor`, `CreateRun` (which takes over a stale run) or `AlreadyRunning`,
`DownloadPage` once per page, `Apply` or `ApplyRefused`, `RunFails` and `Crash` are
an incremental run; all pages are fetched before the one transaction that applies
them. `Refresh` and `Claim` begin a lookup by Key; `Found`, `NotFound`,
`FalseNotFound` are UNAS's answer and `Return` its arrival; `ApplyRefresh` (or
`KeyMismatch`), `StillExists`, `ReconcileDeletedOrder`, `LookupFails` and `LookupDies`
end it. A transaction is one step: it is SERIALIZABLE and retried as a whole. What
can go wrong lies between the fetch and the transaction.

**Time** is discrete and windows include both ends, as the query of UNAS does.
`MaxFlight` bounds the time between UNAS's answer to a lookup and the end of the
transaction that applies it, and may exceed the overlap; a run is not bounded by it, and
one that has been downloading for longer than `StaleAfter` may be taken over.

**History.** What the sync may lose is kept in two variables no guard reads. `skipped` is,
per run, the orders its pages passed without showing them: pages are cut by offset, so
when an order leaves the window between two pages, those behind it move up past the
cut (`MovesUp`). `behind` is the orders whose last change a run or a lookup has let pass
for good: a run that applies without a skipped order, or a lookup whose answer was old
already when the cursor went by (`Overtaken`). An order leaves `behind` when UNAS changes
it again or an answer that shows it is applied.

### Runs

Both check deadlock.

| Run | Instance | Shows |
|---|---|---|
| `orders_calls` | one order, a poller, a clerk, a checker, clock to 3, two changes, one fault; with fairness | `TypeOK`, `BookedIsOrdered`, `Converges`, `DeletedGivesBack` |
| `orders_reuse` | two orders that hold one Key in turn, the first mirrored before Ids were stored, and a third under its own Key; pages of one order, lookups' answers up to twice the overlap old; two pollers, a clerk, a checker, 1 fault | `BookedIsOrdered`, `SettledBehindOverlap`, `NeverResurrected` |

One order is enough for the answers of three callers to overtake each other; two
changes are a cancellation and its undoing, or a change and a deletion. Two orders
under one Key are the fewest that reuse it, and with pages of one order the third is the
fewest that is passed over. `orders_reuse` has the constraint `InPairs`: two runs at a
time, or one run next to lookups; a fault, or the third order, only where no lookup is
under way and the Key is not reused; faults only without the third order. Without it
the run does not end in useful time. Faults next to lookups are in `orders_calls`, and
the theorems below need no such bound. Pollers are symmetric since it checks no liveness.

**Fairness** (`orders_calls`). The schedulers reschedule themselves, so a poller starts
again and what is under way proceeds; time passes and leases run out. `Claim` is
strongly fair for every order because the batch takes the least recently checked
first. Nothing is assumed of clerks or of UNAS; faults are bounded.

Refuted once a Key is used again (constants of `OrdersReuse.cfg`, the property added):
* `NewOrdersNeverCollide`: the second order under a Key is a new order with an
  `orderNumber` the first one still holds; the unique index refuses it and with it
  the whole batch, so the cursor stays where it is.
* `KnownOrdersKeepTheirRow`: an order stored without its Id is found by Key; if the new
  holder of the Key is seen before the deletion is noticed, it takes the row over
  (`unas-order-sync.repository.ts:956-959`).
* `DeletedGivesBack`: the worker asks UNAS by Key, the new order answers, and the
  deleted one is "still there" for ever.

`SettledBehindOverlap` says that what changed more than an overlap before the cursor is
mirrored, but for the orders in `behind`. TLC refutes it in `orders_reuse` without either
way into that set: an order passed over by paging (`skipped`) and an answer to a lookup
that is older than the overlap when it is applied (`Overtaken`). The code pages by
offset in a loop; in which order UNAS lists the orders is not in the repository, and the
model takes that of their Ids, so that any order may leave and the later ones move up.
The code's overlap is two minutes (`OVERLAP_MS`, `unas-order-sync.service.ts:16`), a call
to UNAS times out after 30 seconds (`unas-api.client.ts:1283`), and a run is taken over
after 15 minutes.

### Proofs

`UnasOrderSyncProofs.tla`, for all orders, Keys, callers and bounds that satisfy
`OrderAssumption` and `ActorAssumption`:

* `TypeCorrect`: `Spec => []TypeOK`.
* `NetStock`: `Spec => []BookedIsOrdered`, that the movements of an order net to its
  lines while it stands and to nothing when it is cancelled or deleted. The
  strengthening says of every answer in flight that it is a well-formed order.
* `ComesBackById`: `Spec => NeverResurrected`, that a deleted order is opened again
  only by an answer that carries its own Id.

* `SettledHolds`: `Spec => []SettledBehindOverlap`, for any page size, any overlap and
  answers of any age. The invariant is `SyncInv`. Cursor and windows begin an overlap
  before now, and behind them the mirror is settled (`WindowsOK`); nothing moves the cursor
  under the run that holds the `activeKey`, and every window begins an overlap before that
  run did (`ActiveOK`), so what the run applies is old only where it is settled; a run
  that was taken over and wakes late is refused. What a run has downloaded is what UNAS
  has, unless the order is not on its list, is on a page to come, was passed over, or has
  changed since the run began (`DownloadsOK`), and then the change is too recent to be
  behind an overlap; an answer under way is what UNAS has unless the order has changed
  since (`AnswersOK`).

`Converges` and `DeletedGivesBack` are liveness and model-checked only.

### Left out

The mirror of UNAS's invoices, customer links, the discrepancy report, prices, the claim
counters of the deletion worker, batches larger than one, several products in an order.
The status `open_prepare`, which becomes `ON_HOLD`, is an open order like the others here:
what is booked depends on cancelled or not.

## ProjectHolds and HandoffPlan

`ProjectHolds.tla` is `purchasing/project-reservation.service.ts` (release, close),
`purchase-invoice.repository.ts` (recording an invoice with holds),
`purchase-invoice-cancel.service.ts`, the renaming of
`purchase-invoice-edit.service.ts`, and `quotes/quote-handoff.service.ts`.

**State.** `Rows` are the stock rows of one UNAS-owned product, one per warehouse:
`onHand`, `reserved`, and `queued`, the target of the row's newest outbox entry. `holds`
is `ProjectInventoryReservation`; a project, an invoice and a quote keep the columns
that decide. A clerk's variables are what an unfinished request has read: `keysSeen` and
`rowSeen` of an invoice's snapshot, `holdsSeen` of a close, the `plan` shown for a
quote. `moved` collects what others commit after the snapshot.

**Actions.** Every writer takes the row's advisory lock before it reads the row, so a
READ COMMITTED transaction that has read nothing before is one step: `Sell`, `Release`,
`Cancel`, `Rename`. A close lists its holds (`BeginClose`) and ends them (`Close`). An
invoice (`BeginInvoice`, then `PostInvoice` or `RefuseInvoice`) and a handoff
(`Preview`, `BeginHandoff`, then `AnswerHandoff`, `Handoff` or `RetryHandoff`) are
SERIALIZABLE: they write only if no row they write is in `moved`. `ReleaseAll` refuses,
as the code does, when a row reserves less than the holds to be released.

`HandoffShares` defines what each row gives to each line of a quote; `HandoffPlan` is
the loop of `computeHandoffPlan`, row by row and line by line, with default and
excluded warehouses, several products and rows below zero, and shows that it computes
these shares.

### Runs

They set `CHECK_DEADLOCK FALSE`: when invoices, quotes and sales are used up, nothing
is left to do.

| Run | Instance | Shows |
|---|---|---|
| `holds_invoices` | 1 row of 2, 2 invoices of 1 or 2, 2 numbers, 2 projects, 2 clerks, 3 sales | `TypeOK`, `ReservedIsHolds`, `KeysFollowNumbers`, `StockIsExplained`, `CancelLeavesHeld` |
| `holds_handoff` | 2 rows of 1, 2 quotes of lines 1 and 2, 1 invoice, 4 projects (1 open), 2 clerks, 1 sale | `QueuedIsFree`, `OneProjectPerQuote`, `HandoffHoldsFreeStock` |
| `handoff_plan` | every quote of up to three lines over 3 rows of 2 products in 2 warehouses, free levels -1, 1, 2 | `TypeOK`, `TakesOnlyFree`, `ShortOnlyWhenEmpty`, `PlanIsShares` |

Two invoices for one row make a cancellation meet the holds of the other; three sales
can use up what two invoices bring. Two quotes together want more than both rows
have. The constraint `TwoSources` of `holds_handoff` stops where the invoice and both quotes
have been begun: two of the three meet, in every combination. Clerks, invoices,
projects and numbers are symmetric, and no liveness is checked.

Refuted, each by the run's constants with the property added:
* `NoHoldOnClosedProject` (`HoldsInvoices.cfg`): an invoice's snapshot shows a project
  open; the close, which is READ COMMITTED, lists its holds before the invoice commits;
  the hold stays on a closed project, against `project-reservation.service.ts:237-238`.
* `EveryInvoiceArrives` (`HoldsInvoices.cfg`): a receipt key is looked up in the snapshot
  while the invoice number's unique index looks at what is committed. A number given
  up in between is free to one and taken to the other: the invoice is `POSTED`, its
  stock was not booked (`purchase-invoice-edit.service.ts:268-272`).
* `PlanIsCurrent` (`HoldsHandoff.cfg`): the plan is compared in a snapshot older than the
  locks, so rows the plan does not write may have changed
  (`quote-handoff.service.ts:44-45`).

### Proofs

`ProjectHoldsProofs.tla`, for all rows, projects, invoices and quotes that satisfy
`HoldsAssumption`:

* `ShopIsTold`: `Spec => []QueuedIsFree`, with `RowsOK` (the rows are numbers, and what an
  invoice saw of its row is its row until somebody else has written it).
* `ReceiptsKeyed`: `Spec => []KeysFollowNumbers`.
* `QuoteHandedOnce`: `Spec => []OneProjectPerQuote`, the quote's row being what two
  handoffs of it collide on. The strengthening `HandedOnce` says that holds name a project
  of their quote (`HoldsNamed`) and that a handoff that can still commit finds its quote
  not handed off (`HandingNew`).

* `HoldsTypes`: `Spec => []TypeOK`. That `reserved` is never negative rests on the
  check of `ReleaseAll` and on finitely many holds (`Typed`, which also says what a
  clerk holds in hand).
* `ReservedSumsHolds` and `StockExplained`: `Spec => []ReservedIsHolds` and `Spec =>
  []StockIsExplained`. Neither sum is inductive alone. `HoldsInvariant` joins `Typed`,
  `HandedOnce` and `Booked`, which says besides the two sums that what an unfinished
  invoice saw of its row is that row until somebody else writes it (`SnapshotsTrue`),
  that an invoice in recording is nobody else's and has no holds (`RecordedOnce`), that
  an invoice's holds are on its row (`InvoiceHolds`), and that without a receipt nothing
  arrived (`NothingArrived`). Each action then adds or takes one set of holds, and the
  sum moves by that set's sum.
* `CancellationsLeaveHeld`: `Spec => CancelLeavesHeld`, from the same invariant: the
  holds of others are what `reserved` is once the invoice's own are released, and the
  guard compares against that.
* `HandoffsHoldFree`: `Spec => HandoffHoldsFreeStock`. `PlansCovered` says that the lines
  of a plan together take from a row nobody has changed no more than is free in it;
  it is true when a plan is made because the shares of one row are disjoint stretches
  of that row (`HandoffSharesProofs`), and a handoff commits only over unchanged rows.

`HandoffPlanProofs.tla`, for any products, warehouses, rows, lines and stock levels:

* `PlanTypes`: `Spec => []TypeOK`.
* `NothingOvertaken`: `Spec => []TakesOnlyFree`, no row gives more than it had free.
* `ShortIsEmpty`: `Spec => []ShortOnlyWhenEmpty`, with the invariant `Fills`: while a line
  needs more, the rows it has left behind are empty, and stay so.
* `PlanShares`: `Spec => []PlanIsShares`, the loop computes the shares that `ProjectHolds`
  reserves. `AlongShares` says how far it has come: along the lines that ask for a
  product and the rows of it, the lines before some `m` have their shares of every row,
  line `m + 1` has its shares of the first `j` rows, and the rest nothing. The orders are
  those of the documentation, lines as they come and home warehouses first, each by
  code; `InOrder` says what such a list is, and that it exists is proved by counting
  ranks (`ListExists`).

The sums go by a least counterexample: `FiniteSums` takes the smallest set for which
an equation about `SumFunctionOnSet` fails, with the library's well-founded orders, which
needs no predicate as a parameter as the induction theorems do.

### Left out

Paid and consumed marks, the links to NAV data and to arrivals, material requests,
invoices of several rows, the editor's freshness check, the number of retries (any
conflict may also end in `Fail`).

## OfflineQueue

`OfflineQueue.tla` is `apps/mobile/src/lib/offline` with the screens that use it: forms
that save to the server or to a table on the phone, and the drain that sends the rows.

**State.** `rows` is the table, by operation: state, tries, whether `nextAttemptAt` has
passed, whether the parent's server id is filled in, and which edits its body has.
`form` is what the screen knows, and `read` the row an edit being queued has found.
`keyed`, `bare`, `linked` and `applied` are what the server has: recorded by key, recorded
without one, recorded under its parent, edited. `online` is what the phone believes,
`drain` the local variables of each home screen's drain, `listed` the rows the queue's
screen shows as stopped, `faults` how much has gone wrong.

**Actions.** `Save`, `SaveRefused`, `SaveUnreached` are the direct attempt; `Enqueue`
the insert of a new row. An edit reads the row of its record (`ReadBody`), and then, in
a statement of its own, inserts or writes the merged body (`WriteBody`); the drain may
take the row away in between, or another edit bring one, and then the form is told that
nothing was saved. `OpenUnder` is the worksheet opened from a ticket's screen.
`Connect`, `Disconnect` and `Restart` are the phone. A drain is three passes of
`ReadPass`, `SendRow`, and per answer `MarkRow`, or for a recording `AttachRecording`
(which selects the rows that wait for it), `AttachOne` for each of them and `RemoveRow`;
each await is a step and each statement commits by itself, so a death leaves some
dependants addressed and others not. `BackoffElapses` is time; `ShowQueue`, `RetryRow`,
`Resend` and `Discard` are the technician at the queue's screen. `RetryRow` goes by the id
of a row the screen showed, whatever has become of it.

**Instances.** `offline_queue`: a ticket with a photo and a worksheet under it, and an
asset update left by an earlier session with one more edit to come; one home screen,
stalling after 2 server errors (8 in the code), two faults; with fairness and deadlock
check. It shows `TypeOK`, `NothingVanishes` (a recording or photo whose screen was
told it is saved is on the phone or on the server), `ParentsFirst` (no dependant is on
the server without its parent) and `EveryRowSettles`. The update left over makes a
merge and a refusal reachable with one edit.

`offline_edits` (an update left over, one edit) is violated: `EditsKept`. Nothing in the
code writes the state `syncing`, which the merge takes as the sign of a body under way,
so an edit merged while the drain waits for the server is deleted with the row. With two
edits (`Edits = {e1, e2}`) there is a second way: both read the row, both write their
merge of it, and the first is overwritten.

**Fairness.** The connection comes and goes (`Connect`, `Disconnect`), since only that
event or the start of the app begins a drain; a drain goes on; backoffs run out. The
technician and the server promise nothing; `MaxFaults` stands for a network that works
in the end.

Refuted, with the property added to a configuration of the operations named:
* `RecordedUnderParent`: a worksheet queued after its ticket's row was acknowledged, while
  a photo keeps that row, is sent without the ticket's id (`queue-order.ts:290-296`).
* `RecordedOnce`: a worksheet or asset saved directly carries no operation id; if the reply
  is lost, the queue records it again (`idokorlat.ts:15-22` gives the id as the reason
  this is safe).
* `StopsForHumans` (two home screens): a mark decided earlier reopens a row the other
  drain has stopped as a conflict (`sync-queue.ts:309-310`).

A dependant queued after its parent's row is gone waits for ever, and `EveryRowSettles`
leaves it out (`HasWayUp`). Failed connections count as tries, although
`sync-queue.ts:50-52` says they do not.

### Proofs

`OfflineQueueProofs.tla`, for any operations, parents and number of home screens (the run
has one, so two drains over one table are covered by the theorems alone):
`QueueTyped` (`TypeOK`), `NothingIsLost` (`NothingVanishes`) and `ParentsComeFirst`
(`ParentsFirst`). The invariant that carries all three is `Inductive`: a row whose
parent is filled in has a parent the server knows (`AddressesAreReal`), what a drain has
read was sendable and its parent recorded (`BatchesAreReady`), and an answer in hand is
true of the server (`AnswersAreTrue`), also while its dependants are addressed one by
one (`ListsTyped` says what a drain still has to address). Lemmas say how a step may change the table, the
drains and the server; each action is then one of those changes. `EveryRowSettles` is
model-checked only.

### Left out

Rows that cannot be written or read (`lost`, unreadable bodies), the repair screens field
by field, duplicates of photos, the order of rows within a pass (any order is
allowed). The body of a recording is not modelled, that of an update is the set of edits
in it.

## Mutants

Each property of a passing run has a mutant of the code that breaks it. The mutated
operators stand in the modules directly before the definition they replace, under
a comment that says which plausible bug they are: a lease left on a closed row, a
claim that ignores the lease or the status, a marker row left pending, an order comparison dropped, an expired claim never taken
back; in `StockPosting` no lock, unsorted lines, locks of the session instead of the
transaction, a count without its isolation level, one key for two postings, a
conflict code nobody recognises, a baseline for products that have a row; in
`UnasOrderSync` a difference booked the other way, a deletion that returns nothing, a
window from the cursor itself, a cursor at the end of the apply, orders known by Key;
in `ProjectHolds` listed holds released whatever became of them, a cancelled receipt
that keeps its key, a snapshot that is never stale, every hold ever made counted as an
invoice's own, all stock free, conflicts on stock only; in `HandoffPlan` a row that
gives anything, a row offered twice, a line left early, warehouses by code; in
`OfflineQueue` one pass too many, a refused row thrown away, a failed row never sent
again, a dependant that goes with what it waits for.

## Not modelled

`PROJECT.json` lists every component with its status. Left for later are
the ones the plan names; left out altogether are front ends, request/response
clients of outside services, matching heuristics and plain record keeping, which
have no protocol for a model checker to examine.
