-------------------------- MODULE StockSyncOutbox --------------------------
(***************************************************************************)
(* The transactional outbox that carries stock levels to the UNAS webshop: *)
(* the writer's enqueue (apps/api/src/common/inventory-movement-writer.ts) *)
(* and the worker protocol that drains it (apps/api/src/inventory/         *)
(* unas-stock-sync-outbox.{repository,service,scheduler}.ts).              *)
(*                                                                         *)
(* A pool is a (variant, warehouse) pair of a UNAS-owned product; ACROPORA *)
(* products never enqueue.  Rows, supersession and stock are per pool, but *)
(* UNAS knows no warehouses: it holds one number per variant, and so does  *)
(* ProductVariant.unasReportedStock.  The number is the available stock of *)
(* the warehouse published last, never a sum.                              *)
(*                                                                         *)
(* A level is named by the number of movements behind it, because the      *)
(* protocol only ever asks which of two levels is newer.  A posting is one *)
(* step here: it holds the pool's advisory lock to its commit, which       *)
(* module StockPosting examines.                                           *)
(*                                                                         *)
(* A worker is one running call of processClaimedRows: the scheduler's     *)
(* tick, an admin's "run now", or the publish after a single-order         *)
(* refresh.  These calls overlap, in one process or in several.            *)
(***************************************************************************)
EXTENDS Naturals, FiniteSets

CONSTANTS
  Variants,     \* ProductVariant rows, each with a SKU in UNAS
  Pools,        \* (variant, warehouse) pairs
  VariantOf,    \* the variant of a pool
  Packages,     \* the variants of bundle products, which UNAS computes itself
  Unmapped,     \* the variants whose UNAS variant mapping is missing
  Workers,      \* calls of processClaimedRows that may run at the same time
  Scheduler,    \* the one of them that is the scheduler's own loop
  Orders,       \* UNAS orders whose rows the targeted publish may claim
  BatchSize,    \* rows one claim may take
  LeaseCalls,   \* worst-case setStock calls one lease outlasts
  MaxAttempts,  \* claims of a row before a failure becomes terminal
  MaxRows,      \* bound: outbox rows ever written
  MaxFaults,    \* bound: worker crashes and database or login failures
  MaxRetries    \* bound: manual retries by an admin

ASSUME ConfigAssumption ==
  /\ VariantOf \in [Pools -> Variants]
  /\ Packages \subseteq Variants /\ Unmapped \subseteq Variants
  /\ Scheduler \in Workers
  /\ BatchSize \in Nat \ {0} /\ LeaseCalls \in Nat \ {0}
  /\ MaxAttempts \in Nat \ {0}
  /\ MaxRows \in Nat /\ MaxFaults \in Nat /\ MaxRetries \in Nat

\* sourceProcess/sourceRecordId of a row no UNAS order wrote.
Elsewhere == "elsewhere"
ASSUME ElsewhereAssumption == Elsewhere \notin Orders

\* Where a number comes from that no call has sent.
Nowhere == "nowhere"
ASSUME NowhereAssumption == Nowhere \notin Pools

VARIABLES
  stock,         \* StockItem: the level of onHand - reserved, per pool
  tracked,       \* the pools that have a StockItem row
  outbox,        \* UnasStockSyncOutbox rows, by sequence number
  lastSequence,  \* the sequence column's generator
  reported,      \* ProductVariant.unasReportedStock and its SyncedAt stamp
  shop,          \* external: the level UNAS shows, per variant
  pc,            \* where each worker is in processClaimedRows / processOne
  todo,          \* rows a worker claimed and has not finished
  attempt,       \* row.attempts as the claim returned it
  cur,           \* the row processOne is working on, 0 when none
  token,         \* whether the batch holds a UNAS token
  qty,           \* quantityToPublish
  stamp,         \* publishedAt
  calls,         \* setStock calls the worker has started since its claim
  clock,         \* the time stamps handed out so far
  faults, retries, \* used-up bounds
  verified,      \* history: pools with a known baseline, or released by hand
  sent,          \* history: the newest level ever sent to UNAS, per pool
  overtaken,     \* history: calls whose pool UNAS got another level of since they read it
  lateMarks      \* history: rows a call marked after its lease was over

ledgerVars == <<stock, tracked>>
queueVars  == <<outbox, lastSequence>>
workerVars == <<pc, todo, attempt, cur, token, qty, stamp, calls, overtaken,
                lateMarks>>
boundVars  == <<clock, faults, retries>>
shopVars   == <<reported, shop, sent>>
vars == <<stock, tracked, outbox, lastSequence, reported, shop, pc, todo,
          attempt, cur, token, qty, stamp, calls, clock, faults, retries,
          verified, sent, overtaken, lateMarks>>

(***************************************************************************)
(* Rows                                                                    *)
(***************************************************************************)
Open == {"PENDING", "FAILED", "DEAD_LETTER"}      \* OUTBOX_SUPERSEDABLE_STATUSES
Statuses == Open \cup {"PROCESSING", "SUCCEEDED"}
\* resolutionNote: NULL, or which of the code's markers it holds.
Null == "null"
BaselineUnknown == "baseline_unknown_no_stock_item_row"
Notes == {Null, BaselineUnknown, "superseded", "package", "manual_retry"}

Row ==
  [pool : Pools, target : Nat, source : Orders \cup {Elsewhere},
   status : Statuses, note : Notes, attempts : Nat, due : BOOLEAN,
   lease : {"none", "live", "expired"}]

\* What UNAS or the snapshot holds of a variant: a level of one of its
\* warehouses.  "late" is history: the call that wrote it had been overtaken.
View == [from : Pools \cup {Nowhere}, level : Nat, late : BOOLEAN]
Unseen == [from |-> Nowhere, level |-> 0, late |-> FALSE]

RowsOf(p) == {i \in DOMAIN outbox : outbox[i].pool = p}
Newest(i) == \A j \in RowsOf(outbox[i].pool) : j <= i
Marker(row) == row.status = "DEAD_LETTER" /\ row.note = BaselineUnknown

\* Mutant of UnresolvedBaseline: only rows a worker gave up count.
UnresolvedAfterAttempts(p) ==
  \E i \in RowsOf(p) : Marker(outbox[i]) /\ outbox[i].attempts > 0

\* unresolvedBaseline: a human has yet to reconcile this pool.
UnresolvedBaseline(p) == \E i \in RowsOf(p) : Marker(outbox[i])

\* WHERE status IN (...) AND resolutionNote <> '<marker>': in SQL a NULL note
\* does not satisfy <>, so only rows that carry some other note match.
SupersededOnWrite(row, p) ==
  /\ row.pool = p
  /\ row.status \in Open
  /\ row.note \notin {Null, BaselineUnknown}

(***************************************************************************)
(* The writer                                                              *)
(***************************************************************************)
\* Mutant of NewRow: the row of an unknown baseline is never closed.
NewRowLeftPending(p, level, source, baselineUnknown) ==
  [pool |-> p, target |-> level, source |-> source, status |-> "PENDING",
   note |-> IF baselineUnknown THEN BaselineUnknown ELSE Null,
   attempts |-> 0, due |-> TRUE, lease |-> "none"]

NewRow(p, level, source, baselineUnknown) ==
  [pool |-> p, target |-> level, source |-> source,
   status |-> IF baselineUnknown THEN "DEAD_LETTER" ELSE "PENDING",
   note |-> IF baselineUnknown THEN BaselineUnknown ELSE Null,
   attempts |-> 0, due |-> TRUE, lease |-> "none"]

\* enqueueStockSyncOutboxEntry, and the closing of the new row as DEAD_LETTER
\* when the pool's baseline is unknown.
Enqueue(p, level, source, baselineUnknown) ==
  /\ lastSequence < MaxRows
  /\ lastSequence' = lastSequence + 1
  /\ outbox' = [i \in 1 .. lastSequence + 1 |->
       IF i = lastSequence + 1 THEN NewRow(p, level, source, baselineUnknown)
       ELSE IF SupersededOnWrite(outbox[i], p)
         THEN [outbox[i] EXCEPT !.status = "SUCCEEDED", !.note = "superseded"]
         ELSE outbox[i]]

\* postInventoryMovement, one line of a UNAS-owned variant.
PostMovement(p, source) ==
  /\ stock' = [stock EXCEPT ![p] = @ + 1]
  /\ tracked' = tracked \cup {p}
  /\ Enqueue(p, stock[p] + 1, source,
             p \notin tracked \/ UnresolvedBaseline(p))
  /\ UNCHANGED verified
  /\ UNCHANGED <<shopVars, workerVars, boundVars>>

(***************************************************************************)
(* Claims.  SELECT ... FOR UPDATE SKIP LOCKED feeding the UPDATE is one    *)
(* statement; two concurrent claims split the claimable rows, which is     *)
(* what two claims one after the other do.                                 *)
(***************************************************************************)
\* Mutants of Claimable: the lease is not looked at; the status is not looked
\* at, only the due time; an expired claim is never taken back.
ClaimableWhileHeld(i) ==
  \/ outbox[i].status \in {"PENDING", "FAILED"} /\ outbox[i].due
  \/ outbox[i].status = "PROCESSING"

ClaimableWhenDue(i) ==
  \/ outbox[i].status # "PROCESSING" /\ outbox[i].due
  \/ outbox[i].status = "PROCESSING" /\ outbox[i].lease = "expired"

ClaimableOnce(i) == outbox[i].status \in {"PENDING", "FAILED"} /\ outbox[i].due

Claimable(i) ==
  \/ outbox[i].status \in {"PENDING", "FAILED"} /\ outbox[i].due
  \/ outbox[i].status = "PROCESSING" /\ outbox[i].lease = "expired"

\* ORDER BY sequence LIMIT batchSize: the B of S that the query returns.
FirstOf(S, B) ==
  /\ B \subseteq S
  /\ Cardinality(B) <= BatchSize
  /\ B # S => Cardinality(B) = BatchSize
  /\ \A i \in B, j \in S \ B : i < j

ClaimRow(row) ==
  [row EXCEPT !.status = "PROCESSING", !.attempts = @ + 1, !.lease = "live"]

Claim(w, eligible, withToken) ==
  /\ pc[w] = "idle"
  /\ \E B \in SUBSET eligible :
       /\ B # {}
       /\ FirstOf(eligible, B)
       /\ outbox' = [i \in DOMAIN outbox |->
                       IF i \in B THEN ClaimRow(outbox[i]) ELSE outbox[i]]
       /\ todo' = [todo EXCEPT ![w] = B]
       /\ attempt' = [attempt EXCEPT ![w] = [i \in 1 .. MaxRows |->
                        IF i \in B THEN outbox[i].attempts + 1 ELSE 0]]
  /\ pc' = [pc EXCEPT ![w] = "next"]
  /\ token' = [token EXCEPT ![w] = withToken]
  /\ UNCHANGED <<cur, qty, stamp, calls, overtaken, lateMarks, lastSequence,
                 verified>>
  /\ UNCHANGED <<ledgerVars, shopVars, boundVars>>

\* processBatch: the scheduler's tick and the "run now" endpoint.
ProcessBatch(w) == Claim(w, {i \in DOMAIN outbox : Claimable(i)}, FALSE)

\* processForUnasOrder: only one order's rows, with the refresh's own token.
ProcessForUnasOrder(w, order) ==
  Claim(w, {i \in DOMAIN outbox : Claimable(i) /\ outbox[i].source = order}, TRUE)

(***************************************************************************)
(* processOne.  The UPDATE's RETURNING has no order, so the batch is taken *)
(* in any order.                                                           *)
(***************************************************************************)
\* Mutant of Superseded: any other row of the pool counts, older ones too.
SupersededByAny(i) == RowsOf(outbox[i].pool) # {i}

\* isSuperseded: some newer row exists for the pool, in whatever status.
Superseded(i) == ~Newest(i)

\* A call that has started more setStock calls than its lease outlasts.
Late(w) == calls[w] > LeaseCalls

\* The worker is done with row i, which it has marked; after the last one it
\* goes idle and its local variables are gone.
Finished(w, i) ==
  LET rest == todo[w] \ {i} IN
  /\ todo' = [todo EXCEPT ![w] = rest]
  /\ attempt' = [attempt EXCEPT ![w] = [@ EXCEPT ![i] = 0]]
  /\ pc' = [pc EXCEPT ![w] = IF rest = {} THEN "idle" ELSE "next"]
  /\ token' = [token EXCEPT ![w] = rest # {} /\ @]
  /\ calls' = [calls EXCEPT ![w] = IF rest = {} THEN 0 ELSE @]
  /\ cur' = [cur EXCEPT ![w] = 0]
  /\ qty' = [qty EXCEPT ![w] = 0]
  /\ stamp' = [stamp EXCEPT ![w] = 0]
  /\ overtaken' = [overtaken EXCEPT ![w] = FALSE]
  /\ lateMarks' = IF Late(w) THEN lateMarks \cup {i} ELSE lateMarks

\* Mutant of Mark: the lease columns are not cleared.
MarkKeepsLease(i, status, note, due) ==
  outbox' = [outbox EXCEPT ![i] =
    [@ EXCEPT !.status = status, !.note = note, !.due = due]]

\* Every mark* method updates by id alone: neither the status nor claimedBy
\* of the row is part of its WHERE clause.
Mark(i, status, note, due) ==
  outbox' = [outbox EXCEPT ![i] =
    [@ EXCEPT !.status = status, !.note = note, !.due = due, !.lease = "none"]]

\* A row that needs no UNAS call is closed without one.  The newer row that
\* supersedes it never goes away, so reading it and marking are one step.
CloseSuperseded(w, i) ==
  /\ pc[w] = "next" /\ i \in todo[w]
  /\ Superseded(i)
  /\ Mark(i, "SUCCEEDED", "superseded", outbox[i].due)
  /\ Finished(w, i)
  /\ UNCHANGED <<lastSequence, verified>>
  /\ UNCHANGED <<ledgerVars, shopVars, boundVars>>

ClosePackage(w, i) ==
  /\ pc[w] = "next" /\ i \in todo[w]
  /\ ~Superseded(i) /\ VariantOf[outbox[i].pool] \in Packages
  /\ Mark(i, "SUCCEEDED", "package", outbox[i].due)
  /\ Finished(w, i)
  /\ UNCHANGED <<lastSequence, verified>>
  /\ UNCHANGED <<ledgerVars, shopVars, boundVars>>

CloseUnmapped(w, i) ==
  /\ pc[w] = "next" /\ i \in todo[w]
  /\ ~Superseded(i) /\ VariantOf[outbox[i].pool] \in Unmapped \ Packages
  /\ Mark(i, "DEAD_LETTER", outbox[i].note, outbox[i].due)
  /\ Finished(w, i)
  /\ UNCHANGED <<lastSequence, verified>>
  /\ UNCHANGED <<ledgerVars, shopVars, boundVars>>

Publishable(p) == VariantOf[p] \notin Packages \cup Unmapped

\* Nothing newer is there: go on to publish row i.
StartRow(w, i) ==
  /\ pc[w] = "next" /\ i \in todo[w]
  /\ ~Superseded(i) /\ Publishable(outbox[i].pool)
  /\ cur' = [cur EXCEPT ![w] = i]
  /\ pc' = [pc EXCEPT ![w] = IF token[w] THEN "read" ELSE "login"]
  /\ UNCHANGED <<todo, attempt, token, qty, stamp, calls, overtaken, lateMarks,
                 verified>>
  /\ UNCHANGED <<ledgerVars, queueVars, shopVars, boundVars>>

\* token.value ??= await getToken(): once per batch.
GetToken(w) ==
  /\ pc[w] = "login"
  /\ token' = [token EXCEPT ![w] = TRUE]
  /\ pc' = [pc EXCEPT ![w] = "read"]
  /\ UNCHANGED <<todo, attempt, cur, qty, stamp, calls, overtaken, lateMarks,
                 verified>>
  /\ UNCHANGED <<ledgerVars, queueVars, shopVars, boundVars>>

\* The StockItem as it is now, not the target written with the row.
QuantityToPublish(i) ==
  IF outbox[i].pool \in tracked THEN stock[outbox[i].pool] ELSE outbox[i].target

ReadStock(w) ==
  /\ pc[w] = "read"
  /\ qty' = [qty EXCEPT ![w] = QuantityToPublish(cur[w])]
  /\ calls' = [calls EXCEPT ![w] = @ + 1]
  /\ pc' = [pc EXCEPT ![w] = "call"]
  /\ UNCHANGED <<todo, attempt, cur, token, stamp, overtaken, lateMarks,
                 verified>>
  /\ UNCHANGED <<ledgerVars, queueVars, shopVars, boundVars>>

(***************************************************************************)
(* setStock, and what comes back.                                          *)
(***************************************************************************)
\* UNAS sets the absolute quantity of the SKU; the reply is still on its way.
UnasApplies(w) ==
  LET p == outbox[cur[w]].pool IN
  /\ pc[w] = "call"
  /\ shop' = [shop EXCEPT ![VariantOf[p]] =
                [from |-> p, level |-> qty[w], late |-> overtaken[w]]]
  /\ sent' = [sent EXCEPT ![p] = IF qty[w] > @ THEN qty[w] ELSE @]
  /\ overtaken' = [v \in Workers |->
       \/ overtaken[v]
       \/ v # w /\ pc[v] \in {"call", "reply"} /\ outbox[cur[v]].pool = p]
  /\ pc' = [pc EXCEPT ![w] = "reply"]
  /\ UNCHANGED <<todo, attempt, cur, token, qty, stamp, calls, lateMarks,
                 reported, verified>>
  /\ UNCHANGED <<ledgerVars, queueVars, boundVars>>

\* setStock throws: without any effect, or after UNAS applied it (a lost or
\* unreadable reply).  classifyError calls it permanent or transient.
SetStockFails(w) ==
  /\ pc[w] \in {"call", "reply"}
  /\ \E next \in {"transient", "permanent"} : pc' = [pc EXCEPT ![w] = next]
  /\ UNCHANGED <<todo, attempt, cur, token, qty, stamp, calls, overtaken,
                 lateMarks, verified>>
  /\ UNCHANGED <<ledgerVars, queueVars, shopVars, boundVars>>

\* setStock returns; publishedAt = new Date().
SetStockReturns(w) ==
  /\ pc[w] = "reply"
  /\ clock' = clock + 1
  /\ stamp' = [stamp EXCEPT ![w] = clock + 1]
  /\ pc' = [pc EXCEPT ![w] = "mark"]
  /\ UNCHANGED <<todo, attempt, cur, token, qty, calls, overtaken, lateMarks,
                 verified, faults, retries>>
  /\ UNCHANGED <<ledgerVars, queueVars, shopVars>>

\* markSucceeded: one transaction for the variant's snapshot, whatever the
\* warehouse, and the row.  A snapshot with a later stamp stays.  Stamps are
\* kept only while a call that already has one is waiting to be compared.
LastToMark(w) == \A v \in Workers \ {w} : pc[v] # "mark"

MarkSucceeded(w) ==
  LET i == cur[w]
      p == outbox[i].pool
      Wins(v) == v = VariantOf[p] /\ reported[v].at <= stamp[w] IN
  /\ pc[w] = "mark"
  /\ reported' = [v \in Variants |->
       [view |-> IF Wins(v)
                   THEN [from |-> p, level |-> qty[w], late |-> overtaken[w]]
                   ELSE reported[v].view,
        at |-> IF LastToMark(w) THEN 0
               ELSE IF Wins(v) THEN stamp[w] ELSE reported[v].at]]
  /\ clock' = IF LastToMark(w) THEN 0 ELSE clock
  /\ Mark(i, "SUCCEEDED", outbox[i].note, outbox[i].due)
  /\ Finished(w, i)
  /\ UNCHANGED <<lastSequence, shop, sent, verified, faults, retries>>
  /\ UNCHANGED ledgerVars

\* That transaction fails: it is inside the try, so the catch block treats a
\* publish that took place as a failed one.
MarkSucceededFails(w) ==
  /\ pc[w] = "mark" /\ faults < MaxFaults
  /\ faults' = faults + 1
  /\ pc' = [pc EXCEPT ![w] = "transient"]
  /\ UNCHANGED <<todo, attempt, cur, token, qty, stamp, calls, overtaken,
                 lateMarks, verified, clock, retries>>
  /\ UNCHANGED <<ledgerVars, queueVars, shopVars>>

\* The catch block: markDeadLetter, or markFailedForRetry with a backoff.
GivesUp(w) == pc[w] = "permanent" \/ attempt[w][cur[w]] >= MaxAttempts

HandleFailure(w) ==
  LET i == cur[w] IN
  /\ pc[w] \in {"transient", "permanent"}
  /\ IF GivesUp(w) THEN Mark(i, "DEAD_LETTER", outbox[i].note, outbox[i].due)
                   ELSE Mark(i, "FAILED", outbox[i].note, FALSE)
  /\ Finished(w, i)
  /\ UNCHANGED <<lastSequence, verified>>
  /\ UNCHANGED <<ledgerVars, shopVars, boundVars>>

\* The call ends early: the process dies, or getToken, a query outside the
\* try or a mark in the catch throws.  The rows left stay PROCESSING.
AbandonBatch(w) ==
  /\ pc[w] # "idle" /\ faults < MaxFaults
  /\ faults' = faults + 1
  /\ pc' = [pc EXCEPT ![w] = "idle"]
  /\ todo' = [todo EXCEPT ![w] = {}]
  /\ attempt' = [attempt EXCEPT ![w] = [i \in 1 .. MaxRows |-> 0]]
  /\ token' = [token EXCEPT ![w] = FALSE]
  /\ cur' = [cur EXCEPT ![w] = 0]
  /\ qty' = [qty EXCEPT ![w] = 0]
  /\ stamp' = [stamp EXCEPT ![w] = 0]
  /\ calls' = [calls EXCEPT ![w] = 0]
  /\ overtaken' = [overtaken EXCEPT ![w] = FALSE]
  /\ UNCHANGED <<lateMarks, verified, clock, retries>>
  /\ UNCHANGED <<ledgerVars, queueVars, shopVars>>

(***************************************************************************)
(* Time, and the admin.                                                    *)
(***************************************************************************)
\* leaseExpiresAt passes.  The lease is taken once, at the claim, for the
\* whole batch, and outlasts LeaseCalls calls of setStock: a live worker
\* keeps its rows until it is past that many.
LeaseExpires(i) ==
  /\ outbox[i].status = "PROCESSING" /\ outbox[i].lease = "live"
  /\ \A w \in Workers : i \in todo[w] => Late(w)
  /\ outbox' = [outbox EXCEPT ![i] = [@ EXCEPT !.lease = "expired"]]
  /\ UNCHANGED <<lastSequence, verified>>
  /\ UNCHANGED <<ledgerVars, shopVars, workerVars, boundVars>>

\* nextAttemptAt passes.
BackoffElapses(i) ==
  /\ outbox[i].status = "FAILED" /\ ~outbox[i].due
  /\ outbox' = [outbox EXCEPT ![i] = [@ EXCEPT !.due = TRUE]]
  /\ UNCHANGED <<lastSequence, verified>>
  /\ UNCHANGED <<ledgerVars, shopVars, workerVars, boundVars>>

\* manualRetry: the note of the row, a baseline marker included, gives way to
\* the name of the admin, who thereby vouches for the pool.
ManualRetry(i) ==
  /\ retries < MaxRetries /\ retries' = retries + 1
  /\ outbox[i].status \in {"FAILED", "DEAD_LETTER"}
  /\ outbox' = [outbox EXCEPT ![i] =
       [@ EXCEPT !.status = "PENDING", !.attempts = 0, !.due = TRUE,
                 !.lease = "none", !.note = "manual_retry"]]
  /\ verified' = verified \cup {outbox[i].pool}
  /\ UNCHANGED <<lastSequence, clock, faults>>
  /\ UNCHANGED <<ledgerVars, shopVars, workerVars>>

(***************************************************************************)
(* The specification                                                       *)
(***************************************************************************)
\* Pools without a StockItem row have never been reconciled with the shop.
Init ==
  /\ tracked \in SUBSET Pools
  /\ stock = [p \in Pools |-> 0]
  /\ shop = [v \in Variants |-> Unseen]
  /\ reported = [v \in Variants |-> [view |-> Unseen, at |-> 0]]
  /\ verified = tracked /\ sent = [p \in Pools |-> 0]
  /\ outbox = [i \in 1 .. 0 |-> 0] /\ lastSequence = 0
  /\ pc = [w \in Workers |-> "idle"]
  /\ todo = [w \in Workers |-> {}]
  /\ attempt = [w \in Workers |-> [i \in 1 .. MaxRows |-> 0]]
  /\ cur = [w \in Workers |-> 0]
  /\ token = [w \in Workers |-> FALSE]
  /\ qty = [w \in Workers |-> 0]
  /\ stamp = [w \in Workers |-> 0]
  /\ calls = [w \in Workers |-> 0]
  /\ overtaken = [w \in Workers |-> FALSE] /\ lateMarks = {}
  /\ clock = 0 /\ faults = 0 /\ retries = 0

RowStep(w) ==
  \/ \E i \in todo[w] : \/ CloseSuperseded(w, i) \/ ClosePackage(w, i)
                        \/ CloseUnmapped(w, i) \/ StartRow(w, i)
  \/ GetToken(w) \/ ReadStock(w)
  \/ UnasApplies(w) \/ SetStockFails(w) \/ SetStockReturns(w)
  \/ MarkSucceeded(w) \/ HandleFailure(w)

Next ==
  \/ \E p \in Pools, s \in Orders \cup {Elsewhere} : PostMovement(p, s)
  \/ \E w \in Workers : \/ ProcessBatch(w)
                        \/ \E o \in Orders : ProcessForUnasOrder(w, o)
                        \/ RowStep(w)
                        \/ MarkSucceededFails(w)
                        \/ AbandonBatch(w)
  \/ \E i \in DOMAIN outbox : \/ LeaseExpires(i) \/ BackoffElapses(i)
                              \/ ManualRetry(i)

Spec == Init /\ [][Next]_vars

\* The enabled scheduler reschedules itself for ever, nobody has to press "run
\* now"; a started call of processClaimedRows goes on unless it fails; time
\* passes.
Fairness ==
  /\ WF_vars(ProcessBatch(Scheduler))
  /\ \A w \in Workers : WF_vars(RowStep(w))
  /\ \A i \in 1 .. MaxRows :
       /\ WF_vars(i \in DOMAIN outbox /\ LeaseExpires(i))
       /\ WF_vars(i \in DOMAIN outbox /\ BackoffElapses(i))

FairSpec == Spec /\ Fairness
(***************************************************************************)
(* Properties                                                              *)
(***************************************************************************)
PcValues == {"idle", "next", "login", "read", "call", "reply", "mark",
             "transient", "permanent"}

\* Every variable has its type; a row holds a lease exactly while it is
\* PROCESSING, and a worker works on a row it claimed.
TypeOK ==
  /\ stock \in [Pools -> Nat] /\ tracked \subseteq Pools
  /\ lastSequence \in 0 .. MaxRows
  /\ outbox \in [1 .. lastSequence -> Row]
  /\ \A i \in 1 .. lastSequence :
       outbox[i].lease = "none" <=> outbox[i].status # "PROCESSING"
  /\ shop \in [Variants -> View]
  /\ reported \in [Variants -> [view : View, at : Nat]]
  /\ pc \in [Workers -> PcValues]
  /\ todo \in [Workers -> SUBSET (1 .. lastSequence)]
  /\ attempt \in [Workers -> [1 .. MaxRows -> Nat]]
  /\ cur \in [Workers -> 0 .. lastSequence]
  /\ \A w \in Workers : pc[w] \notin {"idle", "next"} => cur[w] \in todo[w]
  /\ token \in [Workers -> BOOLEAN]
  /\ qty \in [Workers -> Nat] /\ stamp \in [Workers -> Nat]
  /\ calls \in [Workers -> Nat]
  /\ clock \in Nat /\ faults \in Nat /\ retries \in Nat
  /\ verified \subseteq Pools /\ sent \in [Pools -> Nat]
  /\ overtaken \in [Workers -> BOOLEAN] /\ lateMarks \subseteq 1 .. lastSequence

\* Two running calls hold one row only if one of them has outlived its lease,
\* or such a call has marked the row before (claimBatch: "each row is only ever
\* included in exactly one of their result sets").
ExclusiveUntilLate ==
  \A v, w \in Workers : v # w =>
    \A i \in todo[v] \cap todo[w] : Late(v) \/ Late(w) \/ i \in lateMarks

\* The same without the exception (unasStockSyncWorkerConfig: a slow worker "is
\* never mistaken for a crashed one").
ExclusiveClaim ==
  \A v, w \in Workers : v # w => todo[v] \cap todo[w] = {}

\* A settled row stays settled: claims, postings, timers and admins leave it
\* alone.  Since every mark* goes by id alone, only a call that comes back after
\* its lease, or one that shares a row such a call has marked, reopens it.
ReopenedOnlyLate ==
  [][\A i \in DOMAIN outbox :
       outbox[i].status = "SUCCEEDED" /\ outbox'[i].status # "SUCCEEDED"
         => i \in lateMarks']_vars

\* A pool whose first quantity was invented is never published before a human
\* has released it, however many movements, claims and retries pass
\* (postInventoryMovement: "a baseline we never knew must not be published").
UnverifiedNeverPublished ==
  \A v \in Variants : shop[v].from # Nowhere => shop[v].from \in verified

\* The view is of the variant's last published warehouse.  Where that is p it
\* has p's present level, unless an overtaken call wrote it.
Shows(view, p) ==
  /\ view.from # Nowhere
  /\ view.from = p /\ ~view.late => view.level = stock[p]

\* When the newest row of a pool has been published, neither the shop nor the
\* snapshot of the reconciliation page is left with an older level of the pool,
\* unless two calls were publishing the pool at the same time.
PublishedIsCurrent ==
  \A i \in DOMAIN outbox :
    LET p == outbox[i].pool IN
    Newest(i) /\ outbox[i].status = "SUCCEEDED" /\ Publishable(p)
      => Shows(shop[VariantOf[p]], p) /\ Shows(reported[VariantOf[p]].view, p)

\* "An older event must not overwrite a newer one" but for overtaken calls, and
\* no unverified level reaches the shop: the protocol implements the mirror.
Mirror == INSTANCE ShopMirror
MirrorSpec == Mirror!Spec

\* The same promise about order alone (docs/INVENTORY-CONSISTENCY.md:116).
OlderNeverOverwritesNewer ==
  [][\A v \in Variants : shop'[v].from = shop[v].from
                             => shop'[v].level >= shop[v].level]_vars

\* "Before creating a new row, postInventoryMovement closes the still open
\* rows of the key" (docs/INVENTORY-CONSISTENCY.md:118), markers excepted.
EnqueueClosesOlderRows ==
  [][lastSequence' > lastSequence =>
       \A i \in DOMAIN outbox :
         /\ outbox'[i].pool = outbox'[lastSequence'].pool
         /\ outbox'[i].status \in Open
         => Marker(outbox'[i])]_vars

\* Every row is eventually published, closed without a call, or given up:
\* crashes, lost replies and failed logins delay a row but never strand it.
EveryRowSettles ==
  \A i \in 1 .. MaxRows :
    (i \in DOMAIN outbox) ~>
      (i \in DOMAIN outbox /\ outbox[i].status \in {"SUCCEEDED", "DEAD_LETTER"})

\* Once movements stop, the shop shows the present level of the warehouse it was
\* last given, for every pool whose newest row does not wait for a human.
Converges ==
  \A p \in Pools : Publishable(p) =>
    <>[](\/ RowsOf(p) = {}
         \/ Shows(shop[VariantOf[p]], p)
         \/ \E i \in RowsOf(p) : Newest(i) /\ outbox[i].status = "DEAD_LETTER")

(***************************************************************************)
(* Inductive strengthenings, for StockSyncOutboxProofs.                    *)
(***************************************************************************)
\* While nobody has verified a pool, all its rows are baseline markers: no
\* worker can claim one, and there is one as soon as the pool is tracked.
BaselineGuarded ==
  /\ \A i \in DOMAIN outbox : outbox[i].pool \notin verified => Marker(outbox[i])
  /\ \A p \in tracked \ verified : RowsOf(p) # {}
  /\ \A w \in Workers : \A i \in todo[w] : outbox[i].pool \in verified
  /\ UnverifiedNeverPublished

\* A row that no late call has marked is PROCESSING under a live lease for as
\* long as a call holds it that is not late, and there is one such call at most.
InTime(w, i) == i \in todo[w] \ lateMarks /\ ~Late(w)
LeaseHeld ==
  /\ \A w \in Workers : pc[w] = "idle" => todo[w] = {} /\ calls[w] = 0
  /\ \A w \in Workers, i \in DOMAIN outbox : InTime(w, i) =>
       outbox[i].status = "PROCESSING" /\ outbox[i].lease = "live"
  /\ \A v, w \in Workers, i \in DOMAIN outbox :
       InTime(v, i) /\ InTime(w, i) => v = w

\* What a call carries between reading the stock and marking: never more than
\* the ledger has, the ledger's level while its row is the newest, no less than
\* what UNAS has been sent of the pool unless it was overtaken.
Sending == {"call", "reply", "mark"}
CarriedPool(w) == outbox[cur[w]].pool
CarriesWell(w) ==
  LET p == CarriedPool(w) IN
  /\ pc[w] \in Sending =>
       /\ qty[w] <= stock[p]
       /\ Newest(cur[w]) => qty[w] = stock[p]
  /\ pc[w] \in {"call", "reply"} /\ ~overtaken[w] => sent[p] <= qty[w]
  /\ pc[w] \in {"reply", "mark"} =>
       qty[w] <= sent[p] /\ shop[VariantOf[p]].from # Nowhere
  /\ pc[w] = "mark" => stamp[w] <= clock
  /\ overtaken[w] => \E v \in Workers : v # w

\* A view is of a warehouse of its variant, and of the newest level sent of that
\* warehouse unless the call that wrote it was overtaken.
ShopWell ==
  \A v \in Variants : shop[v].from # Nowhere =>
    /\ VariantOf[shop[v].from] = v
    /\ shop[v].level <= sent[shop[v].from]
    /\ ~shop[v].late => shop[v].level = sent[shop[v].from]

ReportedWell ==
  \A v \in Variants :
    /\ reported[v].at <= clock
    /\ reported[v].view.from = Nowhere => reported[v].at = 0
    /\ reported[v].view.from # Nowhere =>
         /\ VariantOf[reported[v].view.from] = v
         /\ reported[v].view.level <= sent[reported[v].view.from]

\* Stamps order what is to be marked: of two calls of one pool the one with the
\* later stamp carries no older level unless it was overtaken, and neither does
\* a snapshot with a later stamp.
StampsWell ==
  \A u \in Workers : pc[u] = "mark" =>
    LET p == CarriedPool(u)
        v == VariantOf[p] IN
    /\ \A w \in Workers \ {u} : pc[w] = "mark" =>
         /\ stamp[u] # stamp[w]
         /\ CarriedPool(w) = p /\ stamp[u] < stamp[w] /\ ~overtaken[w]
              => qty[u] <= qty[w]
    /\ /\ reported[v].view.from = p /\ ~reported[v].view.late
       /\ stamp[u] < reported[v].at
       => qty[u] <= reported[v].view.level

\* Once the newest row of a pool has been published, its level has been sent, and
\* every snapshot still to come with a winning stamp carries it too.
SettledPool(p) ==
  LET v == VariantOf[p] IN
  /\ sent[p] = stock[p]
  /\ shop[v].from # Nowhere
  /\ Shows(reported[v].view, p)
  /\ \A w \in Workers :
       /\ pc[w] = "mark" /\ CarriedPool(w) = p
       /\ ~overtaken[w] /\ reported[v].at <= stamp[w]
       => qty[w] = stock[p]

SettledWell ==
  \A p \in Pools, i \in DOMAIN outbox :
    /\ outbox[i].pool = p /\ Publishable(p)
    /\ Newest(i) /\ outbox[i].status = "SUCCEEDED"
    => SettledPool(p)

PublishWell ==
  /\ \A i \in DOMAIN outbox : outbox[i].pool \in tracked
  /\ \A p \in Pools : sent[p] <= stock[p]
  /\ \A w \in Workers : CarriesWell(w)
  /\ ShopWell /\ ReportedWell /\ StampsWell /\ SettledWell
=============================================================================
