---------------------------- MODULE StockPosting ----------------------------
(***************************************************************************)
(* Database transactions that post stock movements, statement by           *)
(* statement: postInventoryMovement in apps/api/src/common/                *)
(* inventory-movement-writer.ts, inside the transactions of its callers.   *)
(*                                                                         *)
(* A job is one business event (a sale, a receipt, a correction by an      *)
(* inventory count, a webshop order's change).  A request is one call that *)
(* wants a job done; several requests may want the same one (a double      *)
(* click, a repeated HTTP call, a poll that sees an order again).          *)
(*                                                                         *)
(* What PostgreSQL does is modelled from how the code uses it: a           *)
(* transaction's writes are its own until it commits; under READ COMMITTED *)
(* a statement sees everything committed before it; under SERIALIZABLE all *)
(* statements see the database as the first one found it, a write to a row *)
(* that changed since is refused, and of two serializable transactions     *)
(* that both found a row missing and both create it one is refused.        *)
(***************************************************************************)
EXTENDS Integers, Sequences, FiniteSets, Functions

CONSTANTS
  Pools,      \* (variant, warehouse) pairs, numbered in variantId order
  Jobs,       \* business events
  Counts,     \* the jobs that are inventory counts
  Requests,   \* calls
  JobOf,      \* [Requests -> Jobs]
  Level,      \* [Jobs -> Levels]: isolation level of the caller
  Tries,      \* [Jobs -> Nat]: attempts when the database refuses to serialize
  Postings,   \* per job, its postInventoryMovement calls in order; each is a
              \*   function from the pools of its lines to signed quantities
  Expected,   \* per job, a function: expectedQty of the counted pools
  Opening,    \* onHand of the pools that have a StockItem row at the start
  MaxFaults   \* bound: transactions lost to timeouts, crashes, false alarms

Levels == {"ReadCommitted", "Serializable"}

\* A quantity for some of the pools.
IsQuantities(f) ==
  /\ f = [p \in DOMAIN f |-> f[p]]
  /\ DOMAIN f \subseteq Pools
  /\ \A p \in DOMAIN f : f[p] \in Int

ASSUME JobAssumption ==
  /\ Pools \subseteq Int /\ IsFiniteSet(Pools)
  /\ Counts \subseteq Jobs
  /\ IsFiniteSet(Requests)
  /\ JobOf \in [Requests -> Jobs]
  /\ Level \in [Jobs -> Levels]
  /\ Tries \in [Jobs -> Nat \ {0}]
  /\ \A j \in Jobs :
       /\ IsQuantities(Expected[j])
       /\ Len(Postings[j]) \in Nat
       /\ \A k \in 1..Len(Postings[j]) :
            IsQuantities(Postings[j][k]) /\ DOMAIN Postings[j][k] # {}
  /\ IsQuantities(Opening)
  /\ MaxFaults \in Nat

\* Counts run SERIALIZABLE and post at most one movement, for counted pools.
ASSUME CountAssumption ==
  /\ \A j \in Counts :
       /\ Level[j] = "Serializable"
       /\ Len(Postings[j]) <= 1
       /\ \A k \in 1..Len(Postings[j]) : DOMAIN Postings[j][k] \subseteq DOMAIN Expected[j]
  /\ \A j \in Jobs \ Counts : DOMAIN Expected[j] = {} /\ Len(Postings[j]) > 0

\* The creator of the rows that are there at the start.
Initially == "initially"
ASSUME CreatorAssumption == Initially \notin Requests

VARIABLES
  items,      \* committed StockItem rows: onHand by row id
  movements,  \* idempotency keys of committed StockMovement rows
  pc,         \* where each request is
  attempt,    \* transactions it has started
  posting,    \* the postInventoryMovement call it is in
  left,       \* pools still to lock and write in this phase, in order
  locks,      \* advisory locks it holds
  keys,       \* idempotency keys of its uncommitted movements
  writes,     \* its uncommitted StockItem writes: onHand by row id
  unseen,     \* row ids created since its snapshot
  changed,    \* row ids created or updated since its snapshot
  unseenKeys, \* keys committed since its snapshot
  faults,     \* faults so far
  victims     \* history: requests that PostgreSQL broke a deadlock with

database == <<items, movements>>
snapshot == <<unseen, changed, unseenKeys>>
mishaps == <<faults, victims>>
vars == <<items, movements, pc, attempt, posting, left, locks, keys, writes,
          unseen, changed, unseenKeys, faults, victims>>

-----------------------------------------------------------------------------
(* The database. *)

\* A row id names the pool and the request whose transaction created it: no
\* index keeps two rows of one pool apart, their locationId and lotId are NULL.
RowIds == Pools \X (Requests \cup {Initially})
Pool(id) == id[1]
Creator(id) == id[2]

\* Mutant: the count's transaction leaves out its isolation level.
SerializableButCounts(r) == Level[JobOf[r]] = "Serializable" /\ JobOf[r] \notin Counts

Serializable(r) == Level[JobOf[r]] = "Serializable"

RowsOf(p) == {id \in DOMAIN items : Pool(id) = p}

\* stockItem.findFirst may return any of these.
RowsSeen(r, p) ==
  {id \in RowsOf(p) : Serializable(r) => id \notin unseen[r]}
    \cup {id \in DOMAIN writes[r] : Pool(id) = p}

OnHandSeen(r, id) ==
  IF id \in DOMAIN writes[r] THEN writes[r][id]
  ELSE IF id \in DOMAIN items THEN items[id]
  ELSE 0

\* The row a write of pool p goes to: one it has found, or a new one.
Targets(r, p) == IF RowsSeen(r, p) = {} THEN {<<p, r>>} ELSE RowsSeen(r, p)

\* An update of a row that changed since the snapshot, or a creation that
\* forms a cycle with another serializable transaction's.
Conflicts(r, id) ==
  /\ Serializable(r)
  /\ \/ id \in changed[r]
     \/ /\ RowsSeen(r, Pool(id)) = {}
        /\ \E other \in unseen[r] : Pool(other) = Pool(id) /\ Serializable(Creator(other))

\* Mutant: the writer does not lock.
FreeUnlocked(r, p) == p \in Pools

\* pg_advisory_xact_lock returns: nobody else holds the lock.
Free(r, p) == \A q \in Requests \ {r} : p \notin locks[q]

Active == {"baseline", "check", "register", "lines", "after", "commit"}

-----------------------------------------------------------------------------
(* A request's place in its job. *)

\* Mutant: the sale and the return of one order change share a key.
KeyOfJob(r) == <<JobOf[r], 1>>

Key(r) == <<JobOf[r], posting[r]>>
Lines(r) == Postings[JobOf[r]][posting[r]]
KeySeen(r) ==
  \/ Key(r) \in keys[r]
  \/ Key(r) \in movements /\ (Serializable(r) => Key(r) \notin unseenKeys[r])

Orders(S) ==
  {s \in [1..Cardinality(S) -> S] : \A m, n \in 1..Cardinality(S) : s[m] = s[n] => m = n}

\* Mutant: the lines are not sorted; callers list the smallest quantity first.
CallerOrders(r) ==
  {s \in Orders(DOMAIN Lines(r)) :
     \A m, n \in 1..Len(s) : m < n => Lines(r)[s[m]] <= Lines(r)[s[n]]}

\* The writer locks and writes its lines by variantId: one order only.
PostingOrders(r) ==
  {s \in Orders(DOMAIN Lines(r)) : \A m, n \in 1..Len(s) : m < n => s[m] < s[n]}

\* A count's pools with a difference, and those without.
Differing(j) == IF j \in Counts /\ Len(Postings[j]) > 0 THEN DOMAIN Postings[j][1] ELSE {}
Matching(j) == DOMAIN Expected[j] \ Differing(j)
\* Mutant: the count does not look which pools are tracked.
AllIn(r, S) == S

UntrackedIn(r, S) ==
  {p \in S : \A id \in RowsOf(p) : Serializable(r) /\ id \in unseen[r]}

-----------------------------------------------------------------------------
(* The end of a transaction, by rollback or commit. *)

\* Mutant: locks belong to the session and outlive the transaction.
ForgetKeepingLocks(r) ==
  /\ left' = [left EXCEPT ![r] = <<>>]
  /\ keys' = [keys EXCEPT ![r] = {}]
  /\ writes' = [writes EXCEPT ![r] = <<>>]
  /\ UNCHANGED locks

\* Locks, uncommitted writes and the snapshot go with the transaction.
Forget(r) ==
  /\ left' = [left EXCEPT ![r] = <<>>]
  /\ locks' = [locks EXCEPT ![r] = {}]
  /\ keys' = [keys EXCEPT ![r] = {}]
  /\ writes' = [writes EXCEPT ![r] = <<>>]

NoSnapshot(r) ==
  /\ unseen' = [unseen EXCEPT ![r] = {}]
  /\ changed' = [changed EXCEPT ![r] = {}]
  /\ unseenKeys' = [unseenKeys EXCEPT ![r] = {}]

Rollback(r, next) ==
  /\ pc' = [pc EXCEPT ![r] = next]
  /\ Forget(r)
  /\ NoSnapshot(r)
  /\ UNCHANGED <<database, attempt, posting>>

\* Any error but a serialization conflict reaches the caller.
Refuse(r) == Rollback(r, "refused")

\* Mutant: the conflict's error code is not recognised.
NeverRetries(r) == FALSE

TriesLeft(r) == attempt[r] < Tries[JobOf[r]]

\* P2034: retryOnSerializationConflict starts again, if the caller uses it.
RetryOrRefuse(r) == Rollback(r, IF TriesLeft(r) THEN "retry" ELSE "refused")

\* What r's commit means for the snapshot of another open transaction.
LeavesSnapshot(r, q) == pc[q] \in Active /\ q # r /\ Serializable(q)

Commit(r) ==
  /\ pc[r] = "commit"
  /\ pc' = [pc EXCEPT ![r] = "done"]
  /\ items' = [id \in DOMAIN items \cup DOMAIN writes[r] |->
                 IF id \in DOMAIN writes[r] THEN writes[r][id] ELSE items[id]]
  /\ movements' = movements \cup keys[r]
  /\ Forget(r)
  /\ unseen' = [q \in Requests |->
       IF LeavesSnapshot(r, q) THEN unseen[q] \cup (DOMAIN writes[r] \ DOMAIN items)
       ELSE IF q = r THEN {} ELSE unseen[q]]
  /\ changed' = [q \in Requests |->
       IF LeavesSnapshot(r, q) THEN changed[q] \cup DOMAIN writes[r]
       ELSE IF q = r THEN {} ELSE changed[q]]
  /\ unseenKeys' = [q \in Requests |->
       IF LeavesSnapshot(r, q) THEN unseenKeys[q] \cup keys[r]
       ELSE IF q = r THEN {} ELSE unseenKeys[q]]
  /\ UNCHANGED <<attempt, posting, mishaps>>

-----------------------------------------------------------------------------
(* The statements. *)

\* After k postings: the next one; then a count's pools without a difference,
\* in no particular order; then the commit.
Proceed(r, k) ==
  IF k < Len(Postings[JobOf[r]])
  THEN /\ pc' = [pc EXCEPT ![r] = "check"]
       /\ posting' = [posting EXCEPT ![r] = k + 1]
       /\ left' = [left EXCEPT ![r] = <<>>]
  ELSE \E order \in Orders(UntrackedIn(r, Matching(JobOf[r]))) :
         /\ pc' = [pc EXCEPT ![r] = IF order = <<>> THEN "commit" ELSE "after"]
         /\ left' = [left EXCEPT ![r] = order]
         /\ UNCHANGED posting

\* The first statement takes the snapshot.  A count first writes the expected
\* quantity of each differing pool that it found untracked.
Begin(r) ==
  /\ pc[r] \in {"idle", "retry"}
  /\ attempt' = [attempt EXCEPT ![r] = @ + 1]
  /\ \E order \in Orders(UntrackedIn(r, Differing(JobOf[r]))) :
       IF order = <<>> THEN Proceed(r, 0)
       ELSE /\ pc' = [pc EXCEPT ![r] = "baseline"]
            /\ left' = [left EXCEPT ![r] = order]
            /\ UNCHANGED posting
  /\ UNCHANGED <<database, snapshot, locks, keys, writes, mishaps>>

\* One locked write: the lock, the row found or a new one, its new onHand.
LockAndWrite(r, id, quantity) ==
  /\ locks' = [locks EXCEPT ![r] = @ \cup {Pool(id)}]
  /\ writes' = [writes EXCEPT ![r] =
       [i \in DOMAIN writes[r] \cup {id} |-> IF i = id THEN quantity ELSE writes[r][i]]]
  /\ UNCHANGED <<database, snapshot, attempt, keys, mishaps>>

\* lockVariantWarehouse and setStockItemQuantity, for a count.
SetBaseline(r) ==
  /\ pc[r] \in {"baseline", "after"}
  /\ LET p == Head(left[r]) IN
       /\ Free(r, p)
       /\ \E id \in Targets(r, p) :
            /\ ~ Conflicts(r, id)
            /\ LockAndWrite(r, id, Expected[JobOf[r]][p])
  /\ IF Len(left[r]) > 1
     THEN left' = [left EXCEPT ![r] = Tail(@)] /\ UNCHANGED <<pc, posting>>
     ELSE IF pc[r] = "baseline" THEN Proceed(r, 0)
     ELSE /\ pc' = [pc EXCEPT ![r] = "commit"]
          /\ left' = [left EXCEPT ![r] = <<>>]
          /\ UNCHANGED posting

\* postInventoryMovement finds its key: a replay, which a count answers with
\* a 409 and every other caller passes over.
AlreadyPosted(r) ==
  /\ pc[r] = "check"
  /\ KeySeen(r)
  /\ IF JobOf[r] \in Counts THEN Refuse(r) /\ UNCHANGED mishaps
     ELSE /\ Proceed(r, posting[r])
          /\ UNCHANGED <<database, snapshot, attempt, locks, keys, writes, mishaps>>

NotYetPosted(r) ==
  /\ pc[r] = "check"
  /\ ~ KeySeen(r)
  /\ pc' = [pc EXCEPT ![r] = "register"]
  /\ UNCHANGED <<database, snapshot, attempt, posting, left, locks, keys, writes, mishaps>>

\* stockMovement.create; the unique index makes it wait for another
\* uncommitted movement of the same key.
KeyFree(r) == \A q \in Requests \ {r} : Key(r) \notin keys[q]

CreateMovement(r) ==
  /\ pc[r] = "register"
  /\ KeyFree(r)
  /\ Key(r) \notin movements
  /\ keys' = [keys EXCEPT ![r] = @ \cup {Key(r)}]
  /\ pc' = [pc EXCEPT ![r] = "lines"]
  /\ \E order \in PostingOrders(r) : left' = [left EXCEPT ![r] = order]
  /\ UNCHANGED <<database, snapshot, attempt, posting, locks, writes, mishaps>>

\* The key was committed since the check: a duplicate, which a serializable
\* transaction may learn of as a conflict.
CreateMovementFails(r) ==
  /\ pc[r] = "register"
  /\ KeyFree(r)
  /\ Key(r) \in movements
  /\ Refuse(r) \/ (Serializable(r) /\ RetryOrRefuse(r))
  /\ UNCHANGED mishaps

\* One round of the writer's loop over its ordered lines.
PostLine(r) ==
  /\ pc[r] = "lines"
  /\ LET p == Head(left[r]) IN
       /\ Free(r, p)
       /\ \E id \in Targets(r, p) :
            /\ ~ Conflicts(r, id)
            /\ LockAndWrite(r, id, OnHandSeen(r, id) + Lines(r)[p])
  /\ IF Len(left[r]) > 1
     THEN left' = [left EXCEPT ![r] = Tail(@)] /\ UNCHANGED <<pc, posting>>
     ELSE Proceed(r, posting[r])

\* The database refuses the write of SetBaseline or PostLine.
WriteConflicts(r) ==
  /\ pc[r] \in {"baseline", "lines", "after"}
  /\ Free(r, Head(left[r]))
  /\ \E id \in Targets(r, Head(left[r])) : Conflicts(r, id)
  /\ RetryOrRefuse(r)
  /\ UNCHANGED mishaps

-----------------------------------------------------------------------------
(* Waiting, and what goes wrong. *)

WaitsForLock(r, q) ==
  /\ pc[r] \in {"baseline", "lines", "after"}
  /\ Head(left[r]) \in locks[q]
WaitsForKey(r, q) == pc[r] = "register" /\ Key(r) \in keys[q]
WaitsFor(r, q) == r # q /\ (WaitsForLock(r, q) \/ WaitsForKey(r, q))

Deadlocked(S) == S # {} /\ \A r \in S : \E q \in S : WaitsFor(r, q)

\* PostgreSQL ends one transaction of a wait cycle after deadlock_timeout;
\* whether the error is one the caller retries is the database client's choice.
DeadlockVictim(r) ==
  /\ \E S \in SUBSET Requests : r \in S /\ Deadlocked(S)
  /\ Refuse(r) \/ RetryOrRefuse(r)
  /\ victims' = victims \cup {r}
  /\ UNCHANGED faults

\* A timeout, a lost connection, a dead process.
TransactionFails(r) ==
  /\ pc[r] \in Active
  /\ faults < MaxFaults
  /\ faults' = faults + 1
  /\ Refuse(r)
  /\ UNCHANGED victims

\* Serializable isolation may see a conflict with another serializable
\* transaction where there is none.
FalseConflict(r) ==
  /\ pc[r] \in Active /\ Serializable(r)
  /\ faults < MaxFaults
  /\ faults' = faults + 1
  /\ RetryOrRefuse(r)
  /\ UNCHANGED victims

-----------------------------------------------------------------------------
Init ==
  /\ items = [id \in (DOMAIN Opening) \X {Initially} |-> Opening[Pool(id)]]
  /\ movements = {}
  /\ pc = [r \in Requests |-> "idle"]
  /\ attempt = [r \in Requests |-> 0]
  /\ posting = [r \in Requests |-> 1]
  /\ left = [r \in Requests |-> <<>>]
  /\ locks = [r \in Requests |-> {}]
  /\ keys = [r \in Requests |-> {}]
  /\ writes = [r \in Requests |-> <<>>]
  /\ unseen = [r \in Requests |-> {}]
  /\ changed = [r \in Requests |-> {}]
  /\ unseenKeys = [r \in Requests |-> {}]
  /\ faults = 0
  /\ victims = {}

\* What a running transaction does next by itself.
Step(r) ==
  \/ SetBaseline(r) \/ AlreadyPosted(r) \/ NotYetPosted(r) \/ CreateMovement(r)
  \/ CreateMovementFails(r) \/ PostLine(r) \/ WriteConflicts(r) \/ Commit(r)
  \/ DeadlockVictim(r)

Next == \E r \in Requests :
  Begin(r) \/ Step(r) \/ TransactionFails(r) \/ FalseConflict(r)

Spec == Init /\ [][Next]_vars

\* A running transaction goes on, a retry follows its delay.  No request has
\* to arrive.
Fairness == \A r \in Requests :
  WF_vars(Step(r)) /\ WF_vars(pc[r] = "retry" /\ Begin(r))

FairSpec == Spec /\ Fairness

-----------------------------------------------------------------------------
(* Properties. *)

\* Where each request is, and that it has something left where it needs to.
PlaceOK ==
  /\ pc \in [Requests -> Active \cup {"idle", "retry", "done", "refused"}]
  /\ attempt \in [Requests -> Nat]
  /\ posting \in [Requests -> Nat \ {0}]
  /\ left \in [Requests -> Seq(Pools)]
  /\ \A r \in Requests :
       /\ pc[r] \in {"check", "register", "lines"} => posting[r] <= Len(Postings[JobOf[r]])
       /\ pc[r] = "lines" => left[r] \in Seq(DOMAIN Lines(r)) \ {<<>>}
       /\ pc[r] \in {"baseline", "after"} =>
            left[r] \in Seq(DOMAIN Expected[JobOf[r]]) \ {<<>>}

\* The types of what the database keeps; a write is to a pool one has locked.
DataOK ==
  /\ items = [id \in DOMAIN items |-> items[id]]
  /\ DOMAIN items \subseteq RowIds /\ \A id \in DOMAIN items : items[id] \in Int
  /\ movements \subseteq Jobs \X Nat
  /\ locks \in [Requests -> SUBSET Pools]
  /\ keys \in [Requests -> SUBSET (Jobs \X Nat)]
  /\ writes = [r \in Requests |-> writes[r]]
  /\ \A r \in Requests :
       /\ DOMAIN writes[r] \subseteq RowIds
       /\ \A id \in DOMAIN writes[r] : writes[r][id] \in Int /\ Pool(id) \in locks[r]
  /\ unseen \in [Requests -> SUBSET RowIds]
  /\ changed \in [Requests -> SUBSET RowIds]
  /\ unseenKeys \in [Requests -> SUBSET (Jobs \X Nat)]
  /\ faults \in 0..MaxFaults
  /\ victims \subseteq Requests

\* A request outside a transaction holds nothing of one: the locks are
\* transaction-scoped.
AtRest ==
  \A r \in Requests :
    pc[r] \notin Active => locks[r] = {} /\ keys[r] = {} /\ DOMAIN writes[r] = {}

\* Everything has its type, and nothing outlives its transaction.
TypeOK == PlaceOK /\ DataOK /\ AtRest

\* A pool has one whole-warehouse row, also when its first movements arrive
\* together, but for a second one that a SERIALIZABLE transaction creates where
\* its snapshot misses the first of a READ COMMITTED one.
\* docs/INVENTORY-CONSISTENCY.md:66-75 promises one row for callers of every
\* isolation level; for them to agree is what makes it true.
CreatorLevel(id) == IF Creator(id) = Initially THEN "any" ELSE Level[JobOf[Creator(id)]]
Apart(a, b) ==
  Pool(a) = Pool(b) /\ a # b => {CreatorLevel(a), CreatorLevel(b)} = Levels

OneRowPerLevel == \A a, b \in DOMAIN items : Apart(a, b)

\* Postings never wait for each other in a circle, because each locks its
\* pools in one order (the writer's comment on its sorted lines, and
\* docs/INVENTORY-CONSISTENCY.md:369-372 for the order sync): in every circle
\* there is a count, or a transaction that posts a second time with the locks of
\* the first still in its hands.
Long(r) == JobOf[r] \in Counts \/ posting[r] > 1

OnlyLongOnesCycle ==
  \A S \in SUBSET Requests : Deadlocked(S) => \E r \in S : Long(r)

\* The committed rows are the ledger: each job adds what it says, all of it or
\* nothing, once, whichever requests ask for it, retry or fail, in whatever
\* order their statements interleave.
Share(j, k, p) == IF p \in DOMAIN Postings[j][k] THEN Postings[j][k][p] ELSE 0
NetUpTo(j, p, m) ==
  SumFunctionOnSet([k \in 1..Len(Postings[j]) |-> Share(j, k, p)], 1..m)
NetOf(j) ==
  [p \in UNION {DOMAIN Postings[j][k] : k \in 1..Len(Postings[j])} |->
     NetUpTo(j, p, Len(Postings[j]))]

OnHand(p) == IF RowsOf(p) = {} THEN 0 ELSE items[CHOOSE id \in RowsOf(p) : TRUE]
Booked == {JobOf[r] : r \in {q \in Requests : pc[q] = "done"}}

Ledger == INSTANCE StockLedger WITH
  Events <- Jobs,
  Net <- [j \in Jobs |-> NetOf(j)],
  Baseline <- Expected,
  onHand <- [p \in Pools |-> OnHand(p)],
  tracked <- {p \in Pools : RowsOf(p) # {}},
  booked <- Booked

LedgerSpec == Ledger!Spec

\* Every request that has started is answered, whatever the locks it meets.
EveryRequestEnds ==
  \A r \in Requests : pc[r] \in Active ~> pc[r] \in {"done", "refused"}

\* A caller that retries is never refused for the company it keeps: if no
\* other request wants its job, and no deadlock was broken with it, as many tries
\* as there are requests are enough (the claim of
\* common/transaction-retry.util.ts that a retry works from the current state, so
\* every conflict has somebody else's commit behind it).
Alone(r) ==
  /\ Serializable(r) /\ Tries[JobOf[r]] >= Cardinality(Requests)
  /\ \A q \in Requests \ {r} : JobOf[q] # JobOf[r]

RetriesSuffice ==
  \A r \in Requests : Alone(r) /\ faults = 0 /\ r \notin victims => pc[r] # "refused"

-----------------------------------------------------------------------------
(* The inductive invariant behind OneRowPerLevel. *)

\* No pool is locked twice.
LocksExclusive ==
  \A r, q \in Requests : r # q => locks[r] \cap locks[q] = {}

\* So it is with what a request has written on top of what is committed.
OneSeenPerLevel ==
  \A r \in Requests : \A a, b \in DOMAIN items \cup DOMAIN writes[r] : Apart(a, b)

\* The pools a request may write.
Touched(r) ==
  DOMAIN Expected[JobOf[r]]
    \cup UNION {DOMAIN Postings[JobOf[r]][k] : k \in 1..Len(Postings[JobOf[r]])}

\* Rows were there at the start, or created by a request that writes the pool,
\* as all uncommitted ones and those a snapshot misses were; opening rows stay.
NewRow(id) == id \in Pools \X Requests /\ Pool(id) \in Touched(Creator(id))
NewRows ==
  /\ \A id \in DOMAIN items : NewRow(id) \/ id \in (DOMAIN Opening) \X {Initially}
  /\ \A r \in Requests :
       \A id \in unseen[r] \cup (DOMAIN writes[r] \ DOMAIN items) : NewRow(id)
OpeningStays == \A p \in DOMAIN Opening : <<p, Initially>> \in DOMAIN items

RowInv ==
  TypeOK /\ LocksExclusive /\ OneSeenPerLevel /\ NewRows /\ OpeningStays

\* The condition under which a pool has one row: the callers that may create its
\* first one have one isolation level.
FirstRowsAgree ==
  \A p \in Pools \ DOMAIN Opening : \A r, q \in Requests :
    p \in Touched(r) \cap Touched(q) => (Serializable(r) <=> Serializable(q))

OneRowSeen ==
  \A r \in Requests : \A a, b \in DOMAIN items \cup DOMAIN writes[r] :
    Pool(a) = Pool(b) => a = b

SoleRows == RowInv /\ OneRowSeen

(* The inductive invariant behind OnlyLongOnesCycle. *)

\* In its first posting a request looks for its key with no lock in hand; then
\* the pools it still has to lock are in order, and above those it has.
InOrder(r) ==
  /\ pc[r] \in {"check", "register"} => locks[r] = {} /\ keys[r] = {}
  /\ pc[r] = "lines" =>
       \A n \in 1..Len(left[r]) :
         /\ \A p \in locks[r] : p < left[r][n]
         /\ \A m \in 1..Len(left[r]) : m < n => left[r][m] < left[r][n]

OrderInv == TypeOK /\ \A r \in Requests : ~ Long(r) => InOrder(r)

(* The inductive invariant behind RetriesSuffice. *)

\* Somebody committed rows since its snapshot.
Overtaken(r) == changed[r] \cup unseen[r] # {}
DoneOthers(r) == {q \in Requests \ {r} : pc[q] = "done"}

\* Every attempt but the one that nobody has overtaken saw another request commit.
RetryInv ==
  /\ \A r \in Requests : pc[r] \notin Active => ~ Overtaken(r)
  /\ \A r \in Requests : faults = 0 /\ Alone(r) /\ r \notin victims /\ pc[r] # "done" =>
       /\ pc[r] # "refused"
       /\ attempt[r] <= Cardinality(DoneOthers(r))
                          + (IF pc[r] \in Active /\ ~ Overtaken(r) THEN 1 ELSE 0)

(* The inductive invariant behind LedgerSpec: the keys. *)

JobKeys(j) == {<<j, k>> : k \in 1..Len(Postings[j])}

\* The postings a request has made or is making.
Passed(r) ==
  CASE pc[r] = "baseline" -> 0
    [] pc[r] \in {"check", "register"} -> posting[r] - 1
    [] pc[r] = "lines" -> posting[r]
    [] OTHER -> Len(Postings[JobOf[r]])

\* It found its job done, and passes over all its postings.
Replays(r) ==
  /\ pc[r] \in {"check", "commit"} /\ JobOf[r] \notin Counts
  /\ keys[r] = {} /\ DOMAIN writes[r] = {}
  /\ JobKeys(JobOf[r]) \subseteq movements
  /\ Serializable(r) => JobKeys(JobOf[r]) \cap unseenKeys[r] = {}

\* Otherwise it holds the keys of what it has posted; outside a count there is
\* no write without a key.
KeysOK(r) ==
  pc[r] \in Active =>
    /\ Replays(r) \/ keys[r] = {<<JobOf[r], k>> : k \in 1..Passed(r)}
    /\ keys[r] = {} /\ JobOf[r] \notin Counts => DOMAIN writes[r] = {}

\* Committed keys are those of the jobs done, all of each; no two requests hold
\* a key, and none a committed one; a snapshot misses all keys of a job or none.
KeysInv ==
  /\ movements = UNION {JobKeys(j) : j \in Booked}
  /\ \A r \in Requests :
       /\ KeysOK(r)
       /\ keys[r] \cap movements = {}
       /\ \A q \in Requests \ {r} : keys[r] \cap keys[q] = {}
       /\ \A j \in Jobs : JobKeys(j) \subseteq unseenKeys[r] \/ JobKeys(j) \cap unseenKeys[r] = {}

(* The inductive invariant behind LedgerSpec: the quantities. *)

Written(r) == {Pool(id) : id \in DOMAIN writes[r]}
Waiting(r) == {left[r][n] : n \in 1..Len(left[r])}

\* How many of its postings a request has applied to a pool.
Through(r, p) ==
  CASE pc[r] = "baseline" -> 0
    [] pc[r] \in {"check", "register"} -> posting[r] - 1
    [] pc[r] = "lines" -> IF p \in Waiting(r) THEN posting[r] - 1 ELSE posting[r]
    [] OTHER -> Len(Postings[JobOf[r]])

Assumed(r, p) ==
  IF p \in DOMAIN Expected[JobOf[r]] /\ RowsOf(p) = {} THEN Expected[JobOf[r]][p] ELSE 0

\* What an uncommitted row says: the committed level or the count's baseline,
\* and the request's postings to the pool so far.
WritesAddUp(r) ==
  \A id \in DOMAIN writes[r] :
    /\ Pool(id) \in Touched(r)
    /\ writes[r][id] = OnHand(Pool(id)) + Assumed(r, Pool(id))
                         + NetUpTo(JobOf[r], Pool(id), Through(r, Pool(id)))

\* Every pool a posting reached is written.
AppliedIsWritten(r) ==
  \A k \in 1..Len(Postings[JobOf[r]]) : \A p \in DOMAIN Postings[JobOf[r]][k] :
    k <= Through(r, p) => p \in Written(r)

\* A count has written its baseline, or sees a committed row: for the pools with
\* a difference before it posts, for the others before it commits.
SeesRow(r, p) == \E id \in RowsOf(p) : id \notin unseen[r]
BaselineKnown(r) ==
  \A p \in DOMAIN Expected[JobOf[r]] :
    \/ p \in Written(r) \/ SeesRow(r, p)
    \/ pc[r] = "baseline" /\ p \in Waiting(r)
    \/ p \in Matching(JobOf[r]) /\ pc[r] # "commit" /\ (pc[r] = "after" => p \in Waiting(r))

\* The pools whose baseline is still to be written have no row it can see.
BaselineOpen(r) ==
  /\ pc[r] \notin {"after", "commit"} => Written(r) \cap Matching(JobOf[r]) = {}
  /\ pc[r] \in {"baseline", "after"} =>
       \A n \in 1..Len(left[r]) :
         /\ left[r][n] \notin Written(r) /\ RowsOf(left[r][n]) \subseteq unseen[r]
         /\ left[r][n] \in (IF pc[r] = "baseline" THEN Differing(JobOf[r]) ELSE Matching(JobOf[r]))

\* The pools still to be written are each waited for once.
LeftOnce(r) == \A m, n \in 1..Len(left[r]) : left[r][m] = left[r][n] => m = n

Books(r) ==
  WritesAddUp(r) /\ AppliedIsWritten(r) /\ BaselineKnown(r) /\ BaselineOpen(r) /\ LeftOnce(r)
BooksOK(r) == pc[r] \in Active => Replays(r) \/ Books(r)

\* A job done has given its pools a row.
DoneIsTracked == \A j \in Booked : \A p \in DOMAIN Expected[j] : RowsOf(p) # {}

LedgerInv ==
  SoleRows /\ KeysInv /\ DoneIsTracked /\ \A r \in Requests : BooksOK(r)
=============================================================================
