----------------------------- MODULE UnasOrderSync -----------------------------
(***************************************************************************)
(* Webshop orders mirrored from UNAS, with the stock they take:            *)
(* apps/api/src/orders/unas-order-sync/.                                   *)
(*                                                                         *)
(* Three kinds of actor fetch an order over HTTP and only then open the    *)
(* SERIALIZABLE transaction that applies what was fetched.  A poller runs  *)
(* the incremental sync (the scheduler, an administrator's button on       *)
(* another instance); a clerk refreshes one order; a checker is the worker *)
(* that looks for orders UNAS has deleted.  A transaction is one step: it  *)
(* is serializable and retried as a whole.  What can go wrong is between   *)
(* the fetch and the transaction, and between one page and the next.       *)
(*                                                                         *)
(* UNAS names an order twice: by an Id it never uses again and by a Key it *)
(* may hand out again once the order that held it is deleted.              *)
(***************************************************************************)
EXTENDS Integers, FiniteSets

CONSTANTS
  Ids,        \* UNAS orders; UNAS lists them in this order
  Keys,
  KeyOf,      \* [Ids -> Keys]
  Known,      \* orders mirrored before the sync began to store Ids
  Pollers, Clerks, Checkers,
  Quantities, \* what an order may take of its product
  PageSize,
  Overlap,    \* OVERLAP_MS
  StaleAfter, \* STALE_RUN_AFTER_MS
  Nothing,    \* no order
  Legacy,     \* an ExternalReference that still holds the Key as its externalId
  Nobody,     \* no run is RUNNING
  Lost,       \* the run of a process that died
  MaxFlight,  \* bound: time from UNAS's answer to the end of the transaction
  MaxTime,    \* bound: clock
  MaxEdits,   \* bound: changes made in UNAS
  MaxFaults   \* bound: failed calls and transactions, crashes, false NOT_FOUNDs

ASSUME OrderAssumption ==
  /\ Ids \subseteq Nat /\ IsFiniteSet(Ids)
  /\ KeyOf \in [Ids -> Keys]
  /\ Known \subseteq Ids /\ \A i, j \in Known : KeyOf[i] = KeyOf[j] => i = j
  /\ Quantities \subseteq Nat
  /\ PageSize \in Nat \ {0}
  /\ {Overlap, StaleAfter, MaxFlight, MaxTime, MaxEdits, MaxFaults} \subseteq Nat

ASSUME ActorAssumption ==
  /\ Pollers \cap (Clerks \cup Checkers) = {} /\ Clerks \cap Checkers = {}

VARIABLES
  now,        \* the clock, read by UNAS and by the server
  shop,       \* UNAS's orders
  status,     \* SalesOrder.status of the order numbered UNAS-<key>, or "none"
  lines,      \* the quantity its SalesOrderLine shows
  booked,     \* what its movements have taken from stock, net
  deletedAt,  \* whether SalesOrder.unasDeletedAt is set
  externalId, \* ExternalReference.externalId
  leased,     \* whether unasExistenceCheckLeaseExpiresAt is in the future
  cursor,     \* lastSuccessfulWindowEnd
  active,     \* whose run is RUNNING and holds the activeKey
  started,    \* when that run was created
  step,       \* where each poller is
  window,     \* the window of its run
  limitStart, \* orders it has asked UNAS to skip
  byKey,      \* orders it has downloaded
  pc,         \* where each clerk and checker is
  key,        \* the Key it asks UNAS for
  answer,     \* what UNAS answered
  asOf,       \* when
  skipped,    \* history: orders a run's pages have passed without showing them
  behind,     \* history: orders whose last change the sync has let pass
  edits, faults

mirror == <<status, lines, booked, deletedAt, externalId>>
polling == <<cursor, active, started, step, window, limitStart, byKey>>
lookups == <<pc, key, answer, asOf>>
history == <<skipped, behind>>
vars == <<now, shop, mirror, leased, polling, lookups, history, edits, faults>>

Lookups == Clerks \cup Checkers

-----------------------------------------------------------------------------
(* UNAS. *)

Open == "open_normal"
Done == "close_ok"
Fault == "close_fault"
Live == {Open, Done, Fault}

Orders == [state : {"none", "deleted"} \cup Live, quantity : Nat, modified : Nat]
Payloads == [id : Ids, state : Live, quantity : Nat]

ASSUME NameAssumption ==
  /\ Nothing \notin Payloads
  /\ {Legacy, Nothing} \cap Ids = {}
  /\ {Nobody, Lost} \cap Pollers = {}

Exists(i) == shop[i].state \in Live
Payload(i) == [id |-> i, state |-> shop[i].state, quantity |-> shop[i].quantity]

Listed(w) == {i \in Ids : Exists(i) /\ shop[i].modified \in w.start..w.end}

Rank(w, i) == Cardinality({j \in Listed(w) : j <= i})

\* The page after the first n orders of those listed now.
Page(w, n) == {i \in Listed(w) : Rank(w, i) \in (n + 1)..(n + PageSize)}

\* The list of p's run gets shorter: what moves up to the pages p has had by now
\* is on none of them.
MovesUp(p) == {i \in Listed(window[p]) :
  /\ i \in Listed(window[p])'
  /\ Rank(window[p], i) > limitStart[p] /\ Rank(window[p], i)' <= limitStart[p]}

Edit(i, order) ==
  /\ edits < MaxEdits
  /\ edits' = edits + 1
  /\ shop' = [shop EXCEPT ![i] = order]
  /\ UNCHANGED <<now, mirror, leased, polling, lookups, faults>>
  /\ skipped' = [p \in Pollers |-> (skipped[p] \cup MovesUp(p)) \ {i}]
  /\ behind' = behind \ {i}

\* A customer orders; UNAS takes a Key no existing order holds.
Place(i) ==
  /\ shop[i].state = "none"
  /\ \A j \in Ids : KeyOf[j] = KeyOf[i] => ~Exists(j)
  /\ \E q \in Quantities : Edit(i, [state |-> Open, quantity |-> q, modified |-> now])

Change(i) ==
  /\ Exists(i)
  /\ \E s \in Live, q \in Quantities :
       /\ s # shop[i].state \/ q # shop[i].quantity
       /\ Edit(i, [state |-> s, quantity |-> q, modified |-> now])

Delete(i) ==
  /\ Exists(i)
  /\ Edit(i, [shop[i] EXCEPT !.state = "deleted"])

\* Answers older than MaxFlight are no longer on their way.
Tick ==
  /\ now < MaxTime
  /\ \A c \in Lookups : pc[c] = "answered" => now - asOf[c] < MaxFlight
  /\ now' = now + 1
  /\ UNCHANGED <<shop, mirror, leased, polling, lookups, history, edits, faults>>

-----------------------------------------------------------------------------
(* One sighting of an order: findExternalReferenceForOrder, then           *)
(* createNewOrder or applyExistingOrderUpdate with applyOrderStockDelta.   *)

Mapped(p) ==
  CASE p.state = Done -> "COMPLETED"
    [] p.state = Fault -> "CANCELLED"
    [] OTHER -> "CONFIRMED"

\* Mutant: the legacy match does not ask whether the order was deleted.
IsKnownByKey(k, p) == externalId[k] \in {p.id, Legacy}

\* The reference is found by Id, or by Key while its order is not deleted.
IsKnown(k, p) == externalId[k] = p.id \/ (externalId[k] = Legacy /\ ~deletedAt[k])

\* SalesOrder.orderNumber is unique.
Collides(k, p) == ~IsKnown(k, p) /\ status[k] # "none"

\* What the order should have taken from stock.
Target(k, p) == IF Mapped(p) = "CANCELLED" THEN 0 ELSE p.quantity

\* Mutant: the delta is taken the wrong way round.
BookedTheOtherWay(k, p) == booked[k] - (Target(k, p) - booked[k])

\* An order that is and stays cancelled is not touched; a cancelled one keeps
\* the lines it had.
BookedAfter(k, p) ==
  IF Mapped(p) = "CANCELLED" /\ status[k] = "CANCELLED" THEN booked[k] ELSE Target(k, p)

LinesAfter(k, p) ==
  IF Mapped(p) = "CANCELLED" /\ status[k] # "none" THEN lines[k] ELSE p.quantity

Sight(seen) ==
  LET Sighted(k) == seen[k] # Nothing IN
  /\ status' = [k \in Keys |-> IF Sighted(k) THEN Mapped(seen[k]) ELSE status[k]]
  /\ lines' = [k \in Keys |-> IF Sighted(k) THEN LinesAfter(k, seen[k]) ELSE lines[k]]
  /\ booked' = [k \in Keys |-> IF Sighted(k) THEN BookedAfter(k, seen[k]) ELSE booked[k]]
  /\ deletedAt' = [k \in Keys |-> ~Sighted(k) /\ deletedAt[k]]
  /\ externalId' = [k \in Keys |-> IF Sighted(k) THEN seen[k].id ELSE externalId[k]]

-----------------------------------------------------------------------------
(* runIncremental. *)

Nowhen == [start |-> 0, end |-> 0]
Empty == [k \in Keys |-> Nothing]

Fail ==
  /\ faults < MaxFaults
  /\ faults' = faults + 1

Goto(p, s) == step' = [step EXCEPT ![p] = s]

\* The call ends and its variables go.
End(p) ==
  /\ Goto(p, "idle")
  /\ window' = [window EXCEPT ![p] = Nowhen]
  /\ limitStart' = [limitStart EXCEPT ![p] = 0]
  /\ byKey' = [byKey EXCEPT ![p] = Empty]
  /\ skipped' = [skipped EXCEPT ![p] = {}]

\* windowEnd = new Date() as the call begins.
Call(p) ==
  /\ step[p] = "idle"
  /\ Goto(p, "called")
  /\ window' = [window EXCEPT ![p].end = now]
  /\ UNCHANGED <<now, shop, mirror, leased, cursor, active, started, limitStart, byKey,
                 lookups, history, edits, faults>>

\* Mutant: the window begins where the last one ended.
StartAtCursor == cursor

\* Time 0 stands for no cursor and for a window without a start.
WindowStart == IF cursor = 0 THEN 0 ELSE cursor - Overlap

ReadCursor(p) ==
  /\ step[p] = "called"
  /\ Goto(p, "windowed")
  /\ window' = [window EXCEPT ![p].start = WindowStart]
  /\ UNCHANGED <<now, shop, mirror, leased, cursor, active, started, limitStart, byKey,
                 lookups, history, edits, faults>>

\* A run nobody has finished is given up first.
IsStale == now - started > StaleAfter

CreateRun(p) ==
  /\ step[p] = "windowed"
  /\ active = Nobody \/ IsStale
  /\ Goto(p, "running")
  /\ active' = p
  /\ started' = now
  /\ limitStart' = [limitStart EXCEPT ![p] = 0]
  /\ byKey' = [byKey EXCEPT ![p] = Empty]
  /\ UNCHANGED <<now, shop, mirror, leased, cursor, window, lookups, history, edits, faults>>

\* UNAS_ORDER_SYNC_ALREADY_RUNNING.
AlreadyRunning(p) ==
  /\ step[p] = "windowed"
  /\ active # Nobody /\ ~IsStale
  /\ End(p)
  /\ UNCHANGED <<now, shop, mirror, leased, cursor, active, started, lookups, behind,
                 edits, faults>>

DownloadPage(p) ==
  /\ step[p] = "running"
  /\ LET page == Page(window[p], limitStart[p]) IN
       /\ byKey' = [byKey EXCEPT ![p] =
            [k \in Keys |->
               IF \E i \in page : KeyOf[i] = k
               THEN Payload(CHOOSE i \in page : KeyOf[i] = k)
               ELSE byKey[p][k]]]
       /\ limitStart' = [limitStart EXCEPT ![p] = @ + PageSize]
       /\ IF Cardinality(page) < PageSize THEN Goto(p, "downloaded") ELSE UNCHANGED step
  /\ UNCHANGED <<now, shop, mirror, leased, cursor, active, started, window, lookups,
                 history, edits, faults>>

\* Mutant: what UNAS has now is taken for what the window covered.
EndOfApply(p) == now

CursorAfter(p) == window[p].end

\* The run is over: markFailed and APPLIED both give the activeKey up, unless
\* another call has declared the run stale and taken it.
Release(p) ==
  /\ active' = IF active = p THEN Nobody ELSE active
  /\ started' = IF active = p THEN 0 ELSE started

\* The orders a sighting shows.
Shown(seen) == {i \in Ids : seen[KeyOf[i]] # Nothing /\ seen[KeyOf[i]].id = i}

Apply(p) ==
  /\ step[p] = "downloaded"
  /\ active = p
  /\ \A k \in Keys : byKey[p][k] # Nothing => ~Collides(k, byKey[p][k])
  /\ Sight(byKey[p])
  /\ behind' = (behind \cup skipped[p]) \ Shown(byKey[p])
  /\ cursor' = CursorAfter(p)
  /\ Release(p)
  /\ End(p)
  /\ UNCHANGED <<now, shop, leased, lookups, edits, faults>>

\* INVALID_ORDER_SYNC_RUN_STATE, or a unique order number: nothing of the batch
\* is kept and the cursor stays.
ApplyRefused(p) ==
  /\ step[p] = "downloaded"
  /\ \/ active # p
     \/ \E k \in Keys : byKey[p][k] # Nothing /\ Collides(k, byKey[p][k])
  /\ Release(p)
  /\ End(p)
  /\ UNCHANGED <<now, shop, mirror, leased, cursor, lookups, behind, edits, faults>>

\* A page or the transaction fails for good: markFailed.
RunFails(p) ==
  /\ step[p] \in {"running", "downloaded"}
  /\ Fail
  /\ Release(p)
  /\ End(p)
  /\ UNCHANGED <<now, shop, mirror, leased, cursor, lookups, behind, edits>>

\* The process dies and leaves its run RUNNING.
Crash(p) ==
  /\ step[p] \in {"running", "downloaded"}
  /\ started + StaleAfter < MaxTime
  /\ Fail
  /\ active' = IF active = p THEN Lost ELSE active
  /\ End(p)
  /\ UNCHANGED <<now, shop, mirror, leased, cursor, started, lookups, behind, edits>>

-----------------------------------------------------------------------------
(* refreshOrder and the deletion worker's processOne. *)

Ask(c, k) ==
  /\ pc' = [pc EXCEPT ![c] = "asking"]
  /\ key' = [key EXCEPT ![c] = k]

\* getUnasKey finds the Key of an order that came from UNAS.
Refresh(c, k) ==
  /\ c \in Clerks
  /\ pc[c] = "idle"
  /\ status[k] # "none"
  /\ Ask(c, k)
  /\ UNCHANGED <<now, shop, mirror, leased, polling, answer, asOf, history, edits, faults>>

Claimable(k) == status[k] = "CONFIRMED" /\ ~deletedAt[k]

\* claimBatch, of one order.
Claim(c, k) ==
  /\ c \in Checkers
  /\ pc[c] = "idle"
  /\ Claimable(k)
  /\ ~leased[k]
  /\ leased' = [leased EXCEPT ![k] = TRUE]
  /\ Ask(c, k)
  /\ UNCHANGED <<now, shop, mirror, polling, answer, asOf, history, edits, faults>>

LeaseExpires(k) ==
  /\ leased[k]
  /\ leased' = [leased EXCEPT ![k] = FALSE]
  /\ UNCHANGED <<now, shop, mirror, polling, lookups, history, edits, faults>>

Answer(c, a) ==
  /\ pc[c] = "asking"
  /\ pc' = [pc EXCEPT ![c] = "answered"]
  /\ answer' = [answer EXCEPT ![c] = a]
  /\ asOf' = [asOf EXCEPT ![c] = now]
  /\ UNCHANGED <<now, shop, mirror, leased, polling, key, history, edits>>

\* getOrderByKey.
Found(c) ==
  /\ \E i \in Ids : KeyOf[i] = key[c] /\ Exists(i) /\ Answer(c, Payload(i))
  /\ UNCHANGED faults

NotFound(c) ==
  /\ \A i \in Ids : KeyOf[i] = key[c] => ~Exists(i)
  /\ Answer(c, Nothing)
  /\ UNCHANGED faults

FalseNotFound(c) ==
  /\ \E i \in Ids : KeyOf[i] = key[c] /\ Exists(i)
  /\ Fail
  /\ Answer(c, Nothing)

\* The call ends and its variables go.
Return(c) ==
  /\ pc' = [pc EXCEPT ![c] = "idle"]
  /\ key' = [key EXCEPT ![c] = Nothing]
  /\ answer' = [answer EXCEPT ![c] = Nothing]
  /\ asOf' = [asOf EXCEPT ![c] = 0]

\* A checker's releaseAfterCheck or clearAfterDeletion drops the lease, whoever
\* holds it by now.
Finish(c) ==
  /\ Return(c)
  /\ leased' = IF c \in Checkers THEN [leased EXCEPT ![key[c]] = FALSE] ELSE leased
  /\ UNCHANGED <<now, shop, polling, skipped, edits>>

\* The answer is older than the overlap, and the order has changed since.
Overtaken(c) == {i \in Ids :
  KeyOf[i] = key[c] /\ shop[i].modified >= asOf[c] /\ now - asOf[c] > Overlap}

\* repository.refreshOrder.
ApplyRefresh(c) ==
  /\ c \in Clerks
  /\ pc[c] = "answered" /\ answer[c] # Nothing
  /\ IsKnown(key[c], answer[c])
  /\ LET seen == [Empty EXCEPT ![key[c]] = answer[c]] IN
       /\ Sight(seen)
       /\ behind' = (behind \ Shown(seen)) \cup Overtaken(c)
  /\ Finish(c)
  /\ UNCHANGED faults

\* UNAS_ORDER_KEY_MISMATCH.
KeyMismatch(c) ==
  /\ c \in Clerks
  /\ pc[c] = "answered" /\ answer[c] # Nothing
  /\ ~IsKnown(key[c], answer[c])
  /\ Finish(c)
  /\ UNCHANGED <<mirror, behind, faults>>

\* The checker found the order: it leaves it to the other two.
StillExists(c) ==
  /\ c \in Checkers
  /\ pc[c] = "answered" /\ answer[c] # Nothing
  /\ Finish(c)
  /\ UNCHANGED <<mirror, behind, faults>>

\* Mutant: the stock of a deleted order is left as it was.
NothingReturned(k) == booked[k]

ReturnedTo(k) == IF deletedAt[k] THEN booked[k] ELSE 0

ReconcileDeletedOrder(c) ==
  /\ pc[c] = "answered" /\ answer[c] = Nothing
  /\ LET k == key[c] IN
       /\ booked' = [booked EXCEPT ![k] = ReturnedTo(k)]
       /\ status' = [status EXCEPT ![k] = IF deletedAt[k] THEN @ ELSE "CANCELLED"]
       /\ deletedAt' = [deletedAt EXCEPT ![k] = TRUE]
  /\ UNCHANGED <<lines, externalId, behind>>
  /\ Finish(c)
  /\ UNCHANGED faults

\* An HTTP error, or a transaction that fails for good: never a deletion.
LookupFails(c) ==
  /\ pc[c] \in {"asking", "answered"}
  /\ Fail
  /\ Finish(c)
  /\ UNCHANGED <<mirror, behind>>

\* The process dies: nobody drops the lease.
LookupDies(c) ==
  /\ pc[c] \in {"asking", "answered"}
  /\ Fail
  /\ Return(c)
  /\ UNCHANGED <<now, shop, mirror, leased, polling, history, edits>>

-----------------------------------------------------------------------------
Init ==
  /\ now = 1
  /\ \E q \in Quantities :
       /\ shop = [i \in Ids |->
            [state |-> IF i \in Known THEN Open ELSE "none",
             quantity |-> IF i \in Known THEN q ELSE 0,
             modified |-> 0]]
       /\ lines = [k \in Keys |-> IF \E i \in Known : KeyOf[i] = k THEN q ELSE 0]
  /\ status = [k \in Keys |-> IF \E i \in Known : KeyOf[i] = k THEN "CONFIRMED" ELSE "none"]
  /\ booked = lines
  /\ deletedAt = [k \in Keys |-> FALSE]
  /\ externalId = [k \in Keys |-> IF \E i \in Known : KeyOf[i] = k THEN Legacy ELSE Nothing]
  /\ leased = [k \in Keys |-> FALSE]
  /\ cursor = 0 /\ active = Nobody /\ started = 0
  /\ step = [p \in Pollers |-> "idle"]
  /\ window = [p \in Pollers |-> Nowhen]
  /\ limitStart = [p \in Pollers |-> 0]
  /\ byKey = [p \in Pollers |-> Empty]
  /\ pc = [c \in Lookups |-> "idle"]
  /\ key = [c \in Lookups |-> Nothing]
  /\ answer = [c \in Lookups |-> Nothing]
  /\ asOf = [c \in Lookups |-> 0]
  /\ skipped = [p \in Pollers |-> {}] /\ behind = {}
  /\ edits = 0 /\ faults = 0

Shop == \E i \in Ids : Place(i) \/ Change(i) \/ Delete(i)

Poll(p) ==
  \/ Call(p) \/ ReadCursor(p) \/ CreateRun(p) \/ AlreadyRunning(p)
  \/ DownloadPage(p) \/ Apply(p) \/ ApplyRefused(p)

Begin(c) == \E k \in Keys : Refresh(c, k) \/ Claim(c, k)

Proceed(c) ==
  \/ Found(c) \/ NotFound(c)
  \/ ApplyRefresh(c) \/ KeyMismatch(c) \/ StillExists(c) \/ ReconcileDeletedOrder(c)

Next ==
  \/ Shop
  \/ Tick
  \/ \E p \in Pollers : Poll(p) \/ RunFails(p) \/ Crash(p)
  \/ \E c \in Lookups : Begin(c) \/ Proceed(c)
       \/ FalseNotFound(c) \/ LookupFails(c) \/ LookupDies(c)
  \/ \E k \in Keys : LeaseExpires(k)

Spec == Init /\ [][Next]_vars

\* The schedulers call again after every run and every batch, calls end, and the
\* least recently checked orders are claimed first, leases run out.
Fairness ==
  /\ WF_vars(Tick)
  /\ \A p \in Pollers : WF_vars(Poll(p))
  /\ \A c \in Lookups : WF_vars(Proceed(c))
  /\ \A c \in Checkers, k \in Keys : SF_vars(Claim(c, k))
  /\ \A k \in Keys : WF_vars(LeaseExpires(k))

FairSpec == Spec /\ Fairness

-----------------------------------------------------------------------------
(* Properties. *)

Statuses == {"none", "CONFIRMED", "COMPLETED", "CANCELLED"}

TypeOK ==
  /\ now \in Nat /\ shop \in [Ids -> Orders]
  /\ status \in [Keys -> Statuses]
  /\ lines \in [Keys -> Nat] /\ booked \in [Keys -> Nat]
  /\ deletedAt \in [Keys -> BOOLEAN] /\ leased \in [Keys -> BOOLEAN]
  /\ externalId \in [Keys -> Ids \cup {Legacy, Nothing}]
  /\ cursor \in Nat /\ active \in Pollers \cup {Nobody, Lost} /\ started \in Nat
  /\ step \in [Pollers -> {"idle", "called", "windowed", "running", "downloaded"}]
  /\ window \in [Pollers -> [start : Int, end : Nat]]
  /\ limitStart \in [Pollers -> Nat]
  /\ byKey \in [Pollers -> [Keys -> Payloads \cup {Nothing}]]
  /\ pc \in [Lookups -> {"idle", "asking", "answered"}]
  /\ key \in [Lookups -> Keys \cup {Nothing}]
  /\ answer \in [Lookups -> Payloads \cup {Nothing}]
  /\ asOf \in [Lookups -> Nat]
  /\ skipped \in [Pollers -> SUBSET Ids] /\ behind \in SUBSET Ids
  /\ edits \in Nat /\ faults \in Nat

\* Whatever the order in which pollers, clerks and checkers sight, cancel,
\* delete and restore an order, its movements net out to the lines it shows, and
\* to nothing once it is cancelled or deleted (applyOrderStockDelta).
BookedIsOrdered == \A k \in Keys :
  /\ booked[k] = IF status[k] \in {"CONFIRMED", "COMPLETED"} THEN lines[k] ELSE 0
  /\ deletedAt[k] => status[k] = "CANCELLED"

Mirrored(i) ==
  LET k == KeyOf[i] IN
  /\ externalId[k] \in {i, Legacy}
  /\ status[k] = Mapped(Payload(i))
  /\ booked[k] = Target(k, Payload(i))

\* Once the cursor is more than an overlap past an order's last change, the mirror
\* shows that change and not an older answer that a slow call brought in
\* afterwards, however runs overlap, fail, die and are taken over.  A change is
\* passed by in two ways only, until the order is shown or changed again: the
\* list got shorter between two pages and the order moved to a page the run had
\* had already, or a refresh applied an answer older than the overlap (OVERLAP_MS,
\* runIncremental, downloadOrders).
SettledBehindOverlap == \A i \in Ids \ behind :
  Exists(i) /\ shop[i].modified + Overlap < cursor /\ ~deletedAt[KeyOf[i]] => Mirrored(i)

\* A deletion mark is only lifted by an answer about the same order: by its Id,
\* never by its Key (UNAS_ORDER_RECOVERY_ID_MISMATCH).
NeverResurrected == [][\A k \in Keys :
  deletedAt[k] /\ ~deletedAt'[k] => externalId[k] \in Ids /\ externalId'[k] = externalId[k]]_vars

\* docs/INVENTORY-CONSISTENCY.md: a new order under a Key used before always
\* becomes an order of its own, without a unique key colliding.
NewOrdersNeverCollide == \A p \in Pollers, k \in Keys :
  step[p] = "downloaded" /\ active = p /\ byKey[p][k] # Nothing => ~Collides(k, byKey[p][k])

\* findExternalReferenceForOrder's comment: an order found by its Key is the
\* order that was mirrored under it.
KnownOrdersKeepTheirRow == \A i \in Known : externalId[KeyOf[i]] \in {i, Legacy}

\* When UNAS's orders no longer change, the mirror of every order that is not
\* marked deleted comes to show it, and stays so (the pollers).
Converges == <>[](\A i \in Ids : Exists(i) /\ ~deletedAt[KeyOf[i]] => Mirrored(i))

\* The stock of an order deleted in UNAS is given back for good, unless the
\* order was completed (the deletion worker).
DeletedGivesBack == <>[](\A i \in Ids :
  LET k == KeyOf[i] IN
  shop[i].state = "deleted" /\ externalId[k] = i => booked[k] = 0 \/ status[k] = "COMPLETED")
=============================================================================
