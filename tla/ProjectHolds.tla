------------------------------ MODULE ProjectHolds ------------------------------
(***************************************************************************)
(* Stock held for projects: purchase invoices that hold part of what they  *)
(* bring, quotes handed off to a project, releases, project closes and     *)
(* cancelled invoices (apps/api/src/purchasing/, quotes/quote-handoff).    *)
(*                                                                         *)
(* Every writer of a stock row takes the row's advisory lock before it     *)
(* reads it, so a READ COMMITTED transaction that reads nothing earlier is *)
(* one step: a sale, a release, a cancellation, a rename.  The others read *)
(* first and are two: a close lists its holds; recording an invoice and    *)
(* executing a handoff are SERIALIZABLE and see one snapshot throughout,   *)
(* older than any lock they wait for.                                      *)
(***************************************************************************)
EXTENDS HandoffShares, FiniteSets

CONSTANTS
  Rows,          \* stock rows of one product, one for each warehouse
  Order,         \* the order a plan takes them in
  InitialStock,  \* [Rows -> Nat]
  Projects, OpenProjects,
  Invoices,
  RowOf,         \* the row an invoice's goods go to
  Numbers,       \* what a supplier numbers its invoices with
  Amounts,       \* what an invoice may bring
  Quotes,
  Needed,        \* what the lines of a quote ask for
  Clerks,
  Nothing,
  Cancelled,     \* the key of a cancelled invoice's receipt
  MaxSold        \* bound: sales of each row

ASSUME HoldsAssumption ==
  /\ IsFiniteSet(Rows) /\ IsFiniteSet(Projects) /\ IsFiniteSet(Invoices)
  /\ InitialStock \in [Rows -> Nat]
  /\ Order \in Seq(Rows) /\ \A i, j \in DOMAIN Order : Order[i] = Order[j] => i = j
  /\ OpenProjects \subseteq Projects
  /\ RowOf \in [Invoices -> Rows]
  /\ Amounts \subseteq Nat /\ MaxSold \in Nat
  /\ Needed \in [Quotes -> Seq(Nat)]
  /\ Cancelled \notin Numbers /\ Nothing \notin Numbers \cup {Cancelled}
  /\ Nothing \notin Projects \cup Quotes
  /\ Quotes \cap Invoices = {}

VARIABLES
  onHand, reserved,
  queued,       \* targetOnHand of the row's newest outbox entry
  sold,         \* what the till has taken from the row
  holds,        \* ProjectInventoryReservation
  project,      \* Project.status, "none" before it is created
  sourceQuote,  \* Project.sourceQuoteId
  handoff,      \* the project of the quote's QuoteProjectHandoff
  invoice,      \* PurchaseInvoice.status
  number,       \* supplierInvoiceNumber
  receipt,      \* idempotencyKey of its receipt movement
  arrived,      \* what that movement brought
  pc,
  request,      \* the invoice a clerk is recording
  keysSeen,     \* receipt keys in its snapshot
  rowSeen,      \* the stock row in its snapshot
  closing,      \* the project a clerk is closing
  holdsSeen,    \* its active holds when they were listed
  quote,        \* the quote a clerk is handing off
  plan,         \* the plan it was shown
  moved         \* what others committed since a clerk's snapshot

stock == <<onHand, reserved, queued, sold, holds>>
projects == <<project, sourceQuote, handoff>>
invoices == <<invoice, number, receipt, arrived>>
recording == <<request, keysSeen, rowSeen>>
handing == <<quote, plan>>
clerks == <<pc, recording, closing, holdsSeen, handing>>
vars == <<stock, projects, invoices, clerks, moved>>

-----------------------------------------------------------------------------
(* Rows and holds.                                                         *)

Hold(source, item, p, w, quantity) ==
  [source |-> source, item |-> item, project |-> p, row |-> w, quantity |-> quantity,
   status |-> "ACTIVE"]

Active == {h \in holds : h.status = "ACTIVE"}

SumOf(some) == SumFunctionOnSet([h \in some |-> h.quantity], some)

OnRow(some, w) == {h \in some : h.row = w}
RowsOf(some) == {h.row : h \in some}

Free(w) == onHand[w] - reserved[w]

\* Mutant: the shop is told what is there, held or not.
AllThereIs(w) == onHand'[w]

Available(w) == onHand'[w] - reserved'[w]

\* enqueueStockSyncOutboxEntry, for the rows a transaction has changed.
Queue(changed) ==
  queued' = [w \in Rows |-> IF w \in changed THEN Available(w) ELSE queued[w]]

\* What a snapshot taken before this commit does not show.
Commit(changed) ==
  moved' = [c \in Clerks |-> IF pc'[c] \in {"recording", "handing"}
                             THEN moved[c] \cup changed ELSE {}]

Goto(c, s) == pc' = [pc EXCEPT ![c] = s]

NoRequest == [invoice |-> Nothing, number |-> Nothing, amount |-> 0,
              allocation |-> [p \in Projects |-> 0]]
NoRow == [onHand |-> 0, reserved |-> 0]

\* A request ends, whatever came of it.
End(c) ==
  /\ Goto(c, "idle")
  /\ request' = [request EXCEPT ![c] = NoRequest]
  /\ keysSeen' = [keysSeen EXCEPT ![c] = {}]
  /\ rowSeen' = [rowSeen EXCEPT ![c] = NoRow]
  /\ closing' = [closing EXCEPT ![c] = Nothing]
  /\ holdsSeen' = [holdsSeen EXCEPT ![c] = {}]
  /\ quote' = [quote EXCEPT ![c] = Nothing]
  /\ plan' = [plan EXCEPT ![c] = Nothing]

\* A sale at the till, or any other movement that takes stock.
Sell(w) ==
  /\ sold[w] < MaxSold
  /\ sold' = [sold EXCEPT ![w] = @ + 1]
  /\ onHand' = [onHand EXCEPT ![w] = @ - 1]
  /\ UNCHANGED <<reserved, holds>>
  /\ Queue({w})
  /\ UNCHANGED <<projects, invoices, clerks>>
  /\ Commit({w})

-----------------------------------------------------------------------------
(* releaseReservations.                                                    *)

Released(h) == [h EXCEPT !.status = "RELEASED"]

\* The conditional update skips what another release has taken.
StillActive(listed) == listed \cap Active

\* Mutant: what was listed is released, whatever has become of it.
ReleaseListed(listed) ==
  /\ holds' = (holds \ listed) \cup {Released(h) : h \in listed}
  /\ reserved' = [w \in Rows |-> reserved[w] - SumOf(OnRow(listed, w))]

\* A row that reserves less than its holds say refuses the whole release.
ReleaseAll(listed) ==
  LET ending == StillActive(listed) IN
  /\ \A w \in RowsOf(ending) : reserved[w] >= SumOf(OnRow(ending, w))
  /\ holds' = (holds \ ending) \cup {Released(h) : h \in ending}
  /\ reserved' = [w \in Rows |-> IF w \in RowsOf(ending)
                                THEN reserved[w] - SumOf(OnRow(ending, w))
                                ELSE reserved[w]]

\* By hand.
Release(h) ==
  /\ h \in Active
  /\ ReleaseAll({h})
  /\ UNCHANGED <<onHand, sold>>
  /\ Queue({h.row})
  /\ UNCHANGED <<projects, invoices, clerks>>
  /\ Commit({h.row})

\* The status is claimed, a second close waits for it, and the holds listed.
BeginClose(c, p) ==
  /\ pc[c] = "idle"
  /\ project[p] = "open"
  /\ \A d \in Clerks : closing[d] # p
  /\ Goto(c, "closing")
  /\ closing' = [closing EXCEPT ![c] = p]
  /\ holdsSeen' = [holdsSeen EXCEPT ![c] = {h \in Active : h.project = p}]
  /\ UNCHANGED <<stock, projects, invoices, recording, handing>>
  /\ Commit({})

Close(c) ==
  /\ pc[c] = "closing"
  /\ project' = [project EXCEPT ![closing[c]] = "closed"]
  /\ ReleaseAll(holdsSeen[c])
  /\ UNCHANGED <<onHand, sold>>
  /\ LET changed == RowsOf(StillActive(holdsSeen[c])) IN
       /\ Queue(changed)
       /\ UNCHANGED <<sourceQuote, handoff, invoices>>
       /\ End(c)
       /\ Commit(changed)

-----------------------------------------------------------------------------
(* PurchaseInvoiceRepository.create.                                       *)

Total(allocation) == SumFunctionOnSet(allocation, Projects)

\* What an invoice that brings an amount may hold for projects that are open.
Allocations(amount) ==
  {allocation \in [Projects -> 0..amount] :
     /\ Total(allocation) <= amount
     /\ \A p \in Projects : allocation[p] > 0 => project[p] = "open"}

NumberTaken(n) == \E e \in Invoices : invoice[e] = "posted" /\ number[e] = n

\* The snapshot: projects are open in it, and these receipts are in it.
BeginInvoice(c, d) ==
  /\ pc[c] = "idle"
  /\ invoice[d] = "none"
  /\ \A e \in Clerks : request[e].invoice # d
  /\ \E n \in Numbers, amount \in Amounts :
       \E allocation \in Allocations(amount) :
         request' = [request EXCEPT ![c] =
           [invoice |-> d, number |-> n, amount |-> amount, allocation |-> allocation]]
  /\ Goto(c, "recording")
  /\ keysSeen' = [keysSeen EXCEPT ![c] = {receipt[e] : e \in Invoices} \cap Numbers]
  /\ rowSeen' = [rowSeen EXCEPT ![c] =
       [onHand |-> onHand[RowOf[d]], reserved |-> reserved[RowOf[d]]]]
  /\ UNCHANGED <<stock, projects, invoices, closing, holdsSeen, handing>>
  /\ Commit({})

\* postInventoryMovement looks the key up in the snapshot.
AlreadyPosted(c) == request[c].number \in keysSeen[c]

HoldsOf(c) ==
  LET r == request[c] IN
  {Hold(r.invoice, 1, p, RowOf[r.invoice], r.allocation[p]) :
     p \in {q \in Projects : r.allocation[q] > 0}}

WritesRow(c) == ~AlreadyPosted(c) \/ HoldsOf(c) # {}

\* Mutant: the transaction is not serializable.
NeverStale(c) == FALSE

\* A row, or the outbox entry of an earlier receipt, that changed since.
InvoiceConflict(c) ==
  \/ WritesRow(c) /\ RowOf[request[c].invoice] \in moved[c]
  \/ AlreadyPosted(c) /\ HoldsOf(c) # {}

PostInvoice(c) ==
  /\ pc[c] = "recording"
  /\ ~NumberTaken(request[c].number)
  /\ ~InvoiceConflict(c)
  /\ LET r == request[c]
         w == RowOf[r.invoice]
         brought == IF AlreadyPosted(c) THEN 0 ELSE r.amount
         changed == IF WritesRow(c) THEN {w} ELSE {} IN
       /\ invoice' = [invoice EXCEPT ![r.invoice] = "posted"]
       /\ number' = [number EXCEPT ![r.invoice] = r.number]
       /\ receipt' = [receipt EXCEPT ![r.invoice] =
                        IF AlreadyPosted(c) THEN Nothing ELSE r.number]
       /\ arrived' = [arrived EXCEPT ![r.invoice] = brought]
       /\ onHand' = [onHand EXCEPT ![w] =
                       IF AlreadyPosted(c) THEN @ ELSE rowSeen[c].onHand + brought]
       /\ reserved' = [reserved EXCEPT ![w] =
                       IF HoldsOf(c) = {} THEN @ ELSE rowSeen[c].reserved + Total(r.allocation)]
       /\ holds' = holds \cup HoldsOf(c)
       /\ Queue(changed)
       /\ UNCHANGED <<sold, projects>>
       /\ End(c)
       /\ Commit(changed)

\* A number taken meanwhile, or a conflict: the receipt is not retried.
RefuseInvoice(c) ==
  /\ pc[c] = "recording"
  /\ NumberTaken(request[c].number) \/ InvoiceConflict(c)
  /\ End(c)
  /\ UNCHANGED <<stock, projects, invoices>>
  /\ Commit({})

-----------------------------------------------------------------------------
(* Cancelling and renaming an invoice.                                     *)

\* Mutant: what the invoice once held is all taken for its own.
EverHeldBy(d) == {h \in holds : h.source = d}

OwnHolds(d) == {h \in Active : h.source = d}

\* What others hold stays held.
CanGoOut(d) ==
  LET w == RowOf[d]
      others == reserved[w] - SumOf(OwnHolds(d)) IN
  /\ onHand[w] >= arrived[d]
  /\ onHand[w] - others >= arrived[d]

\* Mutant: a cancelled invoice's receipt keeps its key.
KeptKey(d) == receipt[d]

FreedKey(d) == Cancelled

Cancel(d) ==
  /\ invoice[d] = "posted"
  /\ receipt[d] # Nothing => CanGoOut(d)
  /\ invoice' = [invoice EXCEPT ![d] = "cancelled"]
  /\ receipt' = [receipt EXCEPT ![d] = IF receipt[d] = Nothing THEN Nothing ELSE FreedKey(d)]
  /\ onHand' = [onHand EXCEPT ![RowOf[d]] =
                   IF receipt[d] = Nothing THEN @ ELSE @ - arrived[d]]
  /\ ReleaseAll(OwnHolds(d))
  /\ LET changed == RowsOf(OwnHolds(d))
                      \cup (IF receipt[d] = Nothing THEN {} ELSE {RowOf[d]}) IN
       /\ Queue(changed)
       /\ UNCHANGED <<sold, projects, number, arrived, clerks>>
       /\ Commit(changed)

\* PurchaseInvoiceEditService: the receipt's key goes with the number.
Rename(d, n) ==
  /\ invoice[d] = "posted" /\ n # number[d]
  /\ ~NumberTaken(n)
  /\ number' = [number EXCEPT ![d] = n]
  /\ receipt' = [receipt EXCEPT ![d] = IF receipt[d] = Nothing THEN Nothing ELSE n]
  /\ UNCHANGED <<stock, projects, invoice, arrived, clerks>>
  /\ Commit({})

-----------------------------------------------------------------------------
(* Handing a quote off to a project.                                       *)

PlanNow(q) == Shares(Needed[q], [k \in DOMAIN Order |-> Free(Order[k])])

Preview(c, q) ==
  /\ pc[c] = "idle"
  /\ handoff[q] = Nothing
  /\ Goto(c, "previewed")
  /\ quote' = [quote EXCEPT ![c] = q]
  /\ plan' = [plan EXCEPT ![c] = PlanNow(q)]
  /\ UNCHANGED <<stock, projects, invoices, recording, closing, holdsSeen>>
  /\ Commit({})

\* The snapshot, in which the plan is made again.
BeginHandoff(c) ==
  /\ pc[c] = "previewed"
  /\ handoff[quote[c]] = Nothing
  /\ plan[c] = PlanNow(quote[c])
  /\ Goto(c, "handing")
  /\ UNCHANGED <<stock, projects, invoices, recording, closing, holdsSeen, handing>>
  /\ Commit({})

\* The project exists already, or the plan is another one.
AnswerHandoff(c) ==
  /\ pc[c] = "previewed"
  /\ handoff[quote[c]] # Nothing \/ plan[c] # PlanNow(quote[c])
  /\ End(c)
  /\ UNCHANGED <<stock, projects, invoices>>
  /\ Commit({})

Planned(c) == {ik \in (DOMAIN plan[c]) \X (DOMAIN Order) : plan[c][ik[1]][ik[2]] > 0}

PlannedRows(c) == {Order[ik[2]] : ik \in Planned(c)}

\* Mutant: a handoff does not touch its quote.
StockConflict(c) == PlannedRows(c) \cap moved[c] # {}

\* The quote's row, which every handoff of it touches, or a stock row it writes.
HandoffConflict(c) ==
  quote[c] \in moved[c] \/ PlannedRows(c) \cap moved[c] # {}

HoldsPlanned(c, p) ==
  {Hold(quote[c], ik[1], p, Order[ik[2]], plan[c][ik[1]][ik[2]]) : ik \in Planned(c)}

Handoff(c) ==
  /\ pc[c] = "handing"
  /\ ~HandoffConflict(c)
  /\ \E p \in Projects :
       /\ project[p] = "none"
       /\ project' = [project EXCEPT ![p] = "open"]
       /\ sourceQuote' = [sourceQuote EXCEPT ![p] = quote[c]]
       /\ handoff' = [handoff EXCEPT ![quote[c]] = p]
       /\ holds' = holds \cup HoldsPlanned(c, p)
       /\ reserved' = [w \in Rows |-> IF w \in PlannedRows(c)
                                     THEN reserved[w] + SumOf(OnRow(HoldsPlanned(c, p), w))
                                     ELSE reserved[w]]
  /\ UNCHANGED <<onHand, sold>>
  /\ Queue(PlannedRows(c))
  /\ UNCHANGED invoices
  /\ End(c)
  /\ Commit(PlannedRows(c) \cup {quote[c]})

\* retryOnSerializationConflict.
RetryHandoff(c) ==
  /\ pc[c] = "handing"
  /\ HandoffConflict(c)
  /\ Goto(c, "previewed")
  /\ UNCHANGED <<stock, projects, invoices, recording, closing, holdsSeen, handing>>
  /\ Commit({})

\* A timeout, a deadlock, one conflict too many, or a dead process: the
\* transaction rolls back.
Fail(c) ==
  /\ pc[c] # "idle"
  /\ End(c)
  /\ UNCHANGED <<stock, projects, invoices>>
  /\ Commit({})

-----------------------------------------------------------------------------
Init ==
  /\ onHand = InitialStock
  /\ reserved = [w \in Rows |-> 0]
  /\ queued = InitialStock
  /\ sold = [w \in Rows |-> 0]
  /\ holds = {}
  /\ project = [p \in Projects |-> IF p \in OpenProjects THEN "open" ELSE "none"]
  /\ sourceQuote = [p \in Projects |-> Nothing]
  /\ handoff = [q \in Quotes |-> Nothing]
  /\ invoice = [d \in Invoices |-> "none"]
  /\ number = [d \in Invoices |-> Nothing]
  /\ receipt = [d \in Invoices |-> Nothing]
  /\ arrived = [d \in Invoices |-> 0]
  /\ pc = [c \in Clerks |-> "idle"]
  /\ request = [c \in Clerks |-> NoRequest]
  /\ keysSeen = [c \in Clerks |-> {}]
  /\ rowSeen = [c \in Clerks |-> NoRow]
  /\ closing = [c \in Clerks |-> Nothing]
  /\ holdsSeen = [c \in Clerks |-> {}]
  /\ quote = [c \in Clerks |-> Nothing]
  /\ plan = [c \in Clerks |-> Nothing]
  /\ moved = [c \in Clerks |-> {}]

Next ==
  \/ \E w \in Rows : Sell(w)
  \/ \E h \in holds : Release(h)
  \/ \E d \in Invoices : Cancel(d) \/ \E n \in Numbers : Rename(d, n)
  \/ \E c \in Clerks :
       \/ \E p \in Projects : BeginClose(c, p)
       \/ \E d \in Invoices : BeginInvoice(c, d)
       \/ \E q \in Quotes : Preview(c, q)
       \/ Close(c) \/ PostInvoice(c) \/ RefuseInvoice(c)
       \/ BeginHandoff(c) \/ AnswerHandoff(c) \/ Handoff(c) \/ RetryHandoff(c)
       \/ Fail(c)

Spec == Init /\ [][Next]_vars

-----------------------------------------------------------------------------
(* Properties.                                                             *)

HoldType ==
  [source : Invoices \cup Quotes, item : Nat, project : Projects, row : Rows, quantity : Nat,
   status : {"ACTIVE", "RELEASED"}]

RequestType ==
  [invoice : Invoices \cup {Nothing}, number : Numbers \cup {Nothing}, amount : Nat,
   allocation : [Projects -> Nat]]

TypeOK ==
  /\ onHand \in [Rows -> Int] /\ reserved \in [Rows -> Nat] /\ queued \in [Rows -> Int]
  /\ sold \in [Rows -> 0..MaxSold]
  /\ holds \subseteq HoldType
  /\ project \in [Projects -> {"none", "open", "closed"}]
  /\ sourceQuote \in [Projects -> Quotes \cup {Nothing}]
  /\ handoff \in [Quotes -> Projects \cup {Nothing}]
  /\ invoice \in [Invoices -> {"none", "posted", "cancelled"}]
  /\ number \in [Invoices -> Numbers \cup {Nothing}]
  /\ receipt \in [Invoices -> Numbers \cup {Cancelled, Nothing}]
  /\ arrived \in [Invoices -> Nat]
  /\ pc \in [Clerks -> {"idle", "recording", "closing", "previewed", "handing"}]
  /\ request \in [Clerks -> RequestType]
  /\ keysSeen \in [Clerks -> SUBSET Numbers]
  /\ rowSeen \in [Clerks -> [onHand : Int, reserved : Int]]
  /\ closing \in [Clerks -> Projects \cup {Nothing}]
  /\ holdsSeen \in [Clerks -> SUBSET HoldType]
  /\ quote \in [Clerks -> Quotes \cup {Nothing}]
  /\ moved \in [Clerks -> SUBSET (Rows \cup Quotes)]

\* A stock row's reserved is the sum of the active holds on it, whoever places
\* and releases them at once (reserved-reconciliation.ts).
ReservedIsHolds == \A w \in Rows : reserved[w] = SumOf(OnRow(Active, w))

\* The newest target queued for the shop is what is free: every change of a
\* stock row or of what is held of it queues the two together
\* (availableToSell, queueShopStock).
QueuedIsFree == \A w \in Rows : queued[w] = Free(w)

\* A receipt is keyed by its invoice's number as long as the invoice stands, and
\* by nothing an invoice can ask for once it is cancelled (rekeyReceipt).
KeysFollowNumbers == \A d \in Invoices : receipt[d] # Nothing =>
  receipt[d] = IF invoice[d] = "posted" THEN number[d] ELSE Cancelled

\* Stock is what was there, what standing invoices brought, less what was sold.
StockIsExplained == \A w \in Rows :
  onHand[w] = InitialStock[w] - sold[w]
                + SumFunctionOnSet(arrived,
                                   {d \in Invoices : RowOf[d] = w /\ invoice[d] = "posted"})

\* A quote becomes one project, whoever starts it and however often, and all that
\* is held for the quote is held for that project (QuoteProjectHandoff.quoteId).
OneProjectPerQuote ==
  /\ \A p \in Projects : sourceQuote[p] # Nothing => handoff[sourceQuote[p]] = p
  /\ \A h \in holds : h.source \in Quotes => h.project = handoff[h.source]

\* Only stock that is free is held for a quote: a hold a handoff places leaves its
\* row with no more held than is there.
HandoffHoldsFreeStock == [][\A q \in Quotes : handoff'[q] # handoff[q] =>
  \A w \in Rows : reserved'[w] > reserved[w] => reserved'[w] <= onHand'[w]]_vars

\* A cancellation takes out nothing that is held for others.
CancelLeavesHeld == [][\A d \in Invoices :
  invoice[d] = "posted" /\ invoice'[d] = "cancelled" /\ arrived[d] > 0 =>
    onHand'[RowOf[d]] >= SumOf(OnRow({h \in holds' : h.status = "ACTIVE"}, RowOf[d]))]_vars

\* ProjectReservationService.close: when a project closes, every active hold it
\* has ends.
NoHoldOnClosedProject == \A h \in Active : project[h.project] # "closed"

\* rekeyReceipt's comment: a later invoice with a number used before does not
\* find it already posted, its stock arrives.
EveryInvoiceArrives == \A d \in Invoices : invoice[d] = "posted" => receipt[d] # Nothing

\* quote-handoff.service.ts: a handoff executes the plan there is under the
\* locks.
PlanIsCurrent == [][\A c \in Clerks :
  pc[c] = "handing" /\ handoff'[quote[c]] # handoff[quote[c]] =>
    plan[c] = PlanNow(quote[c])]_vars
=============================================================================
