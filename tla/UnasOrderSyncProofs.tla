-------------------------- MODULE UnasOrderSyncProofs --------------------------
(***************************************************************************)
(* What UnasOrderSync's mirror keeps for every set of orders, Keys and     *)
(* actors.                                                                 *)
(***************************************************************************)
EXTENDS UnasOrderSync, FiniteSetTheorems, TLAPS

\* The part of the type invariant the other proofs use.
MirrorOK ==
  /\ now \in Nat /\ shop \in [Ids -> Orders]
  /\ status \in [Keys -> Statuses]
  /\ lines \in [Keys -> Nat] /\ booked \in [Keys -> Nat]
  /\ deletedAt \in [Keys -> BOOLEAN]
  /\ externalId \in [Keys -> Ids \cup {Legacy, Nothing}]

SeenOK ==
  /\ byKey \in [Pollers -> [Keys -> Payloads \cup {Nothing}]]
  /\ key \in [Lookups -> Keys \cup {Nothing}]
  /\ answer \in [Lookups -> Payloads \cup {Nothing}]
  /\ pc \in [Lookups -> {"idle", "asking", "answered"}]
  /\ \A c \in Lookups : pc[c] # "idle" => key[c] \in Keys

-----------------------------------------------------------------------------
(* What an answer of UNAS is, and what one sighting does.                   *)

\* What UNAS answers about an order it has is a payload (getOrder).
LEMMA PayloadTyped ==
  ASSUME shop \in [Ids -> Orders], NEW i \in Ids, Exists(i)
  PROVE  Payload(i) \in Payloads /\ Payload(i).id = i
<1>1. shop[i] \in Orders
  OBVIOUS
<1>2. shop[i].quantity \in Nat
  BY <1>1 DEF Orders
<1> QED
  BY <1>2 DEF Payload, Payloads, Exists

\* A sighting leaves a mirror well typed (applyExistingOrderUpdate).
LEMMA SightTyped ==
  ASSUME NEW seen, seen \in [Keys -> Payloads \cup {Nothing}], MirrorOK, Sight(seen)
  PROVE  /\ status' \in [Keys -> Statuses]
         /\ lines' \in [Keys -> Nat] /\ booked' \in [Keys -> Nat]
         /\ deletedAt' \in [Keys -> BOOLEAN]
         /\ externalId' \in [Keys -> Ids \cup {Legacy, Nothing}]
<1>1. ASSUME NEW k \in Keys, seen[k] # Nothing
      PROVE  seen[k].id \in Ids /\ seen[k].quantity \in Nat
  <2>1. seen[k] \in Payloads
    BY <1>1
  <2> QED
    BY <2>1 DEF Payloads
<1>2. ASSUME NEW k \in Keys
      PROVE  Mapped(seen[k]) \in Statuses
  BY DEF Mapped, Statuses
<1>3. status' \in [Keys -> Statuses]
  BY <1>2 DEF Sight, MirrorOK
<1>4. lines' \in [Keys -> Nat]
  BY <1>1 DEF Sight, MirrorOK, LinesAfter
<1>5. booked' \in [Keys -> Nat]
  BY <1>1 DEF Sight, MirrorOK, BookedAfter, Target
<1>6. deletedAt' \in [Keys -> BOOLEAN]
  BY DEF Sight
<1>7. externalId' \in [Keys -> Ids \cup {Legacy, Nothing}]
  BY <1>1 DEF Sight, MirrorOK
<1> QED
  BY <1>3, <1>4, <1>5, <1>6, <1>7

\* Whatever is sighted, an order's movements net to its lines afterwards
\* (applyOrderStockDelta).
LEMMA SightNets ==
  ASSUME NEW seen, BookedIsOrdered, Sight(seen)
  PROVE  BookedIsOrdered'
<1> SUFFICES ASSUME NEW k \in Keys
             PROVE  /\ booked'[k] = IF status'[k] \in {"CONFIRMED", "COMPLETED"}
                                    THEN lines'[k] ELSE 0
                    /\ deletedAt'[k] => status'[k] = "CANCELLED"
  BY DEF BookedIsOrdered
<1>1. CASE seen[k] = Nothing
  BY <1>1 DEF Sight, BookedIsOrdered
<1>2. CASE seen[k] # Nothing /\ Mapped(seen[k]) = "CANCELLED"
  BY <1>2 DEF Sight, BookedIsOrdered, BookedAfter, Target
<1>3. CASE seen[k] # Nothing /\ Mapped(seen[k]) # "CANCELLED"
  <2>1. Mapped(seen[k]) \in {"CONFIRMED", "COMPLETED"}
    BY <1>3 DEF Mapped
  <2> QED
    BY <1>3, <2>1 DEF Sight, BookedAfter, LinesAfter, Target
<1> QED
  BY <1>1, <1>2, <1>3

\* A sighting that resolves through findExternalReferenceForOrder lifts a
\* deletion mark only from the row that carries the sighted Id.
LEMMA SightById ==
  ASSUME NEW seen, seen \in [Keys -> Payloads \cup {Nothing}], Sight(seen),
         \A k \in Keys : seen[k] # Nothing => ~deletedAt[k] \/ IsKnown(k, seen[k]),
         NEW k \in Keys, deletedAt[k], ~deletedAt'[k]
  PROVE  externalId[k] \in Ids /\ externalId'[k] = externalId[k]
<1>1. seen[k] # Nothing
  BY DEF Sight
<1>2. externalId[k] = seen[k].id
  BY <1>1 DEF IsKnown
<1>3. externalId'[k] = seen[k].id
  BY <1>1 DEF Sight
<1>4. seen[k] \in Payloads
  BY <1>1
<1> QED
  BY <1>2, <1>3, <1>4 DEF Payloads

-----------------------------------------------------------------------------
(* Typing.                                                                 *)

LEMMA InitTyped == Init => MirrorOK /\ SeenOK
<1> SUFFICES ASSUME Init PROVE MirrorOK /\ SeenOK
  OBVIOUS
<1>1. PICK q \in Quantities :
       /\ shop = [i \in Ids |->
            [state |-> IF i \in Known THEN Open ELSE "none",
             quantity |-> IF i \in Known THEN q ELSE 0,
             modified |-> 0]]
       /\ lines = [k \in Keys |-> IF \E i \in Known : KeyOf[i] = k THEN q ELSE 0]
  BY DEF Init
<1>2. q \in Nat
  BY OrderAssumption
<1>3. shop \in [Ids -> Orders]
  BY <1>1, <1>2 DEF Orders, Live
<1>4. lines \in [Keys -> Nat] /\ booked \in [Keys -> Nat]
  BY <1>1, <1>2 DEF Init
<1>5. /\ status \in [Keys -> Statuses] /\ deletedAt \in [Keys -> BOOLEAN]
      /\ externalId \in [Keys -> Ids \cup {Legacy, Nothing}]
  BY DEF Init, Statuses
<1>6. SeenOK
  BY DEF Init, SeenOK, Empty
<1> QED
  BY <1>3, <1>4, <1>5, <1>6 DEF MirrorOK, Init

\* What changes in UNAS keeps its orders well typed.
LEMMA ShopTyped ==
  ASSUME MirrorOK, SeenOK, Shop
  PROVE  MirrorOK' /\ SeenOK'
<1>1. PICK i \in Ids : Place(i) \/ Change(i) \/ Delete(i)
  BY DEF Shop
<1>2. PICK o \in Orders : Edit(i, o)
  <2>1. CASE Place(i)
    <3> now \in Nat
      BY DEF MirrorOK
    <3>1. PICK q \in Quantities : Edit(i, [state |-> Open, quantity |-> q, modified |-> now])
      BY <2>1 DEF Place
    <3>2. [state |-> Open, quantity |-> q, modified |-> now] \in Orders
      BY OrderAssumption DEF Orders, Live
    <3> QED
      BY <3>1, <3>2
  <2>2. CASE Change(i)
    <3> now \in Nat
      BY DEF MirrorOK
    <3>1. PICK s \in Live, q \in Quantities :
            Edit(i, [state |-> s, quantity |-> q, modified |-> now])
      BY <2>2 DEF Change
    <3>2. [state |-> s, quantity |-> q, modified |-> now] \in Orders
      BY OrderAssumption DEF Orders
    <3> QED
      BY <3>1, <3>2
  <2>3. CASE Delete(i)
    <3>1. [shop[i] EXCEPT !.state = "deleted"] \in Orders
      BY DEF MirrorOK, Orders
    <3> QED
      BY <2>3, <3>1 DEF Delete
  <2> QED
    BY <1>1, <2>1, <2>2, <2>3
<1>3. shop' \in [Ids -> Orders]
  BY <1>2 DEF Edit, MirrorOK
<1>4. UNCHANGED <<now, mirror, polling, lookups>>
  BY <1>2 DEF Edit
<1> QED
  BY <1>3, <1>4 DEF MirrorOK, SeenOK, mirror, polling, lookups

\* A poller's downloads are payloads, and what it applies is what it downloaded.
LEMMA PollerTyped ==
  ASSUME MirrorOK, SeenOK, NEW p \in Pollers, Poll(p) \/ RunFails(p) \/ Crash(p)
  PROVE  MirrorOK' /\ SeenOK'
<1> Empty \in [Keys -> Payloads \cup {Nothing}]
  BY DEF Empty
<1>1. ASSUME UNCHANGED <<now, shop, mirror, lookups>>, UNCHANGED byKey \/ End(p)
      PROVE  MirrorOK' /\ SeenOK'
  BY <1>1 DEF MirrorOK, SeenOK, mirror, lookups, End
<1>2. CASE Call(p)
  BY <1>1, <1>2 DEF Call
<1>3. CASE ReadCursor(p)
  BY <1>1, <1>3 DEF ReadCursor
<1>4. CASE CreateRun(p)
  BY <1>4 DEF CreateRun, MirrorOK, SeenOK, mirror, lookups
<1>5. CASE AlreadyRunning(p)
  BY <1>1, <1>5 DEF AlreadyRunning
<1>6. CASE DownloadPage(p)
  <2> DEFINE page == Page(window[p], limitStart[p])
             seen == [k \in Keys |->
                        IF \E i \in page : KeyOf[i] = k
                        THEN Payload(CHOOSE i \in page : KeyOf[i] = k)
                        ELSE byKey[p][k]]
  <2>1. ASSUME NEW i \in page
        PROVE  Payload(i) \in Payloads
    <3>1. i \in Ids /\ Exists(i)
      BY DEF Page, Listed
    <3> QED
      BY <3>1, PayloadTyped DEF MirrorOK
  <2>2. seen \in [Keys -> Payloads \cup {Nothing}]
    <3> SUFFICES ASSUME NEW k \in Keys PROVE seen[k] \in Payloads \cup {Nothing}
      OBVIOUS
    <3>1. CASE \E i \in page : KeyOf[i] = k
      <4> DEFINE i == CHOOSE i \in page : KeyOf[i] = k
      <4>1. i \in page
        BY <3>1
      <4>2. Payload(i) \in Payloads
        BY <4>1, <2>1
      <4> QED
        BY <3>1, <4>2
    <3>2. CASE ~\E i \in page : KeyOf[i] = k
      BY <3>2 DEF SeenOK
    <3> QED
      BY <3>1, <3>2
  <2>3. byKey' = [byKey EXCEPT ![p] = seen]
    BY <1>6 DEF DownloadPage
  <2> HIDE DEF seen
  <2>4. byKey' \in [Pollers -> [Keys -> Payloads \cup {Nothing}]]
    BY <2>2, <2>3 DEF SeenOK
  <2> QED
    BY <1>6, <2>4 DEF DownloadPage, MirrorOK, SeenOK, mirror, lookups
<1>7. CASE Apply(p)
  <2>1. byKey[p] \in [Keys -> Payloads \cup {Nothing}]
    BY DEF SeenOK
  <2>2. Sight(byKey[p]) /\ End(p) /\ UNCHANGED <<now, shop, lookups>>
    BY <1>7 DEF Apply
  <2> QED
    BY <2>1, <2>2, SightTyped DEF MirrorOK, SeenOK, End, lookups
<1>8. CASE ApplyRefused(p)
  BY <1>1, <1>8 DEF ApplyRefused
<1>9. CASE RunFails(p)
  BY <1>1, <1>9 DEF RunFails
<1>10. CASE Crash(p)
  BY <1>1, <1>10 DEF Crash
<1> QED
  BY <1>2, <1>3, <1>4, <1>5, <1>6, <1>7, <1>8, <1>9, <1>10 DEF Poll

\* What a call leaves behind when it ends.
LEMMA ReturnTyped ==
  ASSUME SeenOK, NEW c \in Lookups, Return(c), UNCHANGED byKey
  PROVE  SeenOK'
BY DEF SeenOK, Return

\* A lookup asks for a Key, is answered with a payload or nothing, and applies
\* what it was answered.
LEMMA LookupTyped ==
  ASSUME MirrorOK, SeenOK, NEW c \in Lookups,
         Begin(c) \/ Proceed(c) \/ FalseNotFound(c) \/ LookupFails(c) \/ LookupDies(c)
  PROVE  MirrorOK' /\ SeenOK'
<1>1. ASSUME NEW k \in Keys, Ask(c, k), UNCHANGED <<now, shop, mirror, byKey, answer>>
      PROVE  MirrorOK' /\ SeenOK'
  BY <1>1 DEF Ask, MirrorOK, SeenOK, mirror
<1>2. ASSUME NEW a \in Payloads \cup {Nothing}, Answer(c, a)
      PROVE  MirrorOK' /\ SeenOK'
  BY <1>2 DEF Answer, MirrorOK, SeenOK, mirror, polling
<1>3. ASSUME Return(c), UNCHANGED <<now, shop, mirror, polling>>
      PROVE  MirrorOK' /\ SeenOK'
  BY <1>3, ReturnTyped DEF MirrorOK, mirror, polling
<1>4. CASE Begin(c)
  BY <1>1, <1>4 DEF Begin, Refresh, Claim, polling
<1>5. CASE Found(c)
  BY <1>2, <1>5, PayloadTyped DEF Found, MirrorOK
<1>6. CASE NotFound(c)
  BY <1>2, <1>6 DEF NotFound
<1>7. CASE FalseNotFound(c)
  BY <1>2, <1>7 DEF FalseNotFound
<1>8. CASE ApplyRefresh(c)
  <2> DEFINE seen == [Empty EXCEPT ![key[c]] = answer[c]]
  <2>1. seen \in [Keys -> Payloads \cup {Nothing}]
    BY DEF Empty, SeenOK
  <2>2. Sight(seen) /\ Return(c) /\ UNCHANGED <<now, shop, polling>>
    BY <1>8 DEF ApplyRefresh, Finish
  <2> HIDE DEF seen
  <2>3. SeenOK'
    BY <2>2, ReturnTyped DEF polling
  <2> QED
    BY <2>1, <2>2, <2>3, SightTyped DEF MirrorOK
<1>9. CASE KeyMismatch(c) \/ StillExists(c) \/ LookupFails(c) \/ LookupDies(c)
  BY <1>3, <1>9 DEF KeyMismatch, StillExists, LookupFails, LookupDies, Finish
<1>10. CASE ReconcileDeletedOrder(c)
  <2>1. Return(c) /\ UNCHANGED <<now, shop, polling, lines, externalId>>
    BY <1>10 DEF ReconcileDeletedOrder, Finish
  <2>2. SeenOK'
    BY <2>1, ReturnTyped DEF polling
  <2>3. /\ booked' = [booked EXCEPT ![key[c]] = ReturnedTo(key[c])]
        /\ status' = [status EXCEPT ![key[c]] = IF deletedAt[key[c]] THEN @ ELSE "CANCELLED"]
        /\ deletedAt' = [deletedAt EXCEPT ![key[c]] = TRUE]
    BY <1>10 DEF ReconcileDeletedOrder
  <2>4. key[c] \in Keys
    BY <1>10 DEF ReconcileDeletedOrder, SeenOK
  <2>5. booked' \in [Keys -> Nat]
    BY <2>3, <2>4 DEF MirrorOK, ReturnedTo
  <2>6. status' \in [Keys -> Statuses]
    BY <2>3, <2>4 DEF MirrorOK, Statuses
  <2>7. deletedAt' \in [Keys -> BOOLEAN]
    BY <2>3, <2>4 DEF MirrorOK
  <2> QED
    BY <2>1, <2>2, <2>5, <2>6, <2>7 DEF MirrorOK
<1> QED
  BY <1>4, <1>5, <1>6, <1>7, <1>8, <1>9, <1>10 DEF Proceed

LEMMA StepTyped == MirrorOK /\ SeenOK /\ [Next]_vars => (MirrorOK /\ SeenOK)'
<1> SUFFICES ASSUME MirrorOK, SeenOK, [Next]_vars PROVE (MirrorOK /\ SeenOK)'
  OBVIOUS
<1>1. CASE UNCHANGED vars
  BY <1>1 DEF vars, mirror, polling, lookups, MirrorOK, SeenOK
<1>2. CASE Tick
  BY <1>2 DEF Tick, mirror, polling, lookups, MirrorOK, SeenOK
<1>3. CASE \E k \in Keys : LeaseExpires(k)
  BY <1>3 DEF LeaseExpires, mirror, polling, lookups, MirrorOK, SeenOK
<1> QED
  BY <1>1, <1>2, <1>3, ShopTyped, PollerTyped, LookupTyped DEF Next

\* The mirror, what pollers have downloaded and what lookups were answered are
\* well typed.
LEMMA MirrorTyped == Spec => [](MirrorOK /\ SeenOK)
<1> QED
  BY InitTyped, StepTyped, PTL DEF Spec

-----------------------------------------------------------------------------
(* The rest of the type invariant.                                         *)

PollersOK ==
  /\ cursor \in Nat /\ active \in Pollers \cup {Nobody, Lost} /\ started \in Nat
  /\ step \in [Pollers -> {"idle", "called", "windowed", "running", "downloaded"}]
  /\ window \in [Pollers -> [start : Int, end : Nat]]
  /\ limitStart \in [Pollers -> Nat]
  /\ skipped \in [Pollers -> SUBSET Ids]

RestOK ==
  /\ now \in Nat /\ behind \in SUBSET Ids
  /\ leased \in [Keys -> BOOLEAN]
  /\ asOf \in [Lookups -> Nat]
  /\ edits \in Nat /\ faults \in Nat

LEMMA InitRest == Init => PollersOK /\ RestOK
BY DEF Init, PollersOK, RestOK, Nowhen

\* A run is where runIncremental can be, with a window of two times.
LEMMA PollerRest ==
  ASSUME PollersOK, RestOK, NEW p \in Pollers, Poll(p) \/ RunFails(p) \/ Crash(p)
  PROVE  PollersOK' /\ RestOK'
<1> Overlap \in Nat /\ PageSize \in Nat
  BY OrderAssumption
<1>1. ASSUME End(p) PROVE /\ step' \in [Pollers -> {"idle", "called", "windowed", "running", "downloaded"}]
                          /\ window' \in [Pollers -> [start : Int, end : Nat]]
                          /\ limitStart' \in [Pollers -> Nat]
                          /\ skipped' \in [Pollers -> SUBSET Ids]
  BY <1>1 DEF End, Goto, Nowhen, PollersOK
<1>2. ASSUME Release(p) PROVE active' \in Pollers \cup {Nobody, Lost} /\ started' \in Nat
  BY <1>2 DEF Release, PollersOK
<1>3. CASE Call(p)
  <2>1. window' = [window EXCEPT ![p] = [window[p] EXCEPT !.end = now]]
    BY <1>3 DEF Call
  <2>2. [window[p] EXCEPT !.end = now] \in [start : Int, end : Nat]
    BY DEF PollersOK, RestOK
  <2>3. window' \in [Pollers -> [start : Int, end : Nat]]
    BY <2>1, <2>2 DEF PollersOK
  <2> QED
    BY <1>3, <2>3 DEF Call, Goto, PollersOK, RestOK, lookups, history
<1>4. CASE ReadCursor(p)
  <2>1. window' = [window EXCEPT ![p] = [window[p] EXCEPT !.start = WindowStart]]
    BY <1>4 DEF ReadCursor
  <2>2. [window[p] EXCEPT !.start = WindowStart] \in [start : Int, end : Nat]
    BY DEF PollersOK, WindowStart
  <2>3. window' \in [Pollers -> [start : Int, end : Nat]]
    BY <2>1, <2>2 DEF PollersOK
  <2> QED
    BY <1>4, <2>3 DEF ReadCursor, Goto, PollersOK, RestOK, lookups, history
<1>5. CASE CreateRun(p)
  BY <1>5 DEF CreateRun, Goto, PollersOK, RestOK, lookups, history
<1>6. CASE AlreadyRunning(p)
  BY <1>1, <1>6 DEF AlreadyRunning, PollersOK, RestOK, lookups
<1>7. CASE DownloadPage(p)
  <2>1. limitStart' = [limitStart EXCEPT ![p] = limitStart[p] + PageSize]
    BY <1>7 DEF DownloadPage
  <2>2. limitStart' \in [Pollers -> Nat]
    BY <2>1 DEF PollersOK
  <2>3. step' = step \/ Goto(p, "downloaded")
    BY <1>7 DEF DownloadPage
  <2> QED
    BY <1>7, <2>2, <2>3 DEF DownloadPage, Goto, PollersOK, RestOK, lookups, history
<1>8. CASE Apply(p)
  <2>1. cursor' \in Nat
    BY <1>8 DEF Apply, CursorAfter, PollersOK
  <2> QED
    BY <1>1, <1>2, <1>8, <2>1 DEF Apply, PollersOK, RestOK, lookups
<1>9. CASE ApplyRefused(p)
  BY <1>1, <1>2, <1>9 DEF ApplyRefused, PollersOK, RestOK, lookups
<1>10. CASE RunFails(p)
  BY <1>1, <1>2, <1>10 DEF RunFails, Fail, PollersOK, RestOK, lookups
<1>11. CASE Crash(p)
  BY <1>1, <1>11 DEF Crash, Fail, PollersOK, RestOK, lookups
<1> QED
  BY <1>3, <1>4, <1>5, <1>6, <1>7, <1>8, <1>9, <1>10, <1>11 DEF Poll

\* A lookup changes no run, takes and drops leases, and remembers when it was
\* answered.
LEMMA LookupRest ==
  ASSUME PollersOK, RestOK, NEW c \in Lookups,
         Begin(c) \/ Proceed(c) \/ FalseNotFound(c) \/ LookupFails(c) \/ LookupDies(c)
  PROVE  PollersOK' /\ RestOK'
<1>1. UNCHANGED <<now, polling, edits>>
  BY DEF Begin, Refresh, Claim, Proceed, Found, NotFound, FalseNotFound, Answer, ApplyRefresh,
         KeyMismatch, StillExists, ReconcileDeletedOrder, LookupFails, LookupDies, Finish
<1>2. leased' \in [Keys -> BOOLEAN]
  BY DEF Begin, Refresh, Claim, Proceed, Found, NotFound, FalseNotFound, Answer, ApplyRefresh,
         KeyMismatch, StillExists, ReconcileDeletedOrder, LookupFails, LookupDies, Finish,
         RestOK
<1>3. asOf' \in [Lookups -> Nat]
  BY DEF Begin, Refresh, Claim, Proceed, Found, NotFound, FalseNotFound, Answer, ApplyRefresh,
         KeyMismatch, StillExists, ReconcileDeletedOrder, LookupFails, LookupDies, Finish,
         Return, RestOK
<1>4. faults' \in Nat
  BY DEF Begin, Refresh, Claim, Proceed, Found, NotFound, FalseNotFound, ApplyRefresh,
         KeyMismatch, StillExists, ReconcileDeletedOrder, LookupFails, LookupDies, Fail, RestOK
<1>5. skipped' = skipped /\ behind' \in SUBSET Ids
  <2>1. CASE ApplyRefresh(c)
    BY <2>1 DEF ApplyRefresh, Finish, RestOK, Overtaken
  <2>2. CASE ~ApplyRefresh(c)
    BY <2>2 DEF Begin, Refresh, Claim, Proceed, Found, NotFound, FalseNotFound, Answer,
                KeyMismatch, StillExists, ReconcileDeletedOrder, LookupFails, LookupDies, Finish,
                RestOK, history
  <2> QED
    BY <2>1, <2>2
<1> QED
  BY <1>1, <1>2, <1>3, <1>4, <1>5 DEF PollersOK, RestOK, polling

LEMMA StepRest == PollersOK /\ RestOK /\ [Next]_vars => (PollersOK /\ RestOK)'
<1> SUFFICES ASSUME PollersOK, RestOK, [Next]_vars PROVE (PollersOK /\ RestOK)'
  OBVIOUS
<1>1. CASE UNCHANGED vars
  BY <1>1 DEF vars, polling, lookups, PollersOK, RestOK, history
<1>2. CASE Shop
  <2>1. PICK i \in Ids : /\ UNCHANGED <<now, leased, polling, lookups, faults>>
                        /\ edits' = edits + 1 /\ behind' = behind \ {i}
                        /\ skipped' = [p \in Pollers |-> (skipped[p] \cup MovesUp(p)) \ {i}]
    BY <1>2 DEF Shop, Place, Change, Delete, Edit
  <2>2. \A p \in Pollers : MovesUp(p) \subseteq Ids
    BY DEF MovesUp, Listed
  <2> HIDE DEF MovesUp
  <2>3. skipped' \in [Pollers -> SUBSET Ids]
    BY <2>1, <2>2 DEF PollersOK
  <2> QED
    BY <2>1, <2>3 DEF polling, lookups, PollersOK, RestOK
<1>3. CASE Tick
  BY <1>3 DEF Tick, polling, lookups, PollersOK, RestOK, history
<1>4. CASE \E k \in Keys : LeaseExpires(k)
  BY <1>4 DEF LeaseExpires, polling, lookups, PollersOK, RestOK, history
<1> QED
  BY <1>1, <1>2, <1>3, <1>4, PollerRest, LookupRest DEF Next

\* Every reachable state is well typed: the mirror, the runs, the calls under
\* way, for every set of orders, Keys and actors.
THEOREM TypeCorrect == Spec => []TypeOK
<1>1. MirrorOK /\ SeenOK /\ PollersOK /\ RestOK => TypeOK
  BY DEF MirrorOK, SeenOK, PollersOK, RestOK, TypeOK
<1> QED
  BY <1>1, MirrorTyped, InitRest, StepRest, PTL DEF Spec

-----------------------------------------------------------------------------
(* Stock follows the lines.                                                *)

LEMMA InitNets == Init => BookedIsOrdered
BY DEF Init, BookedIsOrdered

\* What a step may do to the mirror: nothing, a sighting, or a deletion.
LEMMA StepsOfTheMirror ==
  ASSUME MirrorOK, SeenOK, [Next]_vars
  PROVE  \/ UNCHANGED mirror
         \/ \E p \in Pollers : Apply(p)
         \/ \E c \in Lookups : ApplyRefresh(c) \/ ReconcileDeletedOrder(c)
<1>1. CASE UNCHANGED vars \/ Tick \/ \E k \in Keys : LeaseExpires(k)
  BY <1>1 DEF vars, Tick, LeaseExpires
<1>2. CASE Shop
  BY <1>2 DEF Shop, Place, Change, Delete, Edit
<1>3. ASSUME NEW p \in Pollers, Poll(p) \/ RunFails(p) \/ Crash(p)
      PROVE  UNCHANGED mirror \/ Apply(p)
  BY <1>3 DEF Poll, RunFails, Crash, Call, ReadCursor, CreateRun, AlreadyRunning,
              DownloadPage, ApplyRefused
<1>4. ASSUME NEW c \in Lookups,
             Begin(c) \/ Proceed(c) \/ FalseNotFound(c) \/ LookupFails(c) \/ LookupDies(c)
      PROVE  UNCHANGED mirror \/ ApplyRefresh(c) \/ ReconcileDeletedOrder(c)
  BY <1>4 DEF Begin, Proceed, Refresh, Claim, Found, NotFound, FalseNotFound, Answer,
              LookupFails, LookupDies, KeyMismatch, StillExists
<1> QED
  BY <1>1, <1>2, <1>3, <1>4 DEF Next

LEMMA StepNets == MirrorOK /\ SeenOK /\ BookedIsOrdered /\ [Next]_vars => BookedIsOrdered'
<1> SUFFICES ASSUME MirrorOK, SeenOK, BookedIsOrdered, [Next]_vars PROVE BookedIsOrdered'
  OBVIOUS
<1>1. CASE UNCHANGED mirror
  BY <1>1 DEF mirror, BookedIsOrdered
<1>2. ASSUME NEW p \in Pollers, Apply(p)
      PROVE  BookedIsOrdered'
  BY <1>2, SightNets DEF Apply
<1>3. ASSUME NEW c \in Lookups, ApplyRefresh(c)
      PROVE  BookedIsOrdered'
  BY <1>3, SightNets DEF ApplyRefresh
<1>4. ASSUME NEW c \in Lookups, ReconcileDeletedOrder(c)
      PROVE  BookedIsOrdered'
  <2>1. /\ booked' = [booked EXCEPT ![key[c]] = ReturnedTo(key[c])]
        /\ status' = [status EXCEPT ![key[c]] = IF deletedAt[key[c]] THEN @ ELSE "CANCELLED"]
        /\ deletedAt' = [deletedAt EXCEPT ![key[c]] = TRUE]
        /\ lines' = lines
    BY <1>4 DEF ReconcileDeletedOrder
  <2> QED
    BY <2>1 DEF BookedIsOrdered, MirrorOK, ReturnedTo
<1> QED
  BY <1>1, <1>2, <1>3, <1>4, StepsOfTheMirror

\* An order's movements net to the lines it shows, and to nothing once it is
\* cancelled or deleted, whatever the interleaving of pollers, clerks and
\* checkers (applyOrderStockDelta, reconcileDeletedOrder).
THEOREM NetStock == Spec => []BookedIsOrdered
<1> QED
  BY MirrorTyped, InitNets, StepNets, PTL DEF Spec

-----------------------------------------------------------------------------
(* Deleted orders come back by Id.                                         *)

LEMMA StepById ==
  ASSUME MirrorOK, SeenOK, BookedIsOrdered, [Next]_vars,
         NEW k \in Keys, deletedAt[k], ~deletedAt'[k]
  PROVE  externalId[k] \in Ids /\ externalId'[k] = externalId[k]
<1>1. CASE UNCHANGED mirror
  BY <1>1 DEF mirror
<1>2. ASSUME NEW p \in Pollers, Apply(p)
      PROVE  externalId[k] \in Ids /\ externalId'[k] = externalId[k]
  <2>1. byKey[p] \in [Keys -> Payloads \cup {Nothing}]
    BY DEF SeenOK
  <2>2. \A j \in Keys : byKey[p][j] # Nothing => ~deletedAt[j] \/ IsKnown(j, byKey[p][j])
    BY <1>2 DEF Apply, Collides, BookedIsOrdered
  <2>3. Sight(byKey[p])
    BY <1>2 DEF Apply
  <2> QED
    BY <2>1, <2>2, <2>3, SightById
<1>3. ASSUME NEW c \in Lookups, ApplyRefresh(c)
      PROVE  externalId[k] \in Ids /\ externalId'[k] = externalId[k]
  <2> DEFINE seen == [Empty EXCEPT ![key[c]] = answer[c]]
  <2>1. seen \in [Keys -> Payloads \cup {Nothing}]
    BY DEF Empty, SeenOK
  <2>2. \A j \in Keys : seen[j] # Nothing => ~deletedAt[j] \/ IsKnown(j, seen[j])
    BY <1>3 DEF ApplyRefresh, Empty
  <2>3. Sight(seen)
    BY <1>3 DEF ApplyRefresh
  <2> HIDE DEF seen
  <2> QED
    BY <2>1, <2>2, <2>3, SightById
<1>4. ASSUME NEW c \in Lookups, ReconcileDeletedOrder(c)
      PROVE  FALSE
  <2>1. deletedAt' = [deletedAt EXCEPT ![key[c]] = TRUE]
    BY <1>4 DEF ReconcileDeletedOrder
  <2> QED
    BY <2>1 DEF MirrorOK
<1> QED
  BY <1>1, <1>2, <1>3, <1>4, StepsOfTheMirror

LEMMA StepsById ==
  MirrorOK /\ SeenOK /\ BookedIsOrdered /\ [Next]_vars =>
    [\A k \in Keys : deletedAt[k] /\ ~deletedAt'[k] =>
       externalId[k] \in Ids /\ externalId'[k] = externalId[k]]_vars
BY StepById

\* A deletion mark is lifted only by an answer that carries the Id of the row it
\* is on, never by one that only shares its Key (UNAS_ORDER_RECOVERY_ID_MISMATCH).
THEOREM ComesBackById == Spec => NeverResurrected
<1> QED
  BY MirrorTyped, NetStock, StepsById, PTL DEF Spec, NeverResurrected

-----------------------------------------------------------------------------
(* A list of UNAS, page by page.                                           *)

\* The first of the listed orders has rank 1, and each the next one.
LEMMA RanksFill ==
  ASSUME NEW w
  PROVE  /\ IsFiniteSet(Listed(w)) /\ Cardinality(Listed(w)) \in Nat
         /\ [i \in Listed(w) |-> Rank(w, i)]
              \in Bijection(Listed(w), 1..Cardinality(Listed(w)))
<1> DEFINE L == Listed(w)
           below(i) == {j \in L : j <= i}
           rank == [i \in L |-> Rank(w, i)]
<1>0. IsFiniteSet(L) /\ Cardinality(L) \in Nat /\ L \subseteq Nat
  BY OrderAssumption, FS_Subset, FS_CardinalityType DEF Listed
<1>1. \A i \in L : rank[i] = Cardinality(below(i)) /\ below(i) \in SUBSET L /\ i \in below(i)
  BY <1>0 DEF Rank
<1> HIDE DEF L, rank
<1>2. ASSUME NEW i \in L
      PROVE  rank[i] \in 1..Cardinality(L)
  <2>1. below(i) \in SUBSET L /\ i \in below(i)
    BY <1>1
  <2> HIDE DEF below
  <2>2. /\ IsFiniteSet(below(i)) /\ Cardinality(below(i)) <= Cardinality(L)
        /\ Cardinality(below(i)) \in Nat
    BY <1>0, <2>1, FS_Subset, FS_CardinalityType
  <2>3. Cardinality(below(i)) # 0
    BY <2>1, <2>2, FS_EmptySet
  <2> QED
    BY <1>0, <1>1, <2>2, <2>3
<1>3. ASSUME NEW i \in L, NEW j \in L, i < j
      PROVE  rank[i] # rank[j]
  <2>1. below(i) \in SUBSET below(j) /\ below(j) \in SUBSET L /\ below(i) # below(j)
    <3>0. i \in Nat /\ j \in Nat /\ j <= j /\ ~(j <= i)
      BY <1>0, <1>3
    <3>1. j \in below(j) /\ j \notin below(i)
      BY <3>0
    <3>2. ASSUME NEW h \in below(i) PROVE h \in below(j)
      <4>1. h \in L /\ h \in Nat /\ h <= i
        BY <1>0
      <4> QED
        BY <3>0, <4>1
    <3> QED
      BY <3>1, <3>2
  <2> HIDE DEF below
  <2>2. IsFiniteSet(below(j))
    BY <1>0, <2>1, FS_Subset
  <2>3. Cardinality(below(j)) # Cardinality(below(i))
    BY <2>1, <2>2, FS_Subset
  <2> QED
    BY <1>1, <2>3
<1>4. rank \in Injection(L, 1..Cardinality(L))
  <2>1. rank \in [L -> 1..Cardinality(L)]
    BY <1>2 DEF rank
  <2>2. \A i, j \in L : rank[i] = rank[j] => i = j
    BY <1>0, <1>3
  <2> QED
    BY <2>1, <2>2 DEF Injection, IsInjective
<1>5. IsFiniteSet(1..Cardinality(L)) /\ Cardinality(1..Cardinality(L)) = Cardinality(L)
  BY <1>0, FS_Interval
<1>6. rank \in Surjection(L, 1..Cardinality(L))
  BY <1>4, <1>5, FS_Injection
<1>7. rank \in Bijection(L, 1..Cardinality(L))
  BY <1>4, <1>6 DEF Bijection
<1> QED
  BY <1>0, <1>7 DEF L, rank

LEMMA RankTyped ==
  ASSUME NEW w, NEW i \in Listed(w)
  PROVE  Rank(w, i) \in Nat \ {0}
<1> DEFINE rank == [j \in Listed(w) |-> Rank(w, j)]
           n == Cardinality(Listed(w))
<1>1. n \in Nat /\ rank \in Bijection(Listed(w), 1..n)
  BY RanksFill
<1> HIDE DEF n
<1>2. rank[i] \in 1..n
  BY <1>1 DEF Bijection, Injection
<1> QED
  BY <1>1, <1>2

\* A page with a listed order behind it is full (LimitStart, LimitNum).
LEMMA PagesFull ==
  ASSUME NEW w, NEW n \in Nat, NEW i \in Listed(w), Rank(w, i) > n + PageSize
  PROVE  Cardinality(Page(w, n)) >= PageSize
<1> DEFINE L == Listed(w)
           P == Page(w, n)
           R == (n + 1)..(n + PageSize)
           rank == [j \in L |-> Rank(w, j)]
           onPage == [j \in P |-> Rank(w, j)]
<1>0. PageSize \in Nat
  BY OrderAssumption
<1>1. IsFiniteSet(L) /\ Cardinality(L) \in Nat /\ rank \in Bijection(L, 1..Cardinality(L))
  BY RanksFill
<1>2. P \subseteq L /\ onPage \in [P -> R]
  BY DEF Page
<1>3. ASSUME NEW r \in R PROVE \E j \in P : onPage[j] = r
  <2>1. Rank(w, i) \in 1..Cardinality(L)
    BY <1>1 DEF Bijection, Injection
  <2>2. r \in 1..Cardinality(L)
    BY <1>0, <1>1, <2>1
  <2>3. PICK j \in L : rank[j] = r
    BY <1>1, <2>2 DEF Bijection, Surjection
  <2>4. j \in P /\ onPage[j] = r
    BY <2>3 DEF Page
  <2> QED
    BY <2>4
<1> HIDE DEF P, onPage, L, rank, R
<1>4. onPage \in Surjection(P, R) /\ IsFiniteSet(P)
  BY <1>1, <1>2, <1>3, FS_Subset DEF Surjection
<1>5. Cardinality(R) <= Cardinality(P)
  BY <1>4, FS_Surjection
<1>6. Cardinality(R) = PageSize
  BY <1>0, FS_Interval DEF R
<1> QED
  BY <1>5, <1>6 DEF P

-----------------------------------------------------------------------------
(* Behind the overlap the mirror is settled.                               *)

\* A run has a window from ReadCursor until its call ends.
Windowed == {p \in Pollers : step[p] \in {"windowed", "running", "downloaded"}}

\* Nothing before a time is missing from the mirror, but what is known to be.
Settled(b) == \A i \in Ids \ behind :
  Exists(i) /\ shop[i].modified < b /\ ~deletedAt[KeyOf[i]] => Mirrored(i)

\* A time an overlap before another, or none at all.
OverlapBefore(b, t) == b <= 0 \/ b + Overlap <= t

OneOrderPerKey == \A i, j \in Ids : Exists(i) /\ Exists(j) /\ KeyOf[i] = KeyOf[j] => i = j

\* The cursor and every window begin an overlap before now, and before them the
\* mirror is settled.
WindowsOK ==
  /\ cursor <= now /\ Settled(cursor - Overlap)
  /\ \A p \in Pollers : window[p].end <= now
  /\ \A p \in Windowed : OverlapBefore(window[p].start, now) /\ Settled(window[p].start)

\* Nothing moves the cursor under a run that holds the activeKey.
ActiveOK == active \in Pollers =>
  /\ step[active] \in {"running", "downloaded"}
  /\ started <= now /\ cursor <= started /\ window[active].end <= started
  /\ \A p \in Windowed : OverlapBefore(window[p].start, started)

\* What the run that holds the activeKey has downloaded is what UNAS has, unless
\* the order is not on its list, is on a page to come, has been passed over, or
\* has changed since the run began.
DownloadOK(p) == \A i \in Ids : Exists(i) =>
  \/ byKey[p][KeyOf[i]] = Payload(i)
  \/ /\ byKey[p][KeyOf[i]] = Nothing
     /\ \/ i \notin Listed(window[p])
        \/ i \in skipped[p]
        \/ step[p] = "running" /\ Rank(window[p], i) > limitStart[p]
  \/ shop[i].modified >= started

DownloadsOK == active \in Pollers => DownloadOK(active)

\* An answer under way is what UNAS has, unless the order has changed since.
AnswersOK == \A c \in Lookups : pc[c] = "answered" =>
  /\ asOf[c] <= now
  /\ answer[c] # Nothing => \A i \in Ids :
       Exists(i) /\ KeyOf[i] = key[c] => answer[c] = Payload(i) \/ shop[i].modified >= asOf[c]

SyncInv == OneOrderPerKey /\ WindowsOK /\ ActiveOK /\ DownloadsOK /\ AnswersOK

AllTyped == MirrorOK /\ SeenOK /\ PollersOK /\ RestOK

\* The times of all this.
LEMMA TimesTyped ==
  ASSUME AllTyped
  PROVE  /\ now \in Nat /\ cursor \in Nat /\ started \in Nat
         /\ Overlap \in Nat /\ MaxFlight \in Nat /\ PageSize \in Nat \ {0}
         /\ \A p \in Pollers : /\ window[p].start \in Int /\ window[p].end \in Nat
                               /\ limitStart[p] \in Nat
         /\ \A c \in Lookups : asOf[c] \in Nat
         /\ \A i \in Ids : shop[i].modified \in Nat
<1>1. now \in Nat /\ cursor \in Nat /\ started \in Nat
  BY DEF AllTyped, MirrorOK, PollersOK
<1>2. Overlap \in Nat /\ MaxFlight \in Nat /\ PageSize \in Nat \ {0}
  BY OrderAssumption
<1>3. \A p \in Pollers : window[p].start \in Int /\ window[p].end \in Nat /\ limitStart[p] \in Nat
  BY DEF AllTyped, PollersOK
<1>4. \A c \in Lookups : asOf[c] \in Nat
  BY DEF AllTyped, RestOK
<1>5. \A i \in Ids : shop[i].modified \in Nat
  BY DEF AllTyped, MirrorOK, Orders
<1> QED
  BY <1>1, <1>2, <1>3, <1>4, <1>5

\* A sighting settles what it shows as it is and leaves the rest settled.
LEMMA SightSettles ==
  ASSUME AllTyped, BookedIsOrdered, NEW seen, Sight(seen), UNCHANGED shop, NEW b,
         \A i \in Ids \ behind' : Exists(i) /\ shop[i].modified < b =>
           \/ seen[KeyOf[i]] = Payload(i)
           \/ seen[KeyOf[i]] = Nothing /\ (~deletedAt[KeyOf[i]] => Mirrored(i))
  PROVE  Settled(b)'
<1> SUFFICES ASSUME NEW i \in Ids \ behind', Exists(i), shop[i].modified < b,
                    ~deletedAt'[KeyOf[i]]
             PROVE  Mirrored(i)'
  BY DEF Settled, Exists
<1> DEFINE k == KeyOf[i]
<1>1. k \in Keys
  BY OrderAssumption
<1>2. Payload(i) \in Payloads /\ Payload(i).id = i /\ Payload(i) # Nothing
  BY PayloadTyped, NameAssumption DEF AllTyped, MirrorOK
<1>3. Payload(i)' = Payload(i)
  BY DEF Payload
<1> HIDE DEF k
<1>4. CASE seen[k] = Payload(i)
  <2>1. /\ status'[k] = Mapped(Payload(i))
        /\ booked'[k] = BookedAfter(k, Payload(i))
        /\ externalId'[k] = i
    BY <1>1, <1>2, <1>4 DEF Sight
  <2>2. BookedAfter(k, Payload(i)) = Target(k, Payload(i))
    BY <1>1 DEF BookedAfter, Target, BookedIsOrdered
  <2> QED
    BY <1>3, <2>1, <2>2 DEF Mirrored, k, Target
<1>5. CASE seen[k] = Nothing
  <2>1. /\ status'[k] = status[k] /\ booked'[k] = booked[k] /\ externalId'[k] = externalId[k]
        /\ ~deletedAt[k]
    BY <1>1, <1>5 DEF Sight, k
  <2>2. Mirrored(i)
    BY <1>2, <1>5, <2>1 DEF k
  <2> QED
    BY <1>3, <2>1, <2>2 DEF Mirrored, k, Target
<1> QED
  BY <1>4, <1>5 DEF k

\* What changes in UNAS is modified now, and a Key is given to one order.
LEMMA ShopChanges ==
  ASSUME AllTyped, OneOrderPerKey, Shop
  PROVE  /\ OneOrderPerKey'
         /\ \A i \in Ids : Exists(i)' =>
              \/ /\ Exists(i) /\ shop'[i] = shop[i]
                 /\ i \in behind => i \in behind'
                 /\ \A p \in Pollers : i \in skipped[p] \cup MovesUp(p) => i \in skipped'[p]
              \/ shop'[i].modified = now
         /\ UNCHANGED <<now, mirror, polling, lookups>>
<1>0. shop \in [Ids -> Orders]
  BY DEF AllTyped, MirrorOK
<1>1. PICK i \in Ids : Place(i) \/ Change(i) \/ Delete(i)
  BY DEF Shop
<1>2. /\ UNCHANGED <<now, mirror, polling, lookups>>
      /\ skipped' = [p \in Pollers |-> (skipped[p] \cup MovesUp(p)) \ {i}]
      /\ behind' = behind \ {i}
  BY <1>1 DEF Place, Change, Delete, Edit
<1>3. ASSUME NEW j \in Ids, j # i
      PROVE  /\ j \in behind => j \in behind'
             /\ \A p \in Pollers : j \in skipped[p] \cup MovesUp(p) => j \in skipped'[p]
  <2> HIDE DEF MovesUp
  <2> QED
    BY <1>2, <1>3
<1>4. CASE Place(i) \/ Change(i)
  <2>1. PICK s, q : shop' = [shop EXCEPT ![i] = [state |-> s, quantity |-> q, modified |-> now]]
    BY <1>4 DEF Place, Change, Edit
  <2>2. \A j \in Ids : Exists(j)' => (j # i /\ Exists(j) /\ shop'[j] = shop[j]) \/ (j = i /\ shop'[j].modified = now)
    BY <1>0, <2>1 DEF Exists
  <2>3. \A j \in Ids : j # i /\ Exists(j) => KeyOf[j] # KeyOf[i]
    BY <1>4 DEF Place, Change, OneOrderPerKey
  <2>4. OneOrderPerKey'
    BY <2>2, <2>3 DEF OneOrderPerKey
  <2> QED
    BY <1>2, <1>3, <2>2, <2>4
<1>5. CASE Delete(i)
  <2>1. shop' = [shop EXCEPT ![i] = [shop[i] EXCEPT !.state = "deleted"]]
    BY <1>5 DEF Delete, Edit
  <2>2. ~Exists(i)'
    BY <1>0, <2>1 DEF Exists, Live, Open, Done, Fault, Orders
  <2>3. \A j \in Ids : Exists(j)' => j # i /\ Exists(j) /\ shop'[j] = shop[j]
    BY <1>0, <2>1, <2>2 DEF Exists
  <2>4. OneOrderPerKey'
    BY <2>3 DEF OneOrderPerKey
  <2> QED
    BY <1>2, <1>3, <2>3, <2>4
<1> QED
  BY <1>1, <1>4, <1>5

\* A list nobody changes stays as it is.
LEMMA ListKept ==
  ASSUME UNCHANGED shop, NEW p, window'[p] = window[p]
  PROVE  /\ Listed(window[p])' = Listed(window[p])
         /\ \A i : Rank(window[p], i)' = Rank(window[p], i)
<1>1. Listed(window[p])' = Listed(window[p])
  BY DEF Listed, Exists
<1>2. \A i : Rank(window[p], i)' = Rank(window[p], i)
  BY <1>1 DEF Rank
<1> QED
  BY <1>1, <1>2

\* What a run has downloaded stays right while neither it nor UNAS moves.
LEMMA DownloadKept ==
  ASSUME UNCHANGED shop, NEW p, DownloadOK(p),
         started' = started /\ step'[p] = step[p] /\ window'[p] = window[p],
         limitStart'[p] = limitStart[p] /\ byKey'[p] = byKey[p] /\ skipped'[p] = skipped[p]
  PROVE  DownloadOK(p)'
<1>1. /\ Listed(window[p])' = Listed(window[p])
      /\ \A i : Rank(window[p], i)' = Rank(window[p], i)
  BY ListKept
<1>2. \A i : (Exists(i)' <=> Exists(i)) /\ Payload(i)' = Payload(i)
  BY DEF Exists, Payload
<1> QED
  BY <1>1, <1>2 DEF DownloadOK

LEMMA ShopSync ==
  ASSUME AllTyped, SyncInv, Shop
  PROVE  SyncInv'
<1>1. /\ OneOrderPerKey'
      /\ \A i \in Ids : Exists(i)' =>
           \/ /\ Exists(i) /\ shop'[i] = shop[i]
              /\ i \in behind => i \in behind'
              /\ \A p \in Pollers : i \in skipped[p] \cup MovesUp(p) => i \in skipped'[p]
           \/ shop'[i].modified = now
      /\ UNCHANGED <<now, mirror, polling, lookups>>
  BY ShopChanges DEF SyncInv
<1>2. UNCHANGED <<status, lines, booked, deletedAt, externalId, cursor, active, started, step,
                  window, limitStart, byKey, pc, key, answer, asOf>>
  BY <1>1 DEF mirror, polling, lookups
<1>3. ASSUME NEW b \in Int, b <= now, Settled(b)
      PROVE  Settled(b)'
  <2> SUFFICES ASSUME NEW i \in Ids \ behind', Exists(i)', shop'[i].modified < b,
                      ~deletedAt'[KeyOf[i]]
               PROVE  Mirrored(i)'
    BY DEF Settled
  <2>1. Exists(i) /\ shop'[i] = shop[i] /\ i \notin behind
    BY <1>1, <1>3, TimesTyped
  <2>2. Mirrored(i)
    BY <1>2, <1>3, <2>1 DEF Settled
  <2> QED
    BY <1>2, <2>1, <2>2 DEF Mirrored, Payload, Target
<1>4. WindowsOK'
  <2>1. Settled(cursor - Overlap)'
    <3>1. PICK b \in Int : b = cursor - Overlap /\ b <= now
      BY TimesTyped DEF SyncInv, WindowsOK
    <3>2. Settled(b)'
      BY <1>3, <3>1 DEF SyncInv, WindowsOK
    <3> QED
      BY <1>2, <3>1, <3>2 DEF Settled
  <2>2. ASSUME NEW p \in Windowed
        PROVE  Settled(window[p].start)'
    <3>1. PICK b \in Int : b = window[p].start /\ b <= now
      BY TimesTyped DEF SyncInv, WindowsOK, OverlapBefore, Windowed
    <3>2. Settled(b)'
      BY <1>3, <3>1 DEF SyncInv, WindowsOK
    <3> QED
      BY <1>2, <3>1, <3>2 DEF Settled
  <2>3. Windowed' = Windowed
    BY <1>2 DEF Windowed
  <2> QED
    BY <1>1, <1>2, <2>1, <2>2, <2>3 DEF SyncInv, WindowsOK, OverlapBefore
<1>5. ActiveOK'
  BY <1>1, <1>2 DEF SyncInv, ActiveOK, Windowed, OverlapBefore
<1>6. DownloadsOK'
  <2>1. ASSUME NEW p \in Pollers, active = p
        PROVE  DownloadOK(p)'
    <3>1. DownloadOK(p) /\ started <= now
      BY <2>1 DEF SyncInv, DownloadsOK, ActiveOK
    <3>2. SUFFICES ASSUME NEW i \in Ids, Exists(i), shop'[i] = shop[i],
                          i \in skipped[p] \cup MovesUp(p) => i \in skipped'[p]
                   PROVE  \/ byKey[p][KeyOf[i]] = Payload(i)
                          \/ /\ byKey[p][KeyOf[i]] = Nothing
                             /\ \/ i \notin Listed(window[p])'
                                \/ i \in skipped'[p]
                                \/ step[p] = "running" /\ Rank(window[p], i)' > limitStart[p]
                          \/ shop[i].modified >= started
      BY <1>1, <1>2, <3>1 DEF DownloadOK, Payload
    <3>3. i \in Listed(window[p])' <=> i \in Listed(window[p])
      BY <1>2, <3>2 DEF Listed, Exists
    <3>4. Rank(window[p], i)' \in Nat /\ limitStart[p] \in Nat
      <4>1. Rank(window[p], i)' = Cardinality({j \in Listed(window[p])' : j <= i})
        BY DEF Rank
      <4>2. {j \in Listed(window[p])' : j <= i} \in SUBSET Ids
        BY DEF Listed
      <4> QED
        BY <4>1, <4>2, OrderAssumption, TimesTyped, FS_Subset, FS_CardinalityType
    <3>5. CASE i \in Listed(window[p]) /\ Rank(window[p], i) > limitStart[p]
      <4>1. Rank(window[p], i)' <= limitStart[p] => i \in MovesUp(p)
        BY <1>2, <3>3, <3>5 DEF MovesUp
      <4>2. i \in skipped'[p] \/ Rank(window[p], i)' > limitStart[p]
        BY <3>2, <3>4, <4>1
      <4> QED
        BY <3>1, <3>2, <3>5, <4>2 DEF DownloadOK
    <3> QED
      BY <3>1, <3>2, <3>3, <3>5 DEF DownloadOK
  <2> QED
    BY <1>2, <2>1 DEF DownloadsOK
<1>7. AnswersOK'
  BY <1>1, <1>2 DEF SyncInv, AnswersOK, Payload
<1> QED
  BY <1>1, <1>4, <1>5, <1>6, <1>7 DEF SyncInv

LEMMA TickSync ==
  ASSUME AllTyped, SyncInv, Tick
  PROVE  SyncInv'
<1>1. /\ now' = now + 1
      /\ \A c \in Lookups : pc[c] = "answered" => now - asOf[c] < MaxFlight
      /\ UNCHANGED <<shop, status, lines, booked, deletedAt, externalId, cursor, active, started,
                     step, window, limitStart, byKey, pc, key, answer, asOf, skipped, behind>>
  BY DEF Tick, mirror, polling, lookups, history
<1>2. \A b : Settled(b)' <=> Settled(b)
  BY <1>1 DEF Settled, Mirrored, Exists, Payload, Target
<1>3. OneOrderPerKey'
  BY <1>1 DEF SyncInv, OneOrderPerKey, Exists
<1>4. Windowed' = Windowed /\ Windowed \subseteq Pollers
  BY <1>1 DEF Windowed
<1>5. WindowsOK'
  <2>1. cursor' <= now' /\ Settled(cursor - Overlap)'
    <3>1. PICK b : b = cursor - Overlap
      OBVIOUS
    <3>2. Settled(b)'
      BY <1>2, <3>1 DEF SyncInv, WindowsOK
    <3>3. Settled(cursor - Overlap)'
      BY <1>1, <3>1, <3>2 DEF Settled
    <3>4. cursor <= now
      BY DEF SyncInv, WindowsOK
    <3> QED
      BY <1>1, <3>3, <3>4, TimesTyped
  <2>2. \A p \in Pollers : window'[p].end <= now'
    BY <1>1, TimesTyped DEF SyncInv, WindowsOK
  <2>3. ASSUME NEW p \in Windowed'
        PROVE  OverlapBefore(window[p].start, now)' /\ Settled(window[p].start)'
    <3>1. p \in Windowed /\ p \in Pollers
      BY <1>4, <2>3
    <3>2. PICK b : b = window[p].start
      OBVIOUS
    <3>3. Settled(b)' /\ OverlapBefore(b, now)
      BY <1>2, <3>1, <3>2 DEF SyncInv, WindowsOK
    <3>4. Settled(window[p].start)'
      BY <1>1, <3>2, <3>3 DEF Settled
    <3>5. OverlapBefore(window[p].start, now)'
      BY <1>1, <3>1, <3>2, <3>3, TimesTyped DEF OverlapBefore
    <3> QED
      BY <3>4, <3>5
  <2> QED
    BY <2>1, <2>2, <2>3 DEF WindowsOK
<1>6. ActiveOK'
  BY <1>1, <1>4, TimesTyped DEF SyncInv, ActiveOK, OverlapBefore
<1>7. DownloadsOK'
  BY <1>1, DownloadKept DEF SyncInv, DownloadsOK
<1>8. AnswersOK'
  BY <1>1, TimesTyped DEF SyncInv, AnswersOK, Exists, Payload
<1> QED
  BY <1>3, <1>5, <1>6, <1>7, <1>8 DEF SyncInv

\* Steps that leave the shop and the clock alone keep what says nothing more.
LEMMA NothingElse ==
  ASSUME SyncInv, UNCHANGED <<now, shop, lookups>>
  PROVE  OneOrderPerKey' /\ AnswersOK'
<1>1. OneOrderPerKey'
  BY DEF SyncInv, OneOrderPerKey, Exists
<1>2. AnswersOK'
  BY DEF SyncInv, AnswersOK, Exists, Payload, lookups
<1> QED
  BY <1>1, <1>2

LEMMA SettledSame ==
  ASSUME UNCHANGED <<shop, mirror, behind>>
  PROVE  \A b : Settled(b)' <=> Settled(b)
BY DEF mirror, Settled, Mirrored, Exists, Payload, Target

\* A call that ends, by which way ever, and holds no activeKey afterwards.
LEMMA EndSync ==
  ASSUME AllTyped, SyncInv, NEW p \in Pollers, End(p), UNCHANGED <<now, shop, mirror, cursor, lookups, behind>>,
         \/ active' = active /\ active # p /\ started' = started
         \/ active' \notin Pollers
  PROVE  SyncInv'
<1>0. /\ step \in [Pollers -> {"idle", "called", "windowed", "running", "downloaded"}]
      /\ window \in [Pollers -> [start : Int, end : Nat]]
      /\ limitStart \in [Pollers -> Nat]
      /\ byKey \in [Pollers -> [Keys -> Payloads \cup {Nothing}]]
      /\ skipped \in [Pollers -> SUBSET Ids]
  BY DEF AllTyped, PollersOK, SeenOK
<1>1. /\ step'[p] = "idle" /\ window'[p] = Nowhen
      /\ \A q \in Pollers : q # p =>
           /\ step'[q] = step[q] /\ window'[q] = window[q] /\ skipped'[q] = skipped[q]
           /\ limitStart'[q] = limitStart[q] /\ byKey'[q] = byKey[q]
  BY <1>0 DEF End, Goto
<1>2. OneOrderPerKey' /\ AnswersOK'
  BY NothingElse
<1>3. \A b : Settled(b)' <=> Settled(b)
  BY SettledSame
<1>4. Windowed' = Windowed \ {p}
  BY <1>1 DEF Windowed
<1>5. WindowsOK'
  <2>1. cursor' <= now' /\ Settled(cursor - Overlap)'
    <3>1. PICK b : b = cursor - Overlap
      OBVIOUS
    <3>2. Settled(b)'
      BY <1>3, <3>1 DEF SyncInv, WindowsOK
    <3> QED
      BY <3>1, <3>2 DEF Settled, SyncInv, WindowsOK
  <2>2. \A q \in Pollers : window'[q].end <= now'
    BY <1>1, TimesTyped DEF SyncInv, WindowsOK, Nowhen
  <2>3. ASSUME NEW q \in Windowed'
        PROVE  OverlapBefore(window[q].start, now)' /\ Settled(window[q].start)'
    <3>1. q \in Windowed /\ window'[q] = window[q]
      BY <1>1, <1>4, <2>3 DEF Windowed
    <3>2. PICK b : b = window[q].start
      OBVIOUS
    <3>3. Settled(b)' /\ OverlapBefore(b, now)
      BY <1>3, <3>1, <3>2 DEF SyncInv, WindowsOK
    <3> QED
      BY <3>1, <3>2, <3>3 DEF Settled, OverlapBefore
  <2> QED
    BY <2>1, <2>2, <2>3 DEF WindowsOK
<1>6. ActiveOK'
  <2> SUFFICES ASSUME active' \in Pollers PROVE ActiveOK'
    BY DEF ActiveOK
  <2>1. active' = active /\ active # p /\ started' = started /\ active \in Pollers
    OBVIOUS
  <2>2. step'[active] = step[active] /\ window'[active] = window[active]
    BY <1>1, <2>1
  <2>3. \A q \in Windowed' : q \in Windowed /\ window'[q] = window[q]
    BY <1>1, <1>4 DEF Windowed
  <2> QED
    BY <2>1, <2>2, <2>3 DEF SyncInv, ActiveOK, OverlapBefore
<1>7. DownloadsOK'
  <2> SUFFICES ASSUME active' \in Pollers PROVE DownloadOK(active)'
    BY DEF DownloadsOK
  <2>1. active' = active /\ active # p /\ started' = started /\ active \in Pollers
    OBVIOUS
  <2>2. PICK q \in Pollers : q = active /\ q # p /\ active' = q /\ started' = started
    BY <2>1
  <2>3. DownloadOK(q)
    BY <2>2 DEF SyncInv, DownloadsOK
  <2>4. DownloadOK(q)'
    BY <1>1, <2>2, <2>3, DownloadKept
  <2> QED
    BY <2>2, <2>4 DEF DownloadOK
<1> QED
  BY <1>2, <1>5, <1>6, <1>7 DEF SyncInv

LEMMA RunsTyped ==
  ASSUME AllTyped
  PROVE  /\ step \in [Pollers -> {"idle", "called", "windowed", "running", "downloaded"}]
         /\ window \in [Pollers -> [start : Int, end : Nat]]
         /\ limitStart \in [Pollers -> Nat]
         /\ byKey \in [Pollers -> [Keys -> Payloads \cup {Nothing}]]
         /\ skipped \in [Pollers -> SUBSET Ids]
BY DEF AllTyped, PollersOK, SeenOK

\* Settled times stay settled where the mirror and the shop stay as they are.
LEMMA WindowsKept ==
  ASSUME SyncInv, UNCHANGED <<now, shop, mirror, cursor, behind>>
  PROVE  /\ cursor' <= now' /\ Settled(cursor - Overlap)'
         /\ \A p \in Windowed : Settled(window[p].start)
         /\ \A b : Settled(b) => Settled(b)'
<1>1. \A b : Settled(b)' <=> Settled(b)
  BY SettledSame
<1>2. PICK b : b = cursor - Overlap
  OBVIOUS
<1>3. Settled(b)'
  BY <1>1, <1>2 DEF SyncInv, WindowsOK
<1>4. Settled(cursor - Overlap)'
  BY <1>2, <1>3 DEF Settled
<1> QED
  BY <1>1, <1>4 DEF SyncInv, WindowsOK

LEMMA CallSync ==
  ASSUME AllTyped, SyncInv, NEW p \in Pollers, Call(p)
  PROVE  SyncInv'
<1>1. /\ step[p] = "idle" /\ step'[p] = "called" /\ window'[p].end = now
      /\ \A q \in Pollers : q # p => step'[q] = step[q] /\ window'[q] = window[q]
      /\ UNCHANGED <<now, shop, mirror, cursor, active, started, limitStart, byKey, lookups,
                     skipped, behind>>
  <2>1. UNCHANGED <<now, shop, mirror, cursor, active, started, limitStart, byKey, lookups,
                    skipped, behind>>
    BY DEF Call, history
  <2>2. /\ step[p] = "idle" /\ step' = [step EXCEPT ![p] = "called"]
        /\ window' = [window EXCEPT ![p] = [window[p] EXCEPT !.end = now]]
    BY DEF Call, Goto
  <2>3. window[p] \in [start : Int, end : Nat]
    BY RunsTyped
  <2> QED
    BY <2>1, <2>2, <2>3, RunsTyped
<1>2. OneOrderPerKey' /\ AnswersOK'
  BY <1>1, NothingElse
<1>3. Windowed' = Windowed /\ p \notin Windowed
  BY <1>1 DEF Windowed
<1>4. WindowsOK'
  <2>1. cursor' <= now' /\ Settled(cursor - Overlap)'
    BY <1>1, WindowsKept
  <2>2. \A q \in Pollers : window'[q].end <= now'
    BY <1>1, TimesTyped DEF SyncInv, WindowsOK
  <2>3. ASSUME NEW q \in Windowed'
        PROVE  OverlapBefore(window[q].start, now)' /\ Settled(window[q].start)'
    <3>1. q \in Windowed /\ window'[q] = window[q]
      BY <1>1, <1>3, <2>3 DEF Windowed
    <3>2. PICK b : b = window[q].start
      OBVIOUS
    <3>3. Settled(b)' /\ OverlapBefore(b, now)
      BY <1>1, <3>1, <3>2, WindowsKept DEF SyncInv, WindowsOK
    <3> QED
      BY <1>1, <3>1, <3>2, <3>3 DEF Settled, OverlapBefore
  <2> QED
    BY <2>1, <2>2, <2>3 DEF WindowsOK
<1>5. ActiveOK'
  <2> SUFFICES ASSUME active' \in Pollers PROVE ActiveOK'
    BY DEF ActiveOK
  <2>1. active \in Pollers /\ active # p
    BY <1>1 DEF SyncInv, ActiveOK
  <2>2. \A q \in Windowed' : q \in Windowed /\ window'[q] = window[q]
    BY <1>1, <1>3 DEF Windowed
  <2> QED
    BY <1>1, <2>1, <2>2 DEF SyncInv, ActiveOK, OverlapBefore
<1>6. DownloadsOK'
  <2> SUFFICES ASSUME active' \in Pollers PROVE DownloadOK(active)'
    BY DEF DownloadsOK
  <2>1. PICK q \in Pollers : q = active /\ active' = q /\ q # p /\ DownloadOK(q)
    BY <1>1 DEF SyncInv, DownloadsOK, ActiveOK
  <2>2. DownloadOK(q)'
    BY <1>1, <2>1, DownloadKept
  <2> QED
    BY <2>1, <2>2 DEF DownloadOK
<1> QED
  BY <1>2, <1>4, <1>5, <1>6 DEF SyncInv

\* A window that begins an overlap before the cursor begins where the mirror is
\* settled.
LEMMA StartSettled ==
  ASSUME AllTyped, SyncInv
  PROVE  /\ Settled(WindowStart) /\ OverlapBefore(WindowStart, now)
         /\ active \in Pollers => OverlapBefore(WindowStart, started)
<1>1. CASE cursor = 0
  <2>1. WindowStart = 0
    BY <1>1 DEF WindowStart
  <2>2. Settled(0)
    BY TimesTyped DEF Settled
  <2> QED
    BY <2>1, <2>2 DEF OverlapBefore
<1>2. CASE cursor # 0
  <2>1. WindowStart = cursor - Overlap
    BY <1>2 DEF WindowStart
  <2>2. Settled(WindowStart) /\ cursor <= now
    BY <2>1 DEF SyncInv, WindowsOK
  <2>3. active \in Pollers => cursor <= started
    BY DEF SyncInv, ActiveOK
  <2> QED
    BY <2>1, <2>2, <2>3, TimesTyped DEF OverlapBefore
<1> QED
  BY <1>1, <1>2

LEMMA ReadCursorSync ==
  ASSUME AllTyped, SyncInv, NEW p \in Pollers, ReadCursor(p)
  PROVE  SyncInv'
<1>1. /\ step[p] = "called" /\ step'[p] = "windowed"
      /\ window'[p].start = WindowStart /\ window'[p].end = window[p].end
      /\ \A q \in Pollers : q # p => step'[q] = step[q] /\ window'[q] = window[q]
      /\ UNCHANGED <<now, shop, mirror, cursor, active, started, limitStart, byKey, lookups,
                     skipped, behind>>
  <2>1. UNCHANGED <<now, shop, mirror, cursor, active, started, limitStart, byKey, lookups,
                    skipped, behind>>
    BY DEF ReadCursor, history
  <2>2. /\ step[p] = "called" /\ step' = [step EXCEPT ![p] = "windowed"]
        /\ window' = [window EXCEPT ![p] = [window[p] EXCEPT !.start = WindowStart]]
    BY DEF ReadCursor, Goto
  <2>3. window[p] \in [start : Int, end : Nat]
    BY RunsTyped
  <2> QED
    BY <2>1, <2>2, <2>3, RunsTyped
<1>2. OneOrderPerKey' /\ AnswersOK'
  BY <1>1, NothingElse
<1>3. Windowed' = Windowed \cup {p} /\ p \notin Windowed
  BY <1>1 DEF Windowed
<1>4. \A q \in Windowed' : q = p \/ (q \in Windowed /\ window'[q] = window[q])
  BY <1>1, <1>3 DEF Windowed
<1>5. WindowsOK'
  <2>1. cursor' <= now' /\ Settled(cursor - Overlap)'
    BY <1>1, WindowsKept
  <2>2. \A q \in Pollers : window'[q].end <= now'
    BY <1>1, TimesTyped DEF SyncInv, WindowsOK
  <2>3. ASSUME NEW q \in Windowed'
        PROVE  OverlapBefore(window[q].start, now)' /\ Settled(window[q].start)'
    <3>1. PICK b : b = window'[q].start
      OBVIOUS
    <3>2. b = WindowStart \/ (q \in Windowed /\ b = window[q].start)
      BY <1>1, <1>4, <3>1
    <3>3. Settled(b) /\ OverlapBefore(b, now)
      BY <3>2, StartSettled DEF SyncInv, WindowsOK
    <3>4. Settled(b)'
      BY <1>1, <3>3, WindowsKept
    <3> QED
      BY <1>1, <3>1, <3>3, <3>4 DEF Settled, OverlapBefore
  <2> QED
    BY <2>1, <2>2, <2>3 DEF WindowsOK
<1>6. ActiveOK'
  <2> SUFFICES ASSUME active' \in Pollers PROVE ActiveOK'
    BY DEF ActiveOK
  <2>1. active \in Pollers /\ active # p
    BY <1>1 DEF SyncInv, ActiveOK
  <2>2. ASSUME NEW q \in Windowed'
        PROVE  OverlapBefore(window[q].start, started)'
    <3>1. window'[q].start = WindowStart \/ (q \in Windowed /\ window'[q].start = window[q].start)
      BY <1>1, <1>4
    <3> QED
      BY <1>1, <2>1, <3>1, StartSettled DEF SyncInv, ActiveOK, OverlapBefore
  <2> QED
    BY <1>1, <2>1, <2>2 DEF SyncInv, ActiveOK
<1>7. DownloadsOK'
  <2> SUFFICES ASSUME active' \in Pollers PROVE DownloadOK(active)'
    BY DEF DownloadsOK
  <2>1. PICK q \in Pollers : q = active /\ active' = q /\ q # p /\ DownloadOK(q)
    BY <1>1 DEF SyncInv, DownloadsOK, ActiveOK
  <2>2. DownloadOK(q)'
    BY <1>1, <2>1, DownloadKept
  <2> QED
    BY <2>1, <2>2 DEF DownloadOK
<1> QED
  BY <1>2, <1>5, <1>6, <1>7 DEF SyncInv

LEMMA CreateRunSync ==
  ASSUME AllTyped, SyncInv, NEW p \in Pollers, CreateRun(p)
  PROVE  SyncInv'
<1>1. /\ step[p] = "windowed" /\ step'[p] = "running" /\ active' = p /\ started' = now
      /\ limitStart'[p] = 0 /\ byKey'[p] = Empty
      /\ \A q \in Pollers : q # p => /\ step'[q] = step[q] /\ limitStart'[q] = limitStart[q]
                                     /\ byKey'[q] = byKey[q]
      /\ UNCHANGED <<now, shop, mirror, cursor, window, lookups, skipped, behind>>
  BY RunsTyped DEF CreateRun, Goto, history
<1>2. OneOrderPerKey' /\ AnswersOK'
  BY <1>1, NothingElse
<1>3. Windowed' = Windowed
  BY <1>1 DEF Windowed
<1>4. WindowsOK'
  <2>1. cursor' <= now' /\ Settled(cursor - Overlap)'
    BY <1>1, WindowsKept
  <2>2. \A q \in Pollers : window'[q].end <= now'
    BY <1>1 DEF SyncInv, WindowsOK
  <2>3. ASSUME NEW q \in Windowed'
        PROVE  OverlapBefore(window[q].start, now)' /\ Settled(window[q].start)'
    <3>2. PICK b : b = window[q].start
      OBVIOUS
    <3>3. Settled(b)' /\ OverlapBefore(b, now)
      BY <1>1, <1>3, <3>2, WindowsKept DEF SyncInv, WindowsOK
    <3> QED
      BY <1>1, <3>2, <3>3 DEF Settled, OverlapBefore
  <2> QED
    BY <2>1, <2>2, <2>3 DEF WindowsOK
<1>5. ActiveOK'
  BY <1>1, <1>3, TimesTyped DEF SyncInv, WindowsOK, ActiveOK, OverlapBefore
<1>6. DownloadsOK'
  <2>1. \A i \in Ids : i \in Listed(window[p]) => Rank(window[p], i) > 0
    <3>1. ASSUME NEW i \in Listed(window[p]) PROVE Rank(window[p], i) \in Nat \ {0}
      BY RankTyped
    <3> QED
      BY <3>1
  <2>2. /\ Listed(window[p])' = Listed(window[p])
        /\ \A i : Rank(window[p], i)' = Rank(window[p], i)
    BY <1>1, ListKept
  <2>3. \A i \in Ids : KeyOf[i] \in Keys
    BY OrderAssumption
  <2>4. DownloadOK(p)'
    BY <1>1, <2>1, <2>2, <2>3 DEF DownloadOK, Empty
  <2> QED
    BY <1>1, <2>4 DEF DownloadsOK, DownloadOK
<1> QED
  BY <1>2, <1>4, <1>5, <1>6 DEF SyncInv

LEMMA DownloadSync ==
  ASSUME AllTyped, SyncInv, NEW p \in Pollers, DownloadPage(p)
  PROVE  SyncInv'
<1> DEFINE page == Page(window[p], limitStart[p])
           seen == [k \in Keys |->
                      IF \E i \in page : KeyOf[i] = k
                      THEN Payload(CHOOSE i \in page : KeyOf[i] = k)
                      ELSE byKey[p][k]]
<1>1. /\ step[p] = "running"
      /\ step'[p] = IF Cardinality(page) < PageSize THEN "downloaded" ELSE "running"
      /\ limitStart'[p] = limitStart[p] + PageSize /\ byKey'[p] = seen
      /\ \A q \in Pollers : q # p => /\ step'[q] = step[q] /\ limitStart'[q] = limitStart[q]
                                     /\ byKey'[q] = byKey[q]
      /\ UNCHANGED <<now, shop, mirror, cursor, active, started, window, lookups, skipped, behind>>
  <2>1. UNCHANGED <<now, shop, mirror, cursor, active, started, window, lookups, skipped, behind>>
    BY DEF DownloadPage, history
  <2>2. byKey' = [byKey EXCEPT ![p] = seen]
    BY DEF DownloadPage
  <2>3. /\ step[p] = "running" /\ limitStart' = [limitStart EXCEPT ![p] = limitStart[p] + PageSize]
        /\ IF Cardinality(page) < PageSize
           THEN step' = [step EXCEPT ![p] = "downloaded"] ELSE step' = step
    BY DEF DownloadPage, Goto
  <2> HIDE DEF seen, page
  <2> QED
    BY <2>1, <2>2, <2>3, RunsTyped
<1>2. OneOrderPerKey' /\ AnswersOK'
  BY <1>1, NothingElse
<1>3. Windowed' = Windowed
  BY <1>1 DEF Windowed
<1>4. WindowsOK'
  <2>1. cursor' <= now' /\ Settled(cursor - Overlap)'
    BY <1>1, WindowsKept
  <2>2. \A q \in Pollers : window'[q].end <= now'
    BY <1>1 DEF SyncInv, WindowsOK
  <2>3. ASSUME NEW q \in Windowed'
        PROVE  OverlapBefore(window[q].start, now)' /\ Settled(window[q].start)'
    <3>1. PICK b : b = window[q].start
      OBVIOUS
    <3>2. Settled(b)' /\ OverlapBefore(b, now)
      BY <1>1, <1>3, <3>1, WindowsKept DEF SyncInv, WindowsOK
    <3> QED
      BY <1>1, <3>1, <3>2 DEF Settled, OverlapBefore
  <2> QED
    BY <2>1, <2>2, <2>3 DEF WindowsOK
<1>5. ActiveOK'
  <2>1. active = p => step'[active] \in {"running", "downloaded"}
    BY <1>1
  <2>2. active \in Pollers /\ active # p => step'[active] = step[active]
    BY <1>1
  <2> HIDE DEF seen
  <2> QED
    BY <1>1, <1>3, <2>1, <2>2 DEF SyncInv, ActiveOK, OverlapBefore
<1>6. ASSUME active = p
      PROVE  DownloadOK(p)'
  <2>1. /\ Listed(window[p])' = Listed(window[p])
        /\ \A i : Rank(window[p], i)' = Rank(window[p], i)
    BY <1>1, ListKept
  <2>2. \A i \in Ids : (Exists(i)' <=> Exists(i)) /\ Payload(i)' = Payload(i)
    BY <1>1 DEF Exists, Payload
  <2> HIDE DEF seen, page
  <2> SUFFICES ASSUME NEW i \in Ids, Exists(i), ~(shop[i].modified >= started)
               PROVE  \/ byKey'[p][KeyOf[i]] = Payload(i)
                      \/ /\ byKey'[p][KeyOf[i]] = Nothing
                         /\ \/ i \notin Listed(window[p])
                            \/ i \in skipped[p]
                            \/ step'[p] = "running" /\ Rank(window[p], i) > limitStart'[p]
    BY <1>1, <2>1, <2>2 DEF DownloadOK
  <2> USE DEF seen, page
  <2>3. KeyOf[i] \in Keys
    BY OrderAssumption
  <2>4. byKey'[p][KeyOf[i]] =
          IF \E j \in page : KeyOf[j] = KeyOf[i]
          THEN Payload(CHOOSE j \in page : KeyOf[j] = KeyOf[i])
          ELSE byKey[p][KeyOf[i]]
    BY <1>1, <2>3
  <2>5. \A j \in page : KeyOf[j] = KeyOf[i] => j = i
    BY DEF Page, Listed, SyncInv, OneOrderPerKey
  <2>6. \/ byKey[p][KeyOf[i]] = Payload(i)
        \/ /\ byKey[p][KeyOf[i]] = Nothing
           /\ i \notin Listed(window[p]) \/ i \in skipped[p]
              \/ Rank(window[p], i) > limitStart[p]
    BY <1>6 DEF SyncInv, DownloadsOK, DownloadOK
  <2>7. CASE i \in page
    <3> HIDE DEF page
    <3>1. (CHOOSE j \in page : KeyOf[j] = KeyOf[i]) = i
      BY <2>5, <2>7
    <3> QED
      BY <2>4, <2>7, <3>1
  <2>8. CASE i \notin page
    <3>1. byKey'[p][KeyOf[i]] = byKey[p][KeyOf[i]]
      BY <2>4, <2>5, <2>8
    <3>2. ASSUME i \in Listed(window[p]), Rank(window[p], i) > limitStart[p]
          PROVE  step'[p] = "running" /\ Rank(window[p], i) > limitStart'[p]
      <4>1. Rank(window[p], i) \in Nat
        BY <3>2, RankTyped
      <4>2. Rank(window[p], i) > limitStart[p] + PageSize
        BY <2>8, <3>2, <4>1, TimesTyped DEF Page
      <4>3. Cardinality(page) >= PageSize
        BY <3>2, <4>2, PagesFull, TimesTyped
      <4>4. IsFiniteSet(page)
        <5>1. page \in SUBSET Ids
          BY DEF Page, Listed
        <5> QED
          BY <5>1, OrderAssumption, FS_Subset
      <4>5. Cardinality(page) \in Nat
        BY <4>4, FS_CardinalityType
      <4> HIDE DEF page
      <4> QED
        BY <1>1, <4>2, <4>3, <4>5, TimesTyped
    <3> QED
      BY <2>6, <3>1, <3>2
  <2> QED
    BY <2>7, <2>8
<1> HIDE DEF seen, page
<1>7. DownloadsOK'
  <2> SUFFICES ASSUME active' \in Pollers PROVE DownloadOK(active)'
    BY DEF DownloadsOK
  <2>1. CASE active = p
    BY <1>1, <1>6, <2>1 DEF DownloadOK
  <2>2. CASE active # p
    <3>1. PICK q \in Pollers : q = active /\ active' = q /\ q # p /\ DownloadOK(q)
      BY <1>1, <2>2 DEF SyncInv, DownloadsOK
    <3>2. DownloadOK(q)'
      BY <1>1, <3>1, DownloadKept
    <3> QED
      BY <3>1, <3>2 DEF DownloadOK
  <2> QED
    BY <2>1, <2>2
<1> QED
  BY <1>2, <1>4, <1>5, <1>7 DEF SyncInv

LEMMA ApplySync ==
  ASSUME AllTyped, SyncInv, BookedIsOrdered, NEW p \in Pollers, Apply(p)
  PROVE  SyncInv'
<1>1. /\ step[p] = "downloaded" /\ active = p /\ active' = Nobody
      /\ Sight(byKey[p]) /\ cursor' = window[p].end /\ End(p)
      /\ behind' = (behind \cup skipped[p]) \ Shown(byKey[p])
      /\ UNCHANGED <<now, shop, lookups>>
  BY DEF Apply, CursorAfter, Release
<1>2. /\ step'[p] = "idle" /\ window'[p] = Nowhen
      /\ \A q \in Pollers : q # p =>
           /\ step'[q] = step[q] /\ window'[q] = window[q]
           /\ limitStart'[q] = limitStart[q] /\ byKey'[q] = byKey[q]
  BY <1>1, RunsTyped DEF End, Goto
<1>3. OneOrderPerKey' /\ AnswersOK'
  BY <1>1, NothingElse
<1>4. Windowed' = Windowed \ {p} /\ p \in Windowed
  BY <1>1, <1>2 DEF Windowed
<1>5. DownloadOK(p) /\ window[p].end <= started /\ Settled(window[p].start)
      /\ \A q \in Windowed : Settled(window[q].start) /\ OverlapBefore(window[q].start, started)
  BY <1>1, <1>4 DEF SyncInv, DownloadsOK, ActiveOK, WindowsOK
<1>6. ASSUME NEW b \in Int,
             \A i \in Ids : Exists(i) /\ shop[i].modified < b => shop[i].modified < started,
             \/ Settled(b)
             \/ b <= window[p].end
      PROVE  Settled(b)'
  <2>1. ASSUME NEW i \in Ids \ behind', Exists(i), shop[i].modified < b
        PROVE  \/ byKey[p][KeyOf[i]] = Payload(i)
               \/ byKey[p][KeyOf[i]] = Nothing /\ (~deletedAt[KeyOf[i]] => Mirrored(i))
    <3>1. shop[i].modified < started
      BY <1>6, <2>1
    <3>2. \/ byKey[p][KeyOf[i]] = Payload(i)
          \/ /\ byKey[p][KeyOf[i]] = Nothing
             /\ i \notin Listed(window[p]) \/ i \in skipped[p]
      BY <1>1, <1>5, <2>1, <3>1, TimesTyped DEF DownloadOK
    <3>3. SUFFICES ASSUME byKey[p][KeyOf[i]] = Nothing, ~deletedAt[KeyOf[i]]
                   PROVE  Mirrored(i)
      BY <3>2
    <3>4. byKey[p][KeyOf[i]] # Payload(i)
      BY <2>1, <3>3, PayloadTyped, NameAssumption DEF AllTyped, MirrorOK
    <3>5. i \notin Shown(byKey[p])
      BY <3>3 DEF Shown
    <3>6. i \notin behind /\ i \notin skipped[p]
      BY <1>1, <2>1, <3>5
    <3>7. shop[i].modified < window[p].start \/ shop[i].modified > window[p].end
      BY <2>1, <3>2, <3>4, <3>6, TimesTyped DEF Listed
    <3>8. CASE Settled(b)
      BY <2>1, <3>3, <3>6, <3>8 DEF Settled
    <3>9. CASE b <= window[p].end
      <4>1. ~(shop[i].modified > window[p].end)
        BY <2>1, <3>9, TimesTyped
      <4> QED
        BY <1>5, <2>1, <3>3, <3>6, <3>7, <4>1 DEF Settled
    <3> QED
      BY <1>6, <3>8, <3>9
  <2> QED
    BY <1>1, <2>1, SightSettles
<1>7. WindowsOK'
  <2>1. cursor' <= now' /\ Settled(cursor - Overlap)'
    <3>1. PICK b \in Int : b = window[p].end - Overlap /\ b <= window[p].end
      BY TimesTyped
    <3>2. Settled(b)'
      BY <1>5, <1>6, <3>1, TimesTyped
    <3>3. cursor' <= now'
      BY <1>1 DEF SyncInv, WindowsOK
    <3> QED
      BY <1>1, <3>1, <3>2, <3>3 DEF Settled
  <2>2. \A q \in Pollers : window'[q].end <= now'
    BY <1>1, <1>2, TimesTyped DEF SyncInv, WindowsOK, Nowhen
  <2>3. ASSUME NEW q \in Windowed'
        PROVE  OverlapBefore(window[q].start, now)' /\ Settled(window[q].start)'
    <3>1. q \in Windowed /\ q \in Pollers /\ window'[q] = window[q]
      BY <1>2, <1>4, <2>3 DEF Windowed
    <3>2. PICK b \in Int : b = window[q].start
      BY <3>1, TimesTyped
    <3>3. Settled(b) /\ OverlapBefore(b, started) /\ OverlapBefore(b, now)
      BY <1>5, <3>1, <3>2 DEF SyncInv, WindowsOK
    <3>4. \A i \in Ids : shop[i].modified < b => shop[i].modified < started
      BY <3>3, TimesTyped DEF OverlapBefore
    <3>5. Settled(b)'
      BY <1>6, <3>3, <3>4
    <3> QED
      BY <1>1, <3>1, <3>2, <3>3, <3>5 DEF Settled, OverlapBefore
  <2> QED
    BY <2>1, <2>2, <2>3 DEF WindowsOK
<1>8. active' \notin Pollers
  BY <1>1, NameAssumption
<1>9. ActiveOK'
  BY <1>8 DEF ActiveOK
<1>10. DownloadsOK'
  BY <1>8 DEF DownloadsOK
<1> QED
  BY <1>3, <1>7, <1>9, <1>10 DEF SyncInv

LEMMA PollerSync ==
  ASSUME AllTyped, SyncInv, BookedIsOrdered,
         NEW p \in Pollers, Poll(p) \/ RunFails(p) \/ Crash(p)
  PROVE  SyncInv'
<1>1. CASE AlreadyRunning(p)
  <2>1. /\ step[p] = "windowed" /\ End(p)
        /\ UNCHANGED <<now, shop, mirror, cursor, active, started, lookups, behind>>
    BY <1>1 DEF AlreadyRunning
  <2>2. active # p \/ active' \notin Pollers
    BY <2>1 DEF SyncInv, ActiveOK
  <2> QED
    BY <2>1, <2>2, EndSync
<1>2. CASE ApplyRefused(p) \/ RunFails(p) \/ Crash(p)
  <2>1. End(p) /\ UNCHANGED <<now, shop, mirror, cursor, lookups, behind>>
    BY <1>2 DEF ApplyRefused, RunFails, Crash
  <2>2. \/ active' = active /\ active # p /\ started' = started
        \/ active' \in {Nobody, Lost}
    BY <1>2 DEF ApplyRefused, RunFails, Crash, Release
  <2> QED
    BY <2>1, <2>2, EndSync, NameAssumption
<1> QED
  BY <1>1, <1>2, CallSync, ReadCursorSync, CreateRunSync, DownloadSync, ApplySync DEF Poll

\* What lookups leave alone, and what they keep of the answers under way.
LEMMA LookupAnswers ==
  ASSUME AllTyped, SyncInv, NEW c \in Lookups,
         Begin(c) \/ Proceed(c) \/ FalseNotFound(c) \/ LookupFails(c) \/ LookupDies(c)
  PROVE  UNCHANGED <<now, shop, polling, skipped>> /\ AnswersOK'
<1>0. /\ pc \in [Lookups -> {"idle", "asking", "answered"}]
      /\ key \in [Lookups -> Keys \cup {Nothing}]
      /\ answer \in [Lookups -> Payloads \cup {Nothing}]
      /\ asOf \in [Lookups -> Nat]
  BY DEF AllTyped, SeenOK, RestOK
<1>1. UNCHANGED <<now, shop, polling, skipped>>
  BY DEF Begin, Refresh, Claim, Proceed, Found, NotFound, FalseNotFound, Answer, ApplyRefresh,
         KeyMismatch, StillExists, ReconcileDeletedOrder, LookupFails, LookupDies, Finish, history
<1>2. \A d \in Lookups : d # c =>
        pc'[d] = pc[d] /\ key'[d] = key[d] /\ answer'[d] = answer[d] /\ asOf'[d] = asOf[d]
  <2>1. CASE Begin(c)
    BY <1>0, <2>1 DEF Begin, Refresh, Claim, Ask
  <2>2. CASE Found(c) \/ NotFound(c) \/ FalseNotFound(c)
    BY <1>0, <2>2 DEF Found, NotFound, FalseNotFound, Answer
  <2>3. CASE ~(Begin(c) \/ Found(c) \/ NotFound(c) \/ FalseNotFound(c))
    <3>1. Return(c)
      BY <2>3 DEF Proceed, ApplyRefresh, KeyMismatch, StillExists, ReconcileDeletedOrder,
                  LookupFails, LookupDies, Finish
    <3> QED
      BY <1>0, <3>1 DEF Return
  <2> QED
    BY <2>1, <2>2, <2>3
<1>3. pc'[c] = "answered" =>
        /\ asOf'[c] = now
        /\ answer'[c] # Nothing =>
             \E i \in Ids : KeyOf[i] = key'[c] /\ Exists(i) /\ answer'[c] = Payload(i)
  <2>1. CASE Begin(c)
    BY <1>0, <2>1 DEF Begin, Refresh, Claim, Ask
  <2>2. CASE Found(c)
    BY <1>0, <2>2 DEF Found, Answer
  <2>3. CASE NotFound(c) \/ FalseNotFound(c)
    BY <1>0, <2>3 DEF NotFound, FalseNotFound, Answer
  <2>4. CASE ~(Begin(c) \/ Found(c) \/ NotFound(c) \/ FalseNotFound(c))
    <3>1. Return(c)
      BY <2>4 DEF Proceed, ApplyRefresh, KeyMismatch, StillExists, ReconcileDeletedOrder,
                  LookupFails, LookupDies, Finish
    <3> QED
      BY <1>0, <3>1 DEF Return
  <2> QED
    BY <2>1, <2>2, <2>3, <2>4
<1>4. ASSUME NEW d \in Lookups, pc'[d] = "answered"
      PROVE  /\ asOf'[d] <= now
             /\ answer'[d] # Nothing => \A i \in Ids :
                  Exists(i) /\ KeyOf[i] = key'[d] =>
                    answer'[d] = Payload(i) \/ shop[i].modified >= asOf'[d]
  <2>1. CASE d = c
    <3>1. asOf'[c] = now
      BY <1>3, <1>4, <2>1
    <3>2. ASSUME answer'[c] # Nothing, NEW i \in Ids, Exists(i), KeyOf[i] = key'[c]
          PROVE  answer'[c] = Payload(i)
      <4>1. PICK j \in Ids : KeyOf[j] = key'[c] /\ Exists(j) /\ answer'[c] = Payload(j)
        BY <1>3, <1>4, <2>1, <3>2
      <4>2. j = i
        BY <3>2, <4>1 DEF SyncInv, OneOrderPerKey
      <4> QED
        BY <4>1, <4>2
    <3> QED
      BY <2>1, <3>1, <3>2, TimesTyped
  <2>2. CASE d # c
    BY <1>2, <1>4, <2>2 DEF SyncInv, AnswersOK
  <2> QED
    BY <2>1, <2>2
<1>5. AnswersOK'
  BY <1>1, <1>4 DEF AnswersOK, Exists, Payload
<1> QED
  BY <1>1, <1>5

LEMMA LookupSync ==
  ASSUME AllTyped, SyncInv, BookedIsOrdered, NEW c \in Lookups,
         Begin(c) \/ Proceed(c) \/ FalseNotFound(c) \/ LookupFails(c) \/ LookupDies(c)
  PROVE  SyncInv'
<1>1. UNCHANGED <<now, shop, polling, skipped>> /\ AnswersOK'
  BY LookupAnswers
<1>2. UNCHANGED <<cursor, active, started, step, window, limitStart, byKey, skipped>>
  BY <1>1 DEF polling
<1>3. OneOrderPerKey'
  BY <1>1 DEF SyncInv, OneOrderPerKey, Exists
<1>4. ASSUME NEW b \in Int, Settled(b), OverlapBefore(b, now)
      PROVE  Settled(b)'
  <2>1. CASE UNCHANGED <<mirror, behind>>
    BY <1>1, <1>4, <2>1, SettledSame
  <2>2. CASE ApplyRefresh(c)
    <3> DEFINE seen == [Empty EXCEPT ![key[c]] = answer[c]]
    <3>1. /\ Sight(seen) /\ pc[c] = "answered" /\ answer[c] # Nothing
          /\ behind' = (behind \ Shown(seen)) \cup Overtaken(c)
      BY <2>2 DEF ApplyRefresh
    <3>2. key[c] \in Keys /\ \A k \in Keys : seen[k] = IF k = key[c] THEN answer[c] ELSE Nothing
      BY <3>1 DEF AllTyped, SeenOK, Empty
    <3> HIDE DEF seen
    <3>3. ASSUME NEW i \in Ids \ behind', Exists(i), shop[i].modified < b
          PROVE  \/ seen[KeyOf[i]] = Payload(i)
                 \/ seen[KeyOf[i]] = Nothing /\ (~deletedAt[KeyOf[i]] => Mirrored(i))
      <4>0. KeyOf[i] \in Keys
        BY OrderAssumption
      <4>1. CASE KeyOf[i] = key[c]
        <5>1. answer[c] = Payload(i) \/ shop[i].modified >= asOf[c]
          BY <3>1, <3>3, <4>1 DEF SyncInv, AnswersOK
        <5>2. i \notin Overtaken(c)
          BY <3>1, <3>3
        <5>3. ~(shop[i].modified >= asOf[c])
          BY <1>4, <3>3, <4>1, <5>2, TimesTyped DEF OverlapBefore, Overtaken
        <5> QED
          BY <3>2, <4>0, <4>1, <5>1, <5>3
      <4>2. CASE KeyOf[i] # key[c]
        <5>1. seen[KeyOf[i]] = Nothing
          BY <3>2, <4>0, <4>2
        <5>2. i \notin behind
          BY <3>1, <3>3, <5>1 DEF Shown
        <5>3. ~deletedAt[KeyOf[i]] => Mirrored(i)
          BY <1>4, <3>3, <5>2 DEF Settled
        <5> QED
          BY <5>1, <5>3
      <4> QED
        BY <4>1, <4>2
    <3> QED
      BY <1>1, <3>1, <3>3, SightSettles
  <2>3. CASE ReconcileDeletedOrder(c)
    <3>1. /\ booked' = [booked EXCEPT ![key[c]] = ReturnedTo(key[c])]
          /\ status' = [status EXCEPT ![key[c]] = IF deletedAt[key[c]] THEN @ ELSE "CANCELLED"]
          /\ deletedAt' = [deletedAt EXCEPT ![key[c]] = TRUE]
          /\ externalId' = externalId /\ behind' = behind
      BY <2>3 DEF ReconcileDeletedOrder
    <3> SUFFICES ASSUME NEW i \in Ids \ behind', Exists(i), shop[i].modified < b,
                        ~deletedAt'[KeyOf[i]]
                 PROVE  Mirrored(i)'
      BY <1>1 DEF Settled, Exists
    <3>2. /\ booked \in [Keys -> Nat] /\ status \in [Keys -> Statuses]
          /\ deletedAt \in [Keys -> BOOLEAN] /\ KeyOf[i] \in Keys
      BY OrderAssumption DEF AllTyped, MirrorOK
    <3>3. KeyOf[i] # key[c]
      BY <3>1, <3>2
    <3>4. /\ booked'[KeyOf[i]] = booked[KeyOf[i]] /\ status'[KeyOf[i]] = status[KeyOf[i]]
          /\ deletedAt'[KeyOf[i]] = deletedAt[KeyOf[i]]
      BY <3>1, <3>2, <3>3
    <3>5. Mirrored(i)
      BY <1>4, <3>1, <3>4 DEF Settled
    <3> QED
      BY <1>1, <3>1, <3>4, <3>5 DEF Mirrored, Payload, Target
  <2>4. UNCHANGED <<mirror, behind>> \/ ApplyRefresh(c) \/ ReconcileDeletedOrder(c)
    BY DEF history, Begin, Proceed, Refresh, Claim, Found, NotFound, FalseNotFound, Answer,
           LookupFails, LookupDies, KeyMismatch, StillExists
  <2> QED
    BY <2>1, <2>2, <2>3, <2>4
<1>5. Windowed' = Windowed /\ Windowed \subseteq Pollers
  BY <1>2 DEF Windowed
<1>6. WindowsOK'
  <2>1. cursor' <= now' /\ Settled(cursor - Overlap)'
    <3>1. PICK b \in Int : b = cursor - Overlap
      BY TimesTyped
    <3>2. Settled(b) /\ cursor <= now
      BY <3>1 DEF SyncInv, WindowsOK
    <3>3. Settled(b)'
      BY <1>4, <3>1, <3>2, TimesTyped DEF OverlapBefore
    <3> QED
      BY <1>1, <1>2, <3>1, <3>2, <3>3 DEF Settled
  <2>2. \A q \in Pollers : window'[q].end <= now'
    BY <1>1, <1>2 DEF SyncInv, WindowsOK
  <2>3. ASSUME NEW q \in Windowed'
        PROVE  OverlapBefore(window[q].start, now)' /\ Settled(window[q].start)'
    <3>1. q \in Windowed
      BY <1>5
    <3>2. PICK b \in Int : b = window[q].start
      BY <1>5, <3>1, TimesTyped
    <3>3. Settled(b)' /\ OverlapBefore(b, now)
      BY <1>4, <3>1, <3>2 DEF SyncInv, WindowsOK
    <3> QED
      BY <1>1, <1>2, <3>2, <3>3 DEF Settled, OverlapBefore
  <2> QED
    BY <2>1, <2>2, <2>3 DEF WindowsOK
<1>7. ActiveOK'
  BY <1>1, <1>2, <1>5 DEF SyncInv, ActiveOK, OverlapBefore
<1>8. DownloadsOK'
  <2> SUFFICES ASSUME active' \in Pollers PROVE DownloadOK(active)'
    BY DEF DownloadsOK
  <2>1. PICK q \in Pollers : q = active /\ active' = q /\ DownloadOK(q)
    BY <1>2 DEF SyncInv, DownloadsOK
  <2>2. DownloadOK(q)'
    BY <1>1, <1>2, <2>1, DownloadKept
  <2> QED
    BY <2>1, <2>2 DEF DownloadOK
<1> QED
  BY <1>1, <1>3, <1>6, <1>7, <1>8 DEF SyncInv

LEMMA InitSync == Init => SyncInv
<1> SUFFICES ASSUME Init PROVE SyncInv
  OBVIOUS
<1>1. AllTyped
  BY InitTyped, InitRest DEF AllTyped
<1>2. PICK q : shop = [i \in Ids |->
            [state |-> IF i \in Known THEN Open ELSE "none",
             quantity |-> IF i \in Known THEN q ELSE 0,
             modified |-> 0]]
  BY DEF Init
<1>3. now = 1 /\ cursor = 0 /\ active = Nobody /\ Overlap \in Nat
  BY OrderAssumption DEF Init
<1>4. OneOrderPerKey
  <2>1. \A i \in Ids : Exists(i) => i \in Known
    BY <1>2 DEF Exists, Live, Open, Done, Fault
  <2> QED
    BY <2>1, OrderAssumption DEF OneOrderPerKey
<1>5. WindowsOK
  <2>1. Settled(cursor - Overlap)
    BY <1>3, <1>1, TimesTyped DEF Settled
  <2>2. Windowed = {} /\ \A p \in Pollers : window[p].end = 0
    BY DEF Init, Windowed, Nowhen
  <2> QED
    BY <1>3, <2>1, <2>2 DEF WindowsOK
<1>6. ActiveOK
  BY <1>3, NameAssumption DEF ActiveOK
<1>7. DownloadsOK
  BY <1>3, NameAssumption DEF Init, DownloadsOK
<1>8. AnswersOK
  BY DEF Init, AnswersOK
<1> QED
  BY <1>4, <1>5, <1>6, <1>7, <1>8 DEF SyncInv

LEMMA StepSync == AllTyped /\ BookedIsOrdered /\ SyncInv /\ [Next]_vars => SyncInv'
<1> SUFFICES ASSUME AllTyped, BookedIsOrdered, SyncInv, [Next]_vars PROVE SyncInv'
  OBVIOUS
<1>1. CASE UNCHANGED vars \/ \E k \in Keys : LeaseExpires(k)
  <2>1. UNCHANGED <<now, shop, mirror, polling, lookups, skipped, behind>>
    BY <1>1 DEF vars, LeaseExpires, history
  <2>2. UNCHANGED <<cursor, active, started, step, window, limitStart, byKey, skipped, behind>>
    BY <2>1 DEF polling
  <2>3. OneOrderPerKey' /\ AnswersOK'
    BY <2>1, NothingElse
  <2>4. Windowed' = Windowed
    BY <2>2 DEF Windowed
  <2>5. WindowsOK'
    BY <2>1, <2>2, <2>4 DEF SyncInv, WindowsOK, OverlapBefore, Settled, Mirrored, Exists,
                            Payload, Target, mirror
  <2>6. ActiveOK'
    BY <2>2, <2>1, <2>4 DEF SyncInv, ActiveOK, OverlapBefore
  <2>7. DownloadsOK'
    BY <2>1, <2>2 DEF SyncInv, DownloadsOK, DownloadOK, Exists, Payload, Listed, Rank
  <2> QED
    BY <2>3, <2>5, <2>6, <2>7 DEF SyncInv
<1> QED
  BY <1>1, ShopSync, TickSync, PollerSync, LookupSync DEF Next

\* Once the cursor is more than an overlap past an order's last change the mirror
\* shows that change, however runs overlap, fail, die, are taken over and answer
\* page by page, and however late a refresh applies what it was told.  Only an
\* order that a shrinking list moved to a page already had, or that an answer
\* older than the overlap has overwritten, may be behind (OVERLAP_MS,
\* runIncremental, downloadOrders).
THEOREM SettledHolds == Spec => []SettledBehindOverlap
<1>1. AllTyped /\ SyncInv => SettledBehindOverlap
  <2> SUFFICES ASSUME AllTyped, SyncInv, NEW i \in Ids \ behind, Exists(i),
                      shop[i].modified + Overlap < cursor, ~deletedAt[KeyOf[i]]
               PROVE  Mirrored(i)
    BY DEF SettledBehindOverlap
  <2>1. shop[i].modified < cursor - Overlap
    BY TimesTyped
  <2> QED
    BY <2>1 DEF SyncInv, WindowsOK, Settled
<1>2. MirrorOK /\ SeenOK /\ PollersOK /\ RestOK => AllTyped
  BY DEF AllTyped
<1>3. PollersOK /\ RestOK /\ [Next]_vars => (PollersOK /\ RestOK)'
  BY StepRest
<1> QED
  BY <1>1, <1>2, <1>3, MirrorTyped, NetStock, InitRest, InitSync, StepSync, PTL DEF Spec
================================================================================
