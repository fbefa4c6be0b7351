-------------------------- MODULE ProjectHoldsProofs --------------------------
(***************************************************************************)
(* What ProjectHolds keeps for every set of rows, invoices, quotes and     *)
(* clerks.                                                                 *)
(***************************************************************************)
EXTENDS ProjectHolds, HandoffSharesProofs

-----------------------------------------------------------------------------
(* The shop is told what is free.                                          *)

RowsOK ==
  /\ onHand = [w \in Rows |-> onHand[w]]
  /\ reserved = [w \in Rows |-> reserved[w]]

\* A transaction that queues every row it changes keeps the shop informed.
LEMMA QueuedKept ==
  ASSUME QueuedIsFree, NEW changed, Queue(changed),
         \A w \in Rows \ changed : onHand'[w] = onHand[w] /\ reserved'[w] = reserved[w]
  PROVE  QueuedIsFree'
BY DEF Queue, QueuedIsFree, Available, Free

LEMMA QueuedUnchanged ==
  ASSUME QueuedIsFree, UNCHANGED <<onHand, reserved, queued>>
  PROVE  QueuedIsFree'
BY DEF QueuedIsFree, Free

\* A release changes only the rows of what it releases.
LEMMA ReleaseChanges ==
  ASSUME RowsOK, NEW listed, ReleaseAll(listed), NEW w \in Rows,
         w \notin RowsOf(StillActive(listed))
  PROVE  reserved'[w] = reserved[w]
BY DEF ReleaseAll

LEMMA InitQueued == Init => RowsOK /\ QueuedIsFree
BY HoldsAssumption DEF Init, RowsOK, QueuedIsFree, Free

\* What a step may do to stock and to what is queued.
LEMMA StepQueued == RowsOK /\ QueuedIsFree /\ [Next]_vars => (RowsOK /\ QueuedIsFree)'
<1> SUFFICES ASSUME RowsOK, QueuedIsFree, [Next]_vars PROVE (RowsOK /\ QueuedIsFree)'
  OBVIOUS
<1>1. ASSUME UNCHANGED stock
      PROVE  (RowsOK /\ QueuedIsFree)'
  BY <1>1, QueuedUnchanged DEF stock, RowsOK
<1>2. CASE UNCHANGED vars
  BY <1>1, <1>2 DEF vars, stock
<1>3. ASSUME NEW w \in Rows, Sell(w)
      PROVE  (RowsOK /\ QueuedIsFree)'
  <2>1. RowsOK'
    BY <1>3 DEF Sell, RowsOK
  <2>2. \A v \in Rows \ {w} : onHand'[v] = onHand[v] /\ reserved'[v] = reserved[v]
    BY <1>3 DEF Sell, RowsOK
  <2>3. Queue({w})
    BY <1>3 DEF Sell
  <2> QED
    BY <2>1, <2>2, <2>3, QueuedKept
<1>4. ASSUME NEW listed, NEW changed, ReleaseAll(listed), UNCHANGED onHand, Queue(changed),
             RowsOf(StillActive(listed)) \subseteq changed
      PROVE  (RowsOK /\ QueuedIsFree)'
  <2>1. RowsOK'
    BY <1>4 DEF ReleaseAll, RowsOK
  <2>2. \A v \in Rows \ changed : onHand'[v] = onHand[v] /\ reserved'[v] = reserved[v]
    BY <1>4, ReleaseChanges
  <2> QED
    BY <2>1, <2>2, <1>4, QueuedKept
<1>5. ASSUME NEW h \in holds, Release(h)
      PROVE  (RowsOK /\ QueuedIsFree)'
  <2>1. RowsOf(StillActive({h})) \subseteq {h.row}
    BY DEF RowsOf, StillActive
  <2> QED
    BY <1>4, <1>5, <2>1 DEF Release
<1>6. ASSUME NEW d \in Invoices, Cancel(d)
      PROVE  (RowsOK /\ QueuedIsFree)'
  <2> DEFINE changed == RowsOf(OwnHolds(d))
                          \cup (IF receipt[d] = Nothing THEN {} ELSE {RowOf[d]})
  <2>1. ReleaseAll(OwnHolds(d)) /\ Queue(changed)
    BY <1>6 DEF Cancel
  <2>2. onHand' = [onHand EXCEPT ![RowOf[d]] =
                     IF receipt[d] = Nothing THEN @ ELSE @ - arrived[d]]
    BY <1>6 DEF Cancel
  <2>3. RowsOK'
    BY <2>1, <2>2 DEF ReleaseAll, RowsOK
  <2>4. RowsOf(StillActive(OwnHolds(d))) \subseteq changed
    BY DEF RowsOf, StillActive
  <2>5. ASSUME NEW v \in Rows \ changed
        PROVE  onHand'[v] = onHand[v] /\ reserved'[v] = reserved[v]
    <3>1. onHand'[v] = onHand[v]
      BY <2>2 DEF RowsOK
    <3>2. reserved'[v] = reserved[v]
      BY <2>1, <2>4, ReleaseChanges
    <3> QED
      BY <3>1, <3>2
  <2> HIDE DEF changed
  <2> QED
    BY <2>1, <2>3, <2>5, QueuedKept
<1>7. ASSUME NEW d \in Invoices, NEW n \in Numbers, Rename(d, n)
      PROVE  (RowsOK /\ QueuedIsFree)'
  BY <1>1, <1>7 DEF Rename
<1>8. ASSUME NEW c \in Clerks, Close(c)
      PROVE  (RowsOK /\ QueuedIsFree)'
  BY <1>4, <1>8 DEF Close
<1>9. ASSUME NEW c \in Clerks, PostInvoice(c)
      PROVE  (RowsOK /\ QueuedIsFree)'
  <2> DEFINE w == RowOf[request[c].invoice]
             changed == IF WritesRow(c) THEN {w} ELSE {}
  <2>1. Queue(changed) /\ ~InvoiceConflict(c)
    BY <1>9 DEF PostInvoice
  <2>2. /\ onHand' = [onHand EXCEPT ![w] =
                        IF AlreadyPosted(c) THEN @
                        ELSE rowSeen[c].onHand
                               + (IF AlreadyPosted(c) THEN 0 ELSE request[c].amount)]
        /\ reserved' = [reserved EXCEPT ![w] =
                          IF HoldsOf(c) = {} THEN @
                          ELSE rowSeen[c].reserved + Total(request[c].allocation)]
    BY <1>9 DEF PostInvoice
  <2>3. RowsOK'
    BY <2>2 DEF RowsOK
  <2>4. ~WritesRow(c) => AlreadyPosted(c) /\ HoldsOf(c) = {}
    BY DEF WritesRow
  <2>5. ASSUME NEW v \in Rows \ changed
        PROVE  onHand'[v] = onHand[v] /\ reserved'[v] = reserved[v]
    <3>1. CASE WritesRow(c)
      BY <3>1, <2>2 DEF RowsOK
    <3>2. CASE ~WritesRow(c)
      BY <3>2, <2>2, <2>4 DEF RowsOK
    <3> QED
      BY <3>1, <3>2
  <2> HIDE DEF changed
  <2> QED
    BY <2>1, <2>3, <2>5, QueuedKept
<1>10. ASSUME NEW c \in Clerks, Handoff(c)
       PROVE  (RowsOK /\ QueuedIsFree)'
  <2>1. PICK p \in Projects :
          reserved' = [w \in Rows |-> IF w \in PlannedRows(c)
                                      THEN reserved[w] + SumOf(OnRow(HoldsPlanned(c, p), w))
                                      ELSE reserved[w]]
    BY <1>10 DEF Handoff
  <2>2. UNCHANGED onHand /\ Queue(PlannedRows(c))
    BY <1>10 DEF Handoff
  <2>3. RowsOK'
    BY <2>1, <2>2 DEF RowsOK
  <2>4. \A v \in Rows \ PlannedRows(c) : onHand'[v] = onHand[v] /\ reserved'[v] = reserved[v]
    BY <2>1, <2>2
  <2> QED
    BY <2>2, <2>3, <2>4, QueuedKept
<1>11. ASSUME NEW c \in Clerks,
              \/ \E p \in Projects : BeginClose(c, p)
              \/ \E d \in Invoices : BeginInvoice(c, d)
              \/ \E q \in Quotes : Preview(c, q)
              \/ RefuseInvoice(c) \/ BeginHandoff(c) \/ AnswerHandoff(c)
              \/ RetryHandoff(c) \/ Fail(c)
       PROVE  (RowsOK /\ QueuedIsFree)'
  BY <1>1, <1>11 DEF BeginClose, BeginInvoice, Preview, RefuseInvoice, BeginHandoff,
                     AnswerHandoff, RetryHandoff, Fail
<1> QED
  BY <1>2, <1>3, <1>5, <1>6, <1>7, <1>8, <1>9, <1>10, <1>11 DEF Next

\* Whatever sells, receives, holds, releases and cancels at once, the newest
\* target queued for a row is what is free in it (availableToSell).
THEOREM ShopIsTold == Spec => []QueuedIsFree
<1> QED
  BY InitQueued, StepQueued, PTL DEF Spec

-----------------------------------------------------------------------------
(* Receipt keys.                                                           *)

KeysKept ==
  /\ DOMAIN receipt = Invoices /\ DOMAIN number = Invoices /\ DOMAIN invoice = Invoices
  /\ KeysFollowNumbers

LEMMA InitKeys == Init => KeysKept
  BY DEF Init, KeysKept, KeysFollowNumbers

LEMMA StepKeys == KeysKept /\ [Next]_vars => KeysKept'
<1> SUFFICES ASSUME KeysKept, [Next]_vars
             PROVE  KeysKept'
  OBVIOUS
<1>1. ASSUME UNCHANGED invoices
      PROVE  KeysKept'
  BY <1>1 DEF KeysKept, KeysFollowNumbers, invoices
<1>2. CASE UNCHANGED vars
  BY <1>1, <1>2 DEF vars
<1>3. ASSUME NEW w \in Rows, Sell(w)
      PROVE  KeysKept'
  BY <1>1, <1>3 DEF Sell
<1>4. ASSUME NEW h \in holds, Release(h)
      PROVE  KeysKept'
  BY <1>1, <1>4 DEF Release
<1>5. ASSUME NEW d \in Invoices, Cancel(d)
      PROVE  KeysKept'
  <2>1. /\ invoice' = [invoice EXCEPT ![d] = "cancelled"]
        /\ receipt' = [receipt EXCEPT ![d] = IF receipt[d] = Nothing THEN Nothing ELSE Cancelled]
        /\ number' = number
    BY <1>5 DEF Cancel, FreedKey
  <2> QED
    BY <2>1 DEF KeysKept, KeysFollowNumbers
<1>6. ASSUME NEW d \in Invoices, NEW n \in Numbers, Rename(d, n)
      PROVE  KeysKept'
  BY <1>6 DEF Rename, KeysKept, KeysFollowNumbers
<1>7. ASSUME NEW c \in Clerks, PostInvoice(c)
      PROVE  KeysKept'
  <2> DEFINE d == request[c].invoice
             n == request[c].number
             k == IF AlreadyPosted(c) THEN Nothing ELSE n
  <2>1. /\ invoice' = [invoice EXCEPT ![d] = "posted"]
        /\ number' = [number EXCEPT ![d] = n]
        /\ receipt' = [receipt EXCEPT ![d] = k]
    BY <1>7 DEF PostInvoice
  <2>2. k \in {Nothing, n}
    OBVIOUS
  <2> HIDE DEF d, n, k
  <2> QED
    BY <2>1, <2>2 DEF KeysKept, KeysFollowNumbers
<1>8. ASSUME NEW c \in Clerks, Close(c)
      PROVE  KeysKept'
  BY <1>1, <1>8 DEF Close
<1>9. ASSUME NEW c \in Clerks, Handoff(c)
      PROVE  KeysKept'
  BY <1>1, <1>9 DEF Handoff
<1>10. ASSUME NEW c \in Clerks,
              \/ \E p \in Projects : BeginClose(c, p)
              \/ \E d \in Invoices : BeginInvoice(c, d)
              \/ \E q \in Quotes : Preview(c, q)
              \/ RefuseInvoice(c) \/ BeginHandoff(c) \/ AnswerHandoff(c)
              \/ RetryHandoff(c) \/ Fail(c)
       PROVE  KeysKept'
  BY <1>1, <1>10 DEF BeginClose, BeginInvoice, Preview, RefuseInvoice, BeginHandoff,
                     AnswerHandoff, RetryHandoff, Fail
<1> QED
  BY <1>2, <1>3, <1>4, <1>5, <1>6, <1>7, <1>8, <1>9, <1>10 DEF Next

\* Recording, renaming and cancelling invoices in any order leave each receipt
\* keyed by the number its invoice has, or by none (rekeyReceipt, Cancel).
THEOREM ReceiptsKeyed == Spec => []KeysFollowNumbers
<1>1. KeysKept => KeysFollowNumbers
  BY DEF KeysKept
<1> QED
  BY <1>1, InitKeys, StepKeys, PTL DEF Spec

-----------------------------------------------------------------------------
(* One project for a quote.                                                *)

\* A hold names the project and the quote or invoice it is for.
HoldsNamed == \A h \in holds :
  /\ {"source", "project", "status"} \subseteq DOMAIN h
  /\ h.source \in Quotes \cup Invoices
  /\ h.project \in Projects

\* A clerk that hands off a quote knows it has no project, or will be told.
HandingNew == \A c \in Clerks :
  /\ pc[c] = "recording" => request[c].invoice \in Invoices
  /\ pc[c] \in {"previewed", "handing"} => quote[c] \in Quotes
  /\ pc[c] = "handing" => handoff[quote[c]] = Nothing \/ quote[c] \in moved[c]

Domains ==
  /\ DOMAIN sourceQuote = Projects /\ DOMAIN handoff = Quotes
  /\ DOMAIN pc = Clerks /\ DOMAIN quote = Clerks /\ DOMAIN request = Clerks

HandedOnce == Domains /\ HoldsNamed /\ HandingNew /\ OneProjectPerQuote

LEMMA InitHanded == Init => HandedOnce
  BY HoldsAssumption
  DEF Init, HandedOnce, Domains, HoldsNamed, HandingNew, OneProjectPerQuote

\* What a release leaves of a hold.
LEMMA ReleaseKeepsHolds ==
  ASSUME HoldsNamed, NEW listed, ReleaseAll(listed), NEW h \in holds'
  PROVE  /\ {"source", "project", "status"} \subseteq DOMAIN h
         /\ \E g \in holds : h.source = g.source /\ h.project = g.project
<1>1. holds' = (holds \ StillActive(listed)) \cup {Released(g) : g \in StillActive(listed)}
  BY DEF ReleaseAll
<1>2. StillActive(listed) \subseteq holds
  BY DEF StillActive, Active
<1>3. CASE h \in holds
  BY <1>3 DEF HoldsNamed
<1>4. ASSUME NEW g \in StillActive(listed), h = Released(g)
      PROVE  /\ {"source", "project", "status"} \subseteq DOMAIN h
             /\ h.source = g.source /\ h.project = g.project
  <2>1. {"source", "project", "status"} \subseteq DOMAIN g
    BY <1>2 DEF HoldsNamed
  <2> QED
    BY <1>4, <2>1 DEF Released
<1> QED
  BY <1>1, <1>2, <1>3, <1>4

\* A release leaves what is said of holds true.
LEMMA ReleaseKeepsQuotes ==
  ASSUME HoldsNamed, OneProjectPerQuote, NEW listed, ReleaseAll(listed),
         UNCHANGED <<sourceQuote, handoff>>
  PROVE  HoldsNamed' /\ OneProjectPerQuote'
  BY ReleaseKeepsHolds DEF HoldsNamed, OneProjectPerQuote

\* A clerk that ends its request, one that starts or goes on with it, or none:
\* what the others know is still true when no handoff commits.
LEMMA HandingKept ==
  ASSUME Domains, HandingNew, NEW changed, Commit(changed), UNCHANGED <<sourceQuote, handoff>>,
         DOMAIN pc' = Clerks, DOMAIN quote' = Clerks, DOMAIN request' = Clerks,
         NEW c,
         \A d \in Clerks \ {c} :
           pc'[d] = pc[d] /\ quote'[d] = quote[d] /\ request'[d] = request[d],
         c \in Clerks =>
           /\ pc'[c] = "recording" => request'[c].invoice \in Invoices
           /\ pc'[c] \in {"previewed", "handing"} => quote'[c] \in Quotes
           /\ pc'[c] = "handing" => handoff[quote'[c]] = Nothing
  PROVE  Domains' /\ HandingNew'
<1>1. Domains'
  BY DEF Domains
<1>2. ASSUME NEW d \in Clerks, d # c
      PROVE  /\ pc'[d] = "recording" => request'[d].invoice \in Invoices
             /\ pc'[d] \in {"previewed", "handing"} => quote'[d] \in Quotes
             /\ pc'[d] = "handing" => handoff'[quote'[d]] = Nothing \/ quote'[d] \in moved'[d]
  BY <1>2 DEF HandingNew, Commit
<1>3. ASSUME c \in Clerks
      PROVE  /\ pc'[c] = "recording" => request'[c].invoice \in Invoices
             /\ pc'[c] \in {"previewed", "handing"} => quote'[c] \in Quotes
             /\ pc'[c] = "handing" => handoff'[quote'[c]] = Nothing
  BY <1>3
<1> QED
  BY <1>1, <1>2, <1>3 DEF HandingNew

\* End leaves the clerk idle.
LEMMA EndIdle ==
  ASSUME Domains, NEW c \in Clerks, End(c)
  PROVE  /\ DOMAIN pc' = Clerks /\ DOMAIN quote' = Clerks /\ DOMAIN request' = Clerks
         /\ \A d \in Clerks \ {c} :
              pc'[d] = pc[d] /\ quote'[d] = quote[d] /\ request'[d] = request[d]
         /\ pc'[c] = "idle"
  BY DEF Domains, End, Goto

LEMMA StepHanded == HandedOnce /\ [Next]_vars => HandedOnce'
<1> SUFFICES ASSUME HandedOnce, [Next]_vars
             PROVE  HandedOnce'
  OBVIOUS
<1> USE DEF HandedOnce
<1>1. CASE UNCHANGED vars
  BY <1>1 DEF vars, stock, projects, clerks, recording, handing,
              HandedOnce, Domains, HoldsNamed, HandingNew, OneProjectPerQuote
<1>2. ASSUME UNCHANGED <<holds, sourceQuote, handoff>>
      PROVE  HoldsNamed' /\ OneProjectPerQuote'
  BY <1>2 DEF HoldsNamed, OneProjectPerQuote
<1>3. ASSUME UNCHANGED <<sourceQuote, handoff, clerks>>, NEW changed, Commit(changed)
      PROVE  Domains' /\ HandingNew'
  <2>1. UNCHANGED <<pc, quote, request>>
    BY <1>3 DEF clerks, recording, handing
  <2> QED
    BY <1>3, <2>1 DEF Domains, HandingNew, Commit
<1>4. ASSUME NEW c \in Clerks, End(c), UNCHANGED <<sourceQuote, handoff>>,
             NEW changed, Commit(changed)
      PROVE  Domains' /\ HandingNew'
  BY <1>4, EndIdle, HandingKept
<1>5. ASSUME NEW w \in Rows, Sell(w)
      PROVE  HandedOnce'
  BY <1>2, <1>3, <1>5 DEF Sell, projects
<1>6. ASSUME NEW h \in holds, Release(h)
      PROVE  HandedOnce'
  <2>1. ReleaseAll({h}) /\ UNCHANGED projects /\ UNCHANGED clerks /\ Commit({h.row})
    BY <1>6 DEF Release
  <2> QED
    BY <1>3, <2>1, ReleaseKeepsQuotes DEF projects
<1>7. ASSUME NEW d \in Invoices, Cancel(d)
      PROVE  HandedOnce'
  <2> DEFINE changed == RowsOf(OwnHolds(d)) \cup (IF receipt[d] = Nothing THEN {} ELSE {RowOf[d]})
  <2>1. ReleaseAll(OwnHolds(d)) /\ UNCHANGED projects /\ UNCHANGED clerks /\ Commit(changed)
    BY <1>7 DEF Cancel
  <2> HIDE DEF changed
  <2> QED
    BY <1>3, <2>1, ReleaseKeepsQuotes DEF projects
<1>8. ASSUME NEW d \in Invoices, NEW n \in Numbers, Rename(d, n)
      PROVE  HandedOnce'
  BY <1>2, <1>3, <1>8 DEF Rename, stock, projects
<1>9. ASSUME NEW c \in Clerks, Close(c)
      PROVE  HandedOnce'
  <2> DEFINE changed == RowsOf(StillActive(holdsSeen[c]))
  <2>1. ReleaseAll(holdsSeen[c]) /\ UNCHANGED <<sourceQuote, handoff>> /\ End(c) /\ Commit(changed)
    BY <1>9 DEF Close
  <2> HIDE DEF changed
  <2> QED
    BY <1>4, <2>1, ReleaseKeepsQuotes
<1>10. ASSUME NEW c \in Clerks, RefuseInvoice(c) \/ AnswerHandoff(c) \/ Fail(c)
       PROVE  HandedOnce'
  BY <1>2, <1>4, <1>10 DEF RefuseInvoice, AnswerHandoff, Fail, stock, projects
<1>11. ASSUME NEW c \in Clerks, NEW p \in Projects, BeginClose(c, p)
       PROVE  HandedOnce'
  <2>1. /\ pc' = [pc EXCEPT ![c] = "closing"] /\ UNCHANGED <<stock, projects, recording, handing>>
        /\ Commit({})
    BY <1>11 DEF BeginClose, Goto
  <2> QED
    BY <1>2, <2>1, HandingKept DEF stock, projects, recording, handing, Domains
<1>12. ASSUME NEW c \in Clerks, NEW d \in Invoices, BeginInvoice(c, d)
       PROVE  HandedOnce'
  <2>1. /\ pc' = [pc EXCEPT ![c] = "recording"] /\ UNCHANGED <<stock, projects, handing>>
        /\ Commit({})
    BY <1>12 DEF BeginInvoice, Goto
  <2>2. /\ DOMAIN request' = Clerks
        /\ \A e \in Clerks \ {c} : request'[e] = request[e]
        /\ request'[c].invoice \in Invoices
    BY <1>12 DEF BeginInvoice, Domains
  <2> QED
    BY <1>2, <2>1, <2>2, HandingKept DEF stock, projects, handing, Domains
<1>13. ASSUME NEW c \in Clerks, NEW q \in Quotes, Preview(c, q)
       PROVE  HandedOnce'
  <2>1. /\ pc' = [pc EXCEPT ![c] = "previewed"] /\ quote' = [quote EXCEPT ![c] = q]
        /\ UNCHANGED <<stock, projects, recording>> /\ Commit({})
    BY <1>13 DEF Preview, Goto
  <2> QED
    BY <1>2, <2>1, HandingKept DEF stock, projects, recording, Domains
<1>14. ASSUME NEW c \in Clerks, BeginHandoff(c)
       PROVE  HandedOnce'
  <2>1. /\ pc[c] = "previewed" /\ pc' = [pc EXCEPT ![c] = "handing"] /\ handoff[quote[c]] = Nothing
        /\ UNCHANGED <<stock, projects, recording, handing>> /\ Commit({})
    BY <1>14 DEF BeginHandoff, Goto
  <2>2. quote[c] \in Quotes
    BY <2>1 DEF HandingNew
  <2> QED
    BY <1>2, <2>1, <2>2, HandingKept DEF stock, projects, recording, handing, Domains
<1>15. ASSUME NEW c \in Clerks, RetryHandoff(c)
       PROVE  HandedOnce'
  <2>1. /\ pc[c] = "handing" /\ pc' = [pc EXCEPT ![c] = "previewed"]
        /\ UNCHANGED <<stock, projects, recording, handing>> /\ Commit({})
    BY <1>15 DEF RetryHandoff, Goto
  <2>2. quote[c] \in Quotes
    BY <2>1 DEF HandingNew
  <2> QED
    BY <1>2, <2>1, <2>2, HandingKept DEF stock, projects, recording, handing, Domains
<1>16. ASSUME NEW c \in Clerks, PostInvoice(c)
       PROVE  HandedOnce'
  <2> DEFINE changed == IF WritesRow(c) THEN {RowOf[request[c].invoice]} ELSE {}
  <2>1. /\ pc[c] = "recording" /\ holds' = holds \cup HoldsOf(c)
        /\ UNCHANGED projects /\ End(c) /\ Commit(changed)
    BY <1>16 DEF PostInvoice
  <2> HIDE DEF changed
  <2>2. request[c].invoice \in Invoices
    BY <2>1 DEF HandingNew
  <2>3. \A h \in HoldsOf(c) :
           /\ {"source", "project", "status"} \subseteq DOMAIN h
           /\ h.source \in Invoices /\ h.project \in Projects
    BY <2>2 DEF HoldsOf, Hold
  <2>4. HoldsNamed' /\ OneProjectPerQuote'
    BY <2>1, <2>3, HoldsAssumption DEF projects, HoldsNamed, OneProjectPerQuote
  <2> QED
    BY <1>4, <2>1, <2>4 DEF projects
<1>17. ASSUME NEW c \in Clerks, Handoff(c)
       PROVE  HandedOnce'
  <2>1. /\ pc[c] = "handing" /\ ~HandoffConflict(c)
        /\ End(c) /\ Commit(PlannedRows(c) \cup {quote[c]})
    BY <1>17 DEF Handoff
  <2>2. PICK p \in Projects :
          /\ sourceQuote' = [sourceQuote EXCEPT ![p] = quote[c]]
          /\ handoff' = [handoff EXCEPT ![quote[c]] = p]
          /\ holds' = holds \cup HoldsPlanned(c, p)
    BY <1>17 DEF Handoff
  <2>3. quote[c] \in Quotes /\ handoff[quote[c]] = Nothing
    BY <2>1 DEF HandingNew, HandoffConflict
  <2>4. \A h \in HoldsPlanned(c, p) :
           /\ {"source", "project", "status"} \subseteq DOMAIN h
           /\ h.source = quote[c] /\ h.project = p
    BY DEF HoldsPlanned, Hold
  <2>5. HoldsNamed'
    BY <2>2, <2>3, <2>4 DEF HoldsNamed
  <2>6. ASSUME NEW r \in Projects, sourceQuote'[r] # Nothing
        PROVE  handoff'[sourceQuote'[r]] = r
    BY <2>2, <2>3, <2>6, HoldsAssumption DEF Domains, OneProjectPerQuote
  <2>7. ASSUME NEW h \in holds', h.source \in Quotes
        PROVE  h.project = handoff'[h.source]
    BY <2>2, <2>3, <2>4, <2>7, HoldsAssumption DEF Domains, HoldsNamed, OneProjectPerQuote
  <2>8. ASSUME NEW d \in Clerks
        PROVE  /\ pc'[d] = "recording" => request'[d].invoice \in Invoices
               /\ pc'[d] \in {"previewed", "handing"} => quote'[d] \in Quotes
               /\ pc'[d] = "handing" => handoff'[quote'[d]] = Nothing \/ quote'[d] \in moved'[d]
    <3>1. CASE d = c
      BY <2>1, <3>1, EndIdle
    <3>2. CASE d # c
      <4>1. pc'[d] = pc[d] /\ quote'[d] = quote[d] /\ request'[d] = request[d]
        BY <2>1, <3>2, EndIdle
      <4>2. pc'[d] = "handing" => moved'[d] = moved[d] \cup PlannedRows(c) \cup {quote[c]}
        BY <2>1 DEF Commit
      <4> QED
        BY <2>2, <4>1, <4>2 DEF HandingNew, Domains
    <3> QED
      BY <3>1, <3>2
  <2>9. Domains'
    BY <2>1, <2>2, EndIdle DEF Domains
  <2> QED
    BY <2>5, <2>6, <2>7, <2>8, <2>9 DEF HandingNew, OneProjectPerQuote
<1> QED
  BY <1>1, <1>5, <1>6, <1>7, <1>8, <1>9, <1>10, <1>11, <1>12, <1>13, <1>14, <1>15, <1>16, <1>17
  DEF Next

\* However many clerks preview, hand off and hand off again, a quote becomes one
\* project and what is held for it is held for that project
\* (QuoteProjectHandoff.quoteId).
THEOREM QuoteHandedOnce == Spec => []OneProjectPerQuote
<1>1. HandedOnce => OneProjectPerQuote
  BY DEF HandedOnce
<1> QED
  BY <1>1, InitHanded, StepHanded, PTL DEF Spec

-----------------------------------------------------------------------------
(* What is held, summed.                                                   *)

LEMMA SumOfNat ==
  ASSUME NEW some \in SUBSET HoldType, IsFiniteSet(some)
  PROVE  SumOf(some) \in Nat
<1>1. \A h \in some : [g \in some |-> g.quantity][h] \in Nat
  BY DEF HoldType
<1> QED
  BY <1>1, SumNat DEF SumOf

LEMMA SumOfNone == SumOf({}) = 0
BY SumEmpty DEF SumOf

LEMMA SumOfBoth ==
  ASSUME NEW some \in SUBSET HoldType, IsFiniteSet(some),
         NEW others \in SUBSET HoldType, IsFiniteSet(others), some \cap others = {}
  PROVE  SumOf(some \cup others) = SumOf(some) + SumOf(others)
<1> DEFINE f == [h \in some \cup others |-> h.quantity]
           a == [h \in some |-> h.quantity]
           b == [h \in others |-> h.quantity]
<1>1. \A h \in some \cup others : f[h] \in Int
  BY DEF HoldType
<1>2. \A h \in some : f[h] = a[h]
  OBVIOUS
<1>3. \A h \in others : f[h] = b[h]
  OBVIOUS
<1>4. /\ SumOf(some \cup others) = SumFunctionOnSet(f, some \cup others)
      /\ SumOf(some) = SumFunctionOnSet(a, some) /\ SumOf(others) = SumFunctionOnSet(b, others)
  BY DEF SumOf
<1> HIDE DEF f, a, b
<1>5. SumFunctionOnSet(f, some \cup others)
        = SumFunctionOnSet(f, some) + SumFunctionOnSet(f, others)
  BY <1>1, SumDisjoint
<1>6. SumFunctionOnSet(f, some) = SumFunctionOnSet(a, some)
  BY <1>2, SumSame
<1>7. SumFunctionOnSet(f, others) = SumFunctionOnSet(b, others)
  BY <1>3, SumSame
<1> QED
  BY <1>4, <1>5, <1>6, <1>7

-----------------------------------------------------------------------------
(* Types.                                                                  *)

StockTyped ==
  /\ onHand \in [Rows -> Int] /\ reserved \in [Rows -> Nat] /\ queued \in [Rows -> Int]
  /\ sold \in [Rows -> 0..MaxSold]
  /\ holds \subseteq HoldType

ProjectsTyped ==
  /\ project \in [Projects -> {"none", "open", "closed"}]
  /\ sourceQuote \in [Projects -> Quotes \cup {Nothing}]
  /\ handoff \in [Quotes -> Projects \cup {Nothing}]

InvoicesTyped ==
  /\ invoice \in [Invoices -> {"none", "posted", "cancelled"}]
  /\ number \in [Invoices -> Numbers \cup {Nothing}]
  /\ receipt \in [Invoices -> Numbers \cup {Cancelled, Nothing}]
  /\ arrived \in [Invoices -> Nat]

RequestsTyped ==
  /\ pc \in [Clerks -> {"idle", "recording", "closing", "previewed", "handing"}]
  /\ request \in [Clerks -> RequestType]
  /\ keysSeen \in [Clerks -> SUBSET Numbers]
  /\ rowSeen \in [Clerks -> [onHand : Int, reserved : Int]]
  /\ closing \in [Clerks -> Projects \cup {Nothing}]
  /\ holdsSeen \in [Clerks -> SUBSET HoldType]
  /\ quote \in [Clerks -> Quotes \cup {Nothing}]

MovedTyped == moved \in [Clerks -> SUBSET (Rows \cup Quotes)]

LEMMA TypeParts ==
  TypeOK <=> StockTyped /\ ProjectsTyped /\ InvoicesTyped /\ RequestsTyped /\ MovedTyped
BY DEF TypeOK, StockTyped, ProjectsTyped, InvoicesTyped, RequestsTyped, MovedTyped

\* What a clerk has in hand in each state of its request.
InHand(c) ==
  /\ pc[c] = "recording" =>
       request[c].invoice \in Invoices /\ request[c].number \in Numbers
         /\ rowSeen[c].reserved \in Nat
  /\ pc[c] = "closing" => closing[c] \in Projects
  /\ pc[c] \in {"previewed", "handing"} =>
       quote[c] \in Quotes
         /\ plan[c] \in [DOMAIN Needed[quote[c]] -> [DOMAIN Order -> Nat]]

Typed ==
  /\ TypeOK
  /\ IsFiniteSet(holds)
  /\ DOMAIN plan = Clerks
  /\ \A c \in Clerks : InHand(c)

LEMMA InitTyped == Init => Typed
<1> SUFFICES ASSUME Init PROVE Typed
  OBVIOUS
<1> USE HoldsAssumption DEF Init
<1>1. StockTyped
  <2>1. \A w \in Rows : InitialStock[w] \in Int
    OBVIOUS
  <2>2. InitialStock \in [Rows -> Int]
    BY <2>1
  <2>3. 0 \in 0..MaxSold
    OBVIOUS
  <2> QED
    BY <2>2, <2>3 DEF StockTyped
<1>2. ProjectsTyped /\ InvoicesTyped /\ MovedTyped
  BY DEF ProjectsTyped, InvoicesTyped, MovedTyped
<1>3. RequestsTyped
  <2>1. NoRequest \in RequestType /\ NoRow \in [onHand : Int, reserved : Int]
    BY DEF NoRequest, NoRow, RequestType
  <2> QED
    BY <2>1 DEF RequestsTyped
<1>4. \A c \in Clerks : InHand(c)
  BY DEF InHand
<1>5. IsFiniteSet(holds) /\ DOMAIN plan = Clerks
  BY FS_EmptySet
<1> QED
  BY <1>1, <1>2, <1>3, <1>4, <1>5, TypeParts DEF Typed

LEMMA CommitTyped ==
  ASSUME Typed, NEW changed, Commit(changed), changed \subseteq Rows \cup Quotes
  PROVE  MovedTyped'
BY TypeParts DEF Typed, MovedTyped, Commit

LEMMA QueueTyped ==
  ASSUME Typed, NEW changed, Queue(changed),
         onHand' \in [Rows -> Int], reserved' \in [Rows -> Nat]
  PROVE  queued' \in [Rows -> Int]
<1>1. \A w \in Rows : onHand'[w] \in Int /\ reserved'[w] \in Int /\ queued[w] \in Int
  BY TypeParts DEF Typed, StockTyped
<1> QED
  BY <1>1 DEF Queue, Available

\* A clerk that ends its request has nothing in hand.
LEMMA EndTyped ==
  ASSUME Typed, NEW c \in Clerks, End(c)
  PROVE  RequestsTyped' /\ DOMAIN plan' = Clerks /\ \A d \in Clerks : InHand(d)'
<1>1. NoRequest \in RequestType /\ NoRow \in [onHand : Int, reserved : Int]
  BY DEF NoRequest, NoRow, RequestType
<1>2. RequestsTyped'
  BY <1>1, TypeParts DEF Typed, RequestsTyped, End, Goto
<1>3. ASSUME NEW d \in Clerks PROVE InHand(d)'
  BY TypeParts DEF Typed, RequestsTyped, InHand, End, Goto
<1> QED
  BY <1>2, <1>3 DEF Typed, End

\* One that goes on with it has what the new state asks for.
LEMMA ClerkTyped ==
  ASSUME Typed, NEW c \in Clerks, RequestsTyped', DOMAIN plan' = Clerks,
         \A d \in Clerks \ {c} :
           /\ pc'[d] = pc[d] /\ request'[d] = request[d] /\ rowSeen'[d] = rowSeen[d]
           /\ closing'[d] = closing[d] /\ quote'[d] = quote[d] /\ plan'[d] = plan[d],
         InHand(c)'
  PROVE  \A d \in Clerks : InHand(d)'
<1>1. ASSUME NEW d \in Clerks, d # c PROVE InHand(d)'
  BY <1>1 DEF Typed, InHand
<1> QED
  BY <1>1

LEMMA ReleaseTyped ==
  ASSUME Typed, NEW listed, ReleaseAll(listed)
  PROVE  reserved' \in [Rows -> Nat] /\ holds' \subseteq HoldType /\ IsFiniteSet(holds')
<1> DEFINE ending == StillActive(listed)
<1>1. ending \subseteq holds /\ holds \subseteq HoldType /\ IsFiniteSet(holds)
  BY TypeParts DEF Typed, StockTyped, StillActive, Active
<1>2. IsFiniteSet(ending)
  BY <1>1, FS_Subset
<1>3. ASSUME NEW w \in Rows
      PROVE  SumOf(OnRow(ending, w)) \in Nat
  <2>1. OnRow(ending, w) \subseteq ending
    BY DEF OnRow
  <2>2. IsFiniteSet(OnRow(ending, w)) /\ OnRow(ending, w) \in SUBSET HoldType
    BY <1>1, <1>2, <2>1, FS_Subset
  <2> QED
    BY <2>2, SumOfNat
<1>4. reserved' \in [Rows -> Nat]
  <2>1. reserved \in [Rows -> Nat]
    BY TypeParts DEF Typed, StockTyped
  <2>2. /\ \A w \in RowsOf(ending) : reserved[w] >= SumOf(OnRow(ending, w))
        /\ reserved' = [w \in Rows |-> IF w \in RowsOf(ending)
                                      THEN reserved[w] - SumOf(OnRow(ending, w))
                                      ELSE reserved[w]]
    BY DEF ReleaseAll
  <2> HIDE DEF ending
  <2>3. \A w \in Rows : reserved'[w] \in Nat
    BY <1>3, <2>1, <2>2
  <2> QED
    BY <2>2, <2>3
<1>5. holds' = (holds \ ending) \cup {Released(h) : h \in ending}
  BY DEF ReleaseAll
<1>6. \A h \in HoldType : Released(h) \in HoldType
  BY DEF HoldType, Released
<1>7. IsFiniteSet({Released(h) : h \in ending})
  <2> DEFINE image == {Released(h) : h \in ending}
             f == [h \in ending |-> Released(h)]
  <2>1. f \in Surjection(ending, image)
    BY DEF Surjection
  <2> HIDE DEF f, image, ending
  <2>2. IsFiniteSet(image)
    BY <1>2, <2>1, FS_Surjection
  <2> QED
    BY <2>2 DEF image
<1>8. IsFiniteSet(holds \ ending)
  BY <1>1, FS_Subset
<1> HIDE DEF ending
<1>9. holds' \subseteq HoldType
  BY <1>1, <1>5, <1>6
<1>10. IsFiniteSet(holds')
  BY <1>5, <1>7, <1>8, FS_Union
<1> QED
  BY <1>4, <1>9, <1>10

\* A plan gives every line its share of every row.
LEMMA PlanTyped ==
  ASSUME Typed, NEW q \in Quotes
  PROVE  PlanNow(q) \in [DOMAIN Needed[q] -> [DOMAIN Order -> Nat]]
<1> DEFINE free == [k \in DOMAIN Order |-> Free(Order[k])]
<1>1. Needed[q] \in Seq(Nat) /\ Order \in Seq(Rows)
  BY HoldsAssumption
<1>2. \A k \in DOMAIN Order : free[k] \in Int
  <2>1. \A w \in Rows : Free(w) \in Int
    BY TypeParts DEF Typed, StockTyped, Free
  <2> QED
    BY <1>1, <2>1
<1>3. ASSUME NEW i \in DOMAIN Needed[q], NEW k \in DOMAIN Order
      PROVE  Share(Needed[q], free, i, k) \in Nat
  <2>1. i \in Nat \ {0} /\ 1..i \subseteq DOMAIN Needed[q]
    BY <1>1
  <2>2. k \in Nat \ {0} /\ 1..k \subseteq DOMAIN Order
    BY <1>1
  <2>3. Numbers1(Needed[q], i)
    BY <1>1, <2>1 DEF Numbers1
  <2>4. Numbers1(free, k)
    BY <1>2, <2>2 DEF Numbers1
  <2> HIDE DEF free
  <2> QED
    BY <2>1, <2>2, <2>3, <2>4, ShareType
<1>4. PlanNow(q) = [i \in DOMAIN Needed[q] |->
                      [k \in DOMAIN Order |-> Share(Needed[q], free, i, k)]]
  BY DEF PlanNow, Shares
<1> HIDE DEF free
<1> QED
  BY <1>3, <1>4

\* A hold an invoice or a handoff places is a hold.
LEMMA HoldTyped ==
  ASSUME NEW source \in Invoices \cup Quotes, NEW item \in Nat, NEW p \in Projects,
         NEW w \in Rows, NEW quantity \in Nat
  PROVE  Hold(source, item, p, w, quantity) \in HoldType
BY DEF Hold, HoldType

LEMMA HoldsOfTyped ==
  ASSUME Typed, NEW c \in Clerks, pc[c] = "recording"
  PROVE  HoldsOf(c) \subseteq HoldType /\ IsFiniteSet(HoldsOf(c))
<1> DEFINE r == request[c]
           some == {q \in Projects : r.allocation[q] > 0}
           f == [p \in some |-> Hold(r.invoice, 1, p, RowOf[r.invoice], r.allocation[p])]
<1>1. r.invoice \in Invoices /\ r.allocation \in [Projects -> Nat] /\ RowOf[r.invoice] \in Rows
  BY TypeParts, HoldsAssumption DEF Typed, InHand, RequestsTyped, RequestType
<1>2. HoldsOf(c) \subseteq HoldType
  BY <1>1, HoldTyped DEF HoldsOf
<1>3. IsFiniteSet(some)
  BY HoldsAssumption, FS_Subset
<1>4. f \in Surjection(some, HoldsOf(c))
  BY DEF HoldsOf, Surjection
<1> HIDE DEF f, some
<1> QED
  BY <1>2, <1>3, <1>4, FS_Surjection

LEMMA HoldsPlannedTyped ==
  ASSUME Typed, NEW c \in Clerks, pc[c] \in {"previewed", "handing"}, NEW p \in Projects
  PROVE  /\ HoldsPlanned(c, p) \subseteq HoldType /\ IsFiniteSet(HoldsPlanned(c, p))
         /\ PlannedRows(c) \subseteq Rows
<1> DEFINE f == [ik \in Planned(c) |->
                   Hold(quote[c], ik[1], p, Order[ik[2]], plan[c][ik[1]][ik[2]])]
<1>1. /\ quote[c] \in Quotes /\ Needed[quote[c]] \in Seq(Nat) /\ Order \in Seq(Rows)
      /\ plan[c] \in [DOMAIN Needed[quote[c]] -> [DOMAIN Order -> Nat]]
  BY HoldsAssumption DEF Typed, InHand
<1>2. \A ik \in Planned(c) :
        /\ ik[1] \in Nat /\ Order[ik[2]] \in Rows
        /\ plan[c][ik[1]][ik[2]] \in Nat
  BY <1>1 DEF Planned
<1>3. HoldsPlanned(c, p) \subseteq HoldType
  <2>1. ASSUME NEW ik \in Planned(c)
        PROVE  Hold(quote[c], ik[1], p, Order[ik[2]], plan[c][ik[1]][ik[2]]) \in HoldType
    BY <1>1, <1>2, HoldTyped
  <2> QED
    BY <2>1 DEF HoldsPlanned
<1>4. IsFiniteSet(Planned(c))
  <2>1. IsFiniteSet(DOMAIN plan[c]) /\ IsFiniteSet(DOMAIN Order)
    <3>1. DOMAIN plan[c] = 1..Len(Needed[quote[c]]) /\ DOMAIN Order = 1..Len(Order)
      BY <1>1
    <3>2. Len(Needed[quote[c]]) \in Nat /\ Len(Order) \in Nat
      BY <1>1
    <3> QED
      BY <3>1, <3>2, FS_Interval
  <2>2. IsFiniteSet((DOMAIN plan[c]) \X (DOMAIN Order))
    BY <2>1, FS_Product
  <2> QED
    BY <2>2, FS_Subset DEF Planned
<1>5. f \in Surjection(Planned(c), HoldsPlanned(c, p))
  BY DEF HoldsPlanned, Surjection
<1>6. PlannedRows(c) \subseteq Rows
  BY <1>2 DEF PlannedRows
<1> HIDE DEF f
<1> QED
  BY <1>3, <1>4, <1>5, <1>6, FS_Surjection

LEMMA StepTyped == Typed /\ [Next]_vars => Typed'
<1> SUFFICES ASSUME Typed, [Next]_vars PROVE Typed'
  OBVIOUS
<1>1. StockTyped /\ ProjectsTyped /\ InvoicesTyped /\ RequestsTyped /\ MovedTyped
  BY TypeParts DEF Typed
<1>2. ASSUME StockTyped', ProjectsTyped', InvoicesTyped', RequestsTyped', MovedTyped',
             IsFiniteSet(holds'), DOMAIN plan' = Clerks, \A c \in Clerks : InHand(c)'
      PROVE  Typed'
  BY <1>2
  DEF Typed, TypeOK, StockTyped, ProjectsTyped, InvoicesTyped, RequestsTyped, MovedTyped
<1>4. ASSUME UNCHANGED clerks
      PROVE  RequestsTyped' /\ DOMAIN plan' = Clerks /\ \A c \in Clerks : InHand(c)'
  BY <1>1, <1>4 DEF clerks, recording, handing, Typed, InHand, RequestsTyped
<1>5. ASSUME UNCHANGED stock
      PROVE  StockTyped' /\ IsFiniteSet(holds')
  BY <1>1, <1>5 DEF stock, Typed, StockTyped
<1>6. ASSUME UNCHANGED projects
      PROVE  ProjectsTyped'
  BY <1>1, <1>6 DEF projects, ProjectsTyped
<1>7. ASSUME UNCHANGED invoices
      PROVE  InvoicesTyped'
  BY <1>1, <1>7 DEF invoices, InvoicesTyped
<1>7a. CASE UNCHANGED vars
  <2>1. UNCHANGED <<stock, projects, invoices, clerks, moved>>
    BY <1>7a DEF vars
  <2>2. MovedTyped'
    BY <1>1, <2>1 DEF MovedTyped
  <2> QED
    BY <1>2, <1>4, <1>5, <1>6, <1>7, <2>1, <2>2
<1>8. ASSUME NEW changed, Commit(changed), changed \subseteq Rows \cup Quotes
      PROVE  MovedTyped'
  BY <1>8, CommitTyped
<1>9. ASSUME NEW listed, NEW changed, ReleaseAll(listed), Queue(changed), UNCHANGED sold,
             onHand' \in [Rows -> Int]
      PROVE  StockTyped' /\ IsFiniteSet(holds')
  BY <1>1, <1>9, ReleaseTyped, QueueTyped DEF StockTyped
<1>10. ASSUME NEW w \in Rows, Sell(w)
       PROVE  Typed'
  <2>1. Queue({w}) /\ Commit({w}) /\ UNCHANGED <<reserved, holds, projects, invoices, clerks>>
    BY <1>10 DEF Sell
  <2>2. onHand' \in [Rows -> Int] /\ sold' \in [Rows -> 0..MaxSold]
    BY <1>1, <1>10, HoldsAssumption DEF Sell, StockTyped
  <2>3. StockTyped'
    BY <1>1, <2>1, <2>2, QueueTyped DEF StockTyped
  <2>4. IsFiniteSet(holds')
    BY <2>1 DEF Typed
  <2> QED
    BY <1>2, <1>4, <1>6, <1>7, <1>8, <2>1, <2>3, <2>4
<1>11. ASSUME NEW h \in holds, Release(h)
       PROVE  Typed'
  <2>1. /\ ReleaseAll({h}) /\ Queue({h.row}) /\ Commit({h.row})
        /\ UNCHANGED <<onHand, sold, projects, invoices, clerks>>
    BY <1>11 DEF Release
  <2>2. h.row \in Rows
    BY <1>1 DEF StockTyped, HoldType
  <2> QED
    BY <1>1, <1>2, <1>4, <1>6, <1>7, <1>8, <1>9, <2>1, <2>2 DEF StockTyped
<1>12. ASSUME NEW d \in Invoices, Cancel(d)
       PROVE  Typed'
  <2> DEFINE changed == RowsOf(OwnHolds(d))
                          \cup (IF receipt[d] = Nothing THEN {} ELSE {RowOf[d]})
  <2>1. /\ ReleaseAll(OwnHolds(d)) /\ Queue(changed) /\ Commit(changed)
        /\ UNCHANGED <<sold, projects, clerks>>
    BY <1>12 DEF Cancel
  <2>2. InvoicesTyped'
    BY <1>1, <1>12 DEF Cancel, InvoicesTyped, FreedKey
  <2>3. onHand' \in [Rows -> Int]
    <3>1. onHand' = [onHand EXCEPT ![RowOf[d]] =
                      IF receipt[d] = Nothing THEN @ ELSE @ - arrived[d]]
      BY <1>12 DEF Cancel
    <3>2. arrived[d] \in Int /\ RowOf[d] \in Rows
      BY <1>1, HoldsAssumption DEF InvoicesTyped
    <3>3. onHand \in [Rows -> Int] /\ onHand[RowOf[d]] \in Int
      BY <1>1, <3>2 DEF StockTyped
    <3>4. onHand[RowOf[d]] - arrived[d] \in Int
      BY <3>2, <3>3
    <3> QED
      BY <3>1, <3>3, <3>4
  <2>4. changed \subseteq Rows
    BY <1>1, HoldsAssumption DEF StockTyped, HoldType, RowsOf, OwnHolds, Active
  <2> HIDE DEF changed
  <2> QED
    BY <1>2, <1>4, <1>6, <1>8, <1>9, <2>1, <2>2, <2>3, <2>4
<1>13. ASSUME NEW d \in Invoices, NEW n \in Numbers, Rename(d, n)
       PROVE  Typed'
  <2>1. UNCHANGED <<stock, projects, clerks>> /\ Commit({})
    BY <1>13 DEF Rename
  <2>2. InvoicesTyped'
    BY <1>1, <1>13 DEF Rename, InvoicesTyped
  <2> QED
    BY <1>2, <1>4, <1>5, <1>6, <1>8, <2>1, <2>2
<1>14. ASSUME NEW c \in Clerks, NEW p \in Projects, BeginClose(c, p)
       PROVE  Typed'
  <2>1. /\ pc' = [pc EXCEPT ![c] = "closing"] /\ closing' = [closing EXCEPT ![c] = p]
        /\ holdsSeen' = [holdsSeen EXCEPT ![c] = {h \in Active : h.project = p}]
        /\ UNCHANGED <<request, keysSeen, rowSeen, quote, plan>>
        /\ UNCHANGED <<stock, projects, invoices>> /\ Commit({})
    BY <1>14 DEF BeginClose, Goto, recording, handing
  <2>2. {h \in Active : h.project = p} \subseteq HoldType
    BY <1>1 DEF Active, StockTyped
  <2>3. RequestsTyped'
    BY <1>1, <2>1, <2>2 DEF RequestsTyped
  <2>4. InHand(c)' /\ DOMAIN plan' = Clerks
    BY <1>1, <2>1 DEF InHand, RequestsTyped, Typed
  <2>5. \A d \in Clerks : InHand(d)'
    BY <1>1, <2>1, <2>3, <2>4, ClerkTyped DEF RequestsTyped
  <2> QED
    BY <1>2, <1>5, <1>6, <1>7, <1>8, <2>1, <2>3, <2>4, <2>5
<1>15. ASSUME NEW c \in Clerks, Close(c)
       PROVE  Typed'
  <2> DEFINE changed == RowsOf(StillActive(holdsSeen[c]))
  <2>1. /\ pc[c] = "closing" /\ project' = [project EXCEPT ![closing[c]] = "closed"]
        /\ ReleaseAll(holdsSeen[c]) /\ UNCHANGED <<onHand, sold>> /\ Queue(changed)
        /\ UNCHANGED <<sourceQuote, handoff, invoices>> /\ End(c) /\ Commit(changed)
    BY <1>15 DEF Close
  <2>2. ProjectsTyped'
    BY <1>1, <2>1 DEF ProjectsTyped
  <2>3. changed \subseteq Rows
    BY <1>1 DEF StockTyped, HoldType, RowsOf, StillActive, Active
  <2> HIDE DEF changed
  <2> QED
    BY <1>1, <1>2, <1>7, <1>8, <1>9, <2>1, <2>2, <2>3, EndTyped DEF StockTyped
<1>16. ASSUME NEW c \in Clerks, NEW d \in Invoices, BeginInvoice(c, d)
       PROVE  Typed'
  <2>1. /\ pc' = [pc EXCEPT ![c] = "recording"] /\ UNCHANGED <<closing, holdsSeen, quote, plan>>
        /\ UNCHANGED <<stock, projects, invoices>> /\ Commit({})
        /\ keysSeen' = [keysSeen EXCEPT ![c] = {receipt[e] : e \in Invoices} \cap Numbers]
        /\ rowSeen' = [rowSeen EXCEPT ![c] =
             [onHand |-> onHand[RowOf[d]], reserved |-> reserved[RowOf[d]]]]
    BY <1>16 DEF BeginInvoice, Goto, handing
  <2>2. PICK n \in Numbers, amount \in Amounts :
          \E allocation \in Allocations(amount) :
            request' = [request EXCEPT ![c] =
              [invoice |-> d, number |-> n, amount |-> amount, allocation |-> allocation]]
    BY <1>16 DEF BeginInvoice
  <2>3. PICK allocation \in [Projects -> Nat] :
          request' = [request EXCEPT ![c] =
            [invoice |-> d, number |-> n, amount |-> amount, allocation |-> allocation]]
    <3>1. amount \in Nat
      BY HoldsAssumption
    <3>2. \A allocation \in Allocations(amount) : allocation \in [Projects -> Nat]
      BY <3>1 DEF Allocations
    <3> QED
      BY <2>2, <3>2
  <2>4. onHand[RowOf[d]] \in Int /\ reserved[RowOf[d]] \in Nat
    BY <1>1, HoldsAssumption DEF StockTyped
  <2>5. RequestsTyped'
    <3>1. request' \in [Clerks -> RequestType]
      <4>1. amount \in Nat
        BY HoldsAssumption
      <4> QED
        BY <1>1, <2>3, <4>1 DEF RequestsTyped, RequestType
    <3>2. rowSeen' \in [Clerks -> [onHand : Int, reserved : Int]]
      BY <1>1, <2>1, <2>4 DEF RequestsTyped
    <3>3. keysSeen' \in [Clerks -> SUBSET Numbers]
      BY <1>1, <2>1 DEF RequestsTyped
    <3> QED
      BY <1>1, <2>1, <3>1, <3>2, <3>3 DEF RequestsTyped
  <2>6. InHand(c)' /\ DOMAIN plan' = Clerks
    BY <1>1, <2>1, <2>3, <2>4 DEF InHand, RequestsTyped, Typed
  <2>7. \A e \in Clerks : InHand(e)'
    BY <1>1, <2>1, <2>3, <2>5, <2>6, ClerkTyped DEF RequestsTyped
  <2> QED
    BY <1>2, <1>5, <1>6, <1>7, <1>8, <2>1, <2>5, <2>6, <2>7
<1>17. ASSUME NEW c \in Clerks, PostInvoice(c)
       PROVE  Typed'
  <2> DEFINE r == request[c]
             w == RowOf[r.invoice]
             brought == IF AlreadyPosted(c) THEN 0 ELSE r.amount
             changed == IF WritesRow(c) THEN {w} ELSE {}
  <2>1. /\ pc[c] = "recording" /\ UNCHANGED <<sold, projects>>
        /\ End(c) /\ Queue(changed) /\ Commit(changed) /\ holds' = holds \cup HoldsOf(c)
    BY <1>17 DEF PostInvoice
  <2>2. /\ r.invoice \in Invoices /\ r.number \in Numbers /\ rowSeen[c].reserved \in Nat
        /\ r.amount \in Nat /\ r.allocation \in [Projects -> Nat] /\ rowSeen[c].onHand \in Int
        /\ w \in Rows
    BY <1>1, <2>1, HoldsAssumption DEF Typed, InHand, RequestsTyped, RequestType
  <2>3. Total(r.allocation) \in Nat
    <3>1. \A p \in Projects : r.allocation[p] \in Nat
      BY <2>2
    <3> HIDE DEF r
    <3> QED
      BY <3>1, HoldsAssumption, SumNat DEF Total
  <2>4. InvoicesTyped'
    <3>1. /\ invoice' = [invoice EXCEPT ![r.invoice] = "posted"]
          /\ number' = [number EXCEPT ![r.invoice] = r.number]
          /\ receipt' = [receipt EXCEPT ![r.invoice] = IF AlreadyPosted(c) THEN Nothing ELSE r.number]
          /\ arrived' = [arrived EXCEPT ![r.invoice] = brought]
      BY <1>17 DEF PostInvoice
    <3>2. brought \in Nat
      BY <2>2
    <3> HIDE DEF r, brought
    <3> QED
      BY <1>1, <2>2, <3>1, <3>2 DEF InvoicesTyped
  <2>5. onHand' \in [Rows -> Int]
    <3>1. onHand' = [onHand EXCEPT ![w] = IF AlreadyPosted(c) THEN @ ELSE rowSeen[c].onHand + brought]
      BY <1>17 DEF PostInvoice
    <3>2. brought \in Int /\ rowSeen[c].onHand + brought \in Int
      BY <2>2
    <3> HIDE DEF w, brought
    <3> QED
      BY <1>1, <2>2, <3>1, <3>2 DEF StockTyped
  <2>6. reserved' \in [Rows -> Nat]
    <3>1. reserved' = [reserved EXCEPT ![w] =
                         IF HoldsOf(c) = {} THEN @ ELSE rowSeen[c].reserved + Total(r.allocation)]
      BY <1>17 DEF PostInvoice
    <3>2. rowSeen[c].reserved + Total(r.allocation) \in Nat
      BY <2>2, <2>3
    <3> HIDE DEF w, r
    <3> QED
      BY <1>1, <2>2, <3>1, <3>2 DEF StockTyped
  <2>7. holds' \subseteq HoldType /\ IsFiniteSet(holds')
    BY <1>1, <2>1, HoldsOfTyped, FS_Union DEF StockTyped, Typed
  <2>8. changed \subseteq Rows
    BY <2>2
  <2> HIDE DEF changed
  <2>9. StockTyped'
    BY <1>1, <2>1, <2>5, <2>6, <2>7, QueueTyped DEF StockTyped
  <2> QED
    BY <1>2, <1>6, <1>8, <2>1, <2>4, <2>7, <2>8, <2>9, EndTyped
<1>18. ASSUME NEW c \in Clerks, RefuseInvoice(c) \/ AnswerHandoff(c) \/ Fail(c)
       PROVE  Typed'
  <2>1. End(c) /\ UNCHANGED <<stock, projects, invoices>> /\ Commit({})
    BY <1>18 DEF RefuseInvoice, AnswerHandoff, Fail
  <2> QED
    BY <1>2, <1>5, <1>6, <1>7, <1>8, <2>1, EndTyped
<1>19. ASSUME NEW c \in Clerks, NEW q \in Quotes, Preview(c, q)
       PROVE  Typed'
  <2>1. /\ pc' = [pc EXCEPT ![c] = "previewed"] /\ quote' = [quote EXCEPT ![c] = q]
        /\ plan' = [plan EXCEPT ![c] = PlanNow(q)]
        /\ UNCHANGED <<request, keysSeen, rowSeen, closing, holdsSeen>>
        /\ UNCHANGED <<stock, projects, invoices>> /\ Commit({})
    BY <1>19 DEF Preview, Goto, recording
  <2>2. RequestsTyped'
    BY <1>1, <2>1 DEF RequestsTyped
  <2>3. InHand(c)' /\ DOMAIN plan' = Clerks
    <3>1. PlanNow(q) \in [DOMAIN Needed[q] -> [DOMAIN Order -> Nat]]
      BY PlanTyped
    <3>2. /\ quote'[c] = q /\ pc'[c] = "previewed" /\ DOMAIN plan' = Clerks
          /\ plan'[c] = PlanNow(q)
      BY <1>1, <2>1 DEF RequestsTyped, Typed
    <3> QED
      BY <3>1, <3>2 DEF InHand
  <2>4. \A d \in Clerks : InHand(d)'
    BY <1>1, <2>1, <2>2, <2>3, ClerkTyped DEF RequestsTyped
  <2> QED
    BY <1>2, <1>5, <1>6, <1>7, <1>8, <2>1, <2>2, <2>3, <2>4
<1>20. ASSUME NEW c \in Clerks, BeginHandoff(c) \/ RetryHandoff(c)
       PROVE  Typed'
  <2>1. /\ pc[c] \in {"previewed", "handing"}
        /\ \E s \in {"previewed", "handing"} : pc' = [pc EXCEPT ![c] = s]
        /\ UNCHANGED <<request, keysSeen, rowSeen, closing, holdsSeen, quote, plan>>
        /\ UNCHANGED <<stock, projects, invoices>> /\ Commit({})
    BY <1>20 DEF BeginHandoff, RetryHandoff, Goto, recording, handing
  <2>2. RequestsTyped'
    BY <1>1, <2>1 DEF RequestsTyped
  <2>3. InHand(c)' /\ DOMAIN plan' = Clerks
    BY <1>1, <2>1 DEF InHand, RequestsTyped, Typed
  <2>4. \A d \in Clerks : InHand(d)'
    BY <1>1, <2>1, <2>2, <2>3, ClerkTyped DEF RequestsTyped
  <2> QED
    BY <1>2, <1>5, <1>6, <1>7, <1>8, <2>1, <2>2, <2>3, <2>4
<1>21. ASSUME NEW c \in Clerks, Handoff(c)
       PROVE  Typed'
  <2>1. /\ pc[c] = "handing" /\ UNCHANGED <<onHand, sold, invoices>>
        /\ Queue(PlannedRows(c)) /\ End(c) /\ Commit(PlannedRows(c) \cup {quote[c]})
    BY <1>21 DEF Handoff
  <2>2. PICK p \in Projects :
          /\ project' = [project EXCEPT ![p] = "open"]
          /\ sourceQuote' = [sourceQuote EXCEPT ![p] = quote[c]]
          /\ handoff' = [handoff EXCEPT ![quote[c]] = p]
          /\ holds' = holds \cup HoldsPlanned(c, p)
          /\ reserved' = [w \in Rows |-> IF w \in PlannedRows(c)
                                     THEN reserved[w] + SumOf(OnRow(HoldsPlanned(c, p), w))
                                     ELSE reserved[w]]
    BY <1>21 DEF Handoff
  <2>3. quote[c] \in Quotes
    BY <2>1 DEF Typed, InHand
  <2>4. ProjectsTyped'
    BY <1>1, <2>2, <2>3 DEF ProjectsTyped
  <2>5. /\ HoldsPlanned(c, p) \subseteq HoldType /\ IsFiniteSet(HoldsPlanned(c, p))
        /\ PlannedRows(c) \subseteq Rows
    BY <2>1, HoldsPlannedTyped
  <2>6. holds' \subseteq HoldType /\ IsFiniteSet(holds')
    BY <1>1, <2>2, <2>5, FS_Union DEF StockTyped, Typed
  <2>7. reserved' \in [Rows -> Nat]
    <3>1. ASSUME NEW w \in Rows
          PROVE  SumOf(OnRow(HoldsPlanned(c, p), w)) \in Nat
      <4>1. OnRow(HoldsPlanned(c, p), w) \subseteq HoldsPlanned(c, p)
        BY DEF OnRow
      <4>2. IsFiniteSet(OnRow(HoldsPlanned(c, p), w))
        BY <2>5, <4>1, FS_Subset
      <4> QED
        BY <2>5, <4>1, <4>2, SumOfNat
    <3>2. \A w \in Rows : reserved[w] \in Nat
      BY <1>1 DEF StockTyped
    <3> QED
      BY <2>2, <3>1, <3>2
  <2>8. StockTyped'
    BY <1>1, <2>1, <2>6, <2>7, QueueTyped DEF StockTyped
  <2> QED
    BY <1>2, <1>7, <1>8, <2>1, <2>3, <2>4, <2>5, <2>6, <2>8, EndTyped
<1> QED
  BY <1>7a, <1>10, <1>11, <1>12, <1>13, <1>14, <1>15, <1>16, <1>17, <1>18, <1>19, <1>20, <1>21
  DEF Next

\* The variables keep their types, and no row ever reserves less than nothing.
THEOREM HoldsTypes == Spec => []TypeOK
<1>1. Typed => TypeOK
  BY DEF Typed
<1> QED
  BY <1>1, InitTyped, StepTyped, PTL DEF Spec

-----------------------------------------------------------------------------
(* Rows and holds agree.                                                   *)

LEMMA OnRowTyped ==
  ASSUME NEW some \in SUBSET HoldType, IsFiniteSet(some), NEW w
  PROVE  /\ OnRow(some, w) \in SUBSET HoldType /\ IsFiniteSet(OnRow(some, w))
         /\ SumOf(OnRow(some, w)) \in Nat
<1>1. OnRow(some, w) \subseteq some
  BY DEF OnRow
<1>2. OnRow(some, w) \in SUBSET HoldType /\ IsFiniteSet(OnRow(some, w))
  BY <1>1, FS_Subset
<1> QED
  BY <1>2, SumOfNat

LEMMA ActiveTyped ==
  ASSUME Typed
  PROVE  /\ Active \in SUBSET HoldType /\ IsFiniteSet(Active)
         /\ \A listed : StillActive(listed) \in SUBSET HoldType
                          /\ IsFiniteSet(StillActive(listed))
<1>1. holds \subseteq HoldType /\ IsFiniteSet(holds)
  BY DEF Typed, TypeOK
<1>2. Active \subseteq holds /\ \A listed : StillActive(listed) \subseteq holds
  BY DEF Active, StillActive
<1> QED
  BY <1>1, <1>2, FS_Subset

\* A release takes what it ends off the rows.
LEMMA ReleaseBooked ==
  ASSUME Typed, ReservedIsHolds, NEW listed, ReleaseAll(listed)
  PROVE  ReservedIsHolds' /\ Active' = Active \ StillActive(listed)
<1> DEFINE ending == StillActive(listed)
<1>1. ending \subseteq Active /\ Active \subseteq holds
  BY DEF StillActive, Active
<1>2. Active' = Active \ ending
  <2>1. holds' = (holds \ ending) \cup {Released(h) : h \in ending}
    BY DEF ReleaseAll
  <2>2. \A h \in ending : Released(h).status = "RELEASED"
    BY <1>1, ActiveTyped DEF Released, HoldType
  <2>3. Active' = {h \in holds' : h.status = "ACTIVE"}
    BY DEF Active
  <2> HIDE DEF ending
  <2> QED
    BY <1>1, <2>1, <2>2, <2>3 DEF Active
<1>3. ASSUME NEW w \in Rows
      PROVE  reserved'[w] = SumOf(OnRow(Active', w))
  <2>1. reserved[w] = SumOf(OnRow(Active, w)) /\ reserved[w] \in Nat
    BY DEF ReservedIsHolds, Typed, TypeOK
  <2>2. /\ OnRow(Active, w) = OnRow(Active', w) \cup OnRow(ending, w)
        /\ OnRow(Active', w) \cap OnRow(ending, w) = {}
    BY <1>1, <1>2 DEF OnRow
  <2>3. Active' \in SUBSET HoldType /\ IsFiniteSet(Active')
    BY <1>2, ActiveTyped, FS_Subset
  <2>4. /\ OnRow(ending, w) \in SUBSET HoldType /\ IsFiniteSet(OnRow(ending, w))
        /\ SumOf(OnRow(ending, w)) \in Nat
    BY ActiveTyped, OnRowTyped
  <2>5. /\ OnRow(Active', w) \in SUBSET HoldType /\ IsFiniteSet(OnRow(Active', w))
        /\ SumOf(OnRow(Active', w)) \in Nat
    BY <2>3, OnRowTyped
  <2>6. SumOf(OnRow(Active, w)) = SumOf(OnRow(Active', w)) + SumOf(OnRow(ending, w))
    BY <2>2, <2>4, <2>5, SumOfBoth
  <2>7. reserved'[w] = IF w \in RowsOf(ending) THEN reserved[w] - SumOf(OnRow(ending, w))
                                               ELSE reserved[w]
    BY DEF ReleaseAll
  <2>8. CASE w \in RowsOf(ending)
    BY <2>1, <2>4, <2>5, <2>6, <2>7, <2>8
  <2>9. CASE w \notin RowsOf(ending)
    <3>1. OnRow(ending, w) = {}
      BY <2>9 DEF RowsOf, OnRow
    <3> QED
      BY <2>1, <2>5, <2>6, <2>7, <2>9, <3>1, SumOfNone
  <2> QED
    BY <2>8, <2>9
<1> QED
  BY <1>2, <1>3 DEF ReservedIsHolds

\* New holds are added to the rows they are on.
LEMMA PlacedBooked ==
  ASSUME Typed, ReservedIsHolds,
         NEW more \in SUBSET HoldType, IsFiniteSet(more), more \cap holds = {},
         \A h \in more : h.status = "ACTIVE",
         holds' = holds \cup more,
         \A w \in Rows : reserved'[w] = reserved[w] + SumOf(OnRow(more, w))
  PROVE  ReservedIsHolds'
<1>1. Active' = Active \cup more /\ Active \cap more = {}
  BY DEF Active
<1>2. ASSUME NEW w \in Rows
      PROVE  reserved'[w] = SumOf(OnRow(Active', w))
  <2>1. reserved[w] = SumOf(OnRow(Active, w))
    BY DEF ReservedIsHolds
  <2>2. /\ OnRow(Active', w) = OnRow(Active, w) \cup OnRow(more, w)
        /\ OnRow(Active, w) \cap OnRow(more, w) = {}
    BY <1>1 DEF OnRow
  <2>3. /\ OnRow(more, w) \in SUBSET HoldType /\ IsFiniteSet(OnRow(more, w))
        /\ OnRow(Active, w) \in SUBSET HoldType /\ IsFiniteSet(OnRow(Active, w))
    BY ActiveTyped, OnRowTyped
  <2>4. SumOf(OnRow(Active', w)) = SumOf(OnRow(Active, w)) + SumOf(OnRow(more, w))
    BY <2>2, <2>3, SumOfBoth
  <2> QED
    BY <2>1, <2>4
<1> QED
  BY <1>2 DEF ReservedIsHolds

\* What an invoice holds adds up to what it was to hold.
LEMMA HoldsOfSum ==
  ASSUME Typed, NEW c \in Clerks, pc[c] = "recording"
  PROVE  /\ SumOf(HoldsOf(c)) = Total(request[c].allocation)
         /\ Total(request[c].allocation) \in Nat
         /\ \A w : OnRow(HoldsOf(c), w) =
                     IF w = RowOf[request[c].invoice] THEN HoldsOf(c) ELSE {}
<1> DEFINE r == request[c]
           some == {q \in Projects : r.allocation[q] > 0}
           rest == {q \in Projects : ~(r.allocation[q] > 0)}
           h == [p \in some |-> Hold(r.invoice, 1, p, RowOf[r.invoice], r.allocation[p])]
           f == [g \in HoldsOf(c) |-> g.quantity]
<1>1. r.allocation \in [Projects -> Nat]
  BY DEF Typed, TypeOK, RequestType
<1>2. IsFiniteSet(Projects) /\ IsFiniteSet(some) /\ IsFiniteSet(rest)
  BY HoldsAssumption, FS_Subset
<1>3. HoldsOf(c) = {h[p] : p \in some}
  BY DEF HoldsOf
<1>4. \A p, q \in some : h[p] = h[q] => p = q
  <2> TAKE p, q \in some
  <2>1. h[p].project = p /\ h[q].project = q
    BY DEF Hold
  <2> QED
    BY <2>1
<1>5. \A p \in some : f[h[p]] = r.allocation[p] /\ r.allocation[p] \in Nat
  <2> TAKE p \in some
  <2>1. h[p] \in HoldsOf(c)
    BY <1>3
  <2>2. h[p].quantity = r.allocation[p]
    BY DEF Hold
  <2> QED
    BY <1>1, <2>1, <2>2
<1>6. \A p \in rest : r.allocation[p] = 0
  BY <1>1
<1>7. \A p \in Projects : r.allocation[p] \in Nat
  BY <1>1
<1>8. Projects = some \cup rest /\ some \cap rest = {}
  OBVIOUS
<1>9. \A w : OnRow(HoldsOf(c), w) = IF w = RowOf[request[c].invoice] THEN HoldsOf(c) ELSE {}
  BY DEF OnRow, HoldsOf, Hold
<1>10. Total(r.allocation) = SumFunctionOnSet(r.allocation, Projects)
  BY DEF Total
<1>11. SumOf(HoldsOf(c)) = SumFunctionOnSet(f, HoldsOf(c))
  BY DEF SumOf
<1> HIDE DEF r, some, rest, h, f
<1>12. SumFunctionOnSet(f, HoldsOf(c)) = SumFunctionOnSet(r.allocation, some)
  <2>1. \A p \in some : f[h[p]] \in Int /\ r.allocation[p] = f[h[p]]
    BY <1>5
  <2>2. \A y : y \in HoldsOf(c) <=> \E p \in some : y = h[p]
    BY <1>3
  <2> QED
    BY <1>2, <1>4, <2>1, <2>2, SumImage
<1>13. /\ SumFunctionOnSet(r.allocation, Projects)
            = SumFunctionOnSet(r.allocation, some) + SumFunctionOnSet(r.allocation, rest)
       /\ SumFunctionOnSet(r.allocation, Projects) \in Nat
       /\ SumFunctionOnSet(r.allocation, some) \in Nat
  <2>1. \A p \in some \cup rest : r.allocation[p] \in Int
    BY <1>7, <1>8
  <2>2. \A p \in some : r.allocation[p] \in Nat
    BY <1>5
  <2> QED
    BY <1>2, <1>7, <1>8, <2>1, <2>2, SumDisjoint, SumNat
<1>14. SumFunctionOnSet(r.allocation, rest) = 0
  BY <1>2, <1>6, SumZero
<1> QED
  BY <1>9, <1>10, <1>11, <1>12, <1>13, <1>14 DEF r

-----------------------------------------------------------------------------
(* Rows, holds, invoices and snapshots.                                    *)

\* A snapshot shows the row as it is, or the row is among what moved since.
SnapshotsTrue == \A c \in Clerks :
  pc[c] = "recording" /\ RowOf[request[c].invoice] \notin moved[c] =>
    rowSeen[c] = [onHand |-> onHand[RowOf[request[c].invoice]],
                  reserved |-> reserved[RowOf[request[c].invoice]]]

\* An invoice is recorded by one clerk, and has not been recorded yet.
RecordedOnce ==
  /\ \A c \in Clerks : pc[c] = "recording" => invoice[request[c].invoice] = "none"
  /\ \A c, d \in Clerks :
       pc[c] = "recording" /\ pc[d] = "recording" /\ request[c].invoice = request[d].invoice
         => c = d

\* What an invoice holds it holds of its own row, and only once it is posted.
InvoiceHolds == \A h \in holds : h.source \in Invoices =>
  invoice[h.source] # "none" /\ h.row = RowOf[h.source]

\* An invoice without a receipt brought nothing.
NothingArrived == \A d \in Invoices : receipt[d] = Nothing => arrived[d] = 0

Booked ==
  /\ SnapshotsTrue /\ RecordedOnce /\ InvoiceHolds /\ NothingArrived
  /\ ReservedIsHolds /\ StockIsExplained

LEMMA SnapshotsKept ==
  ASSUME Typed, SnapshotsTrue, NEW changed, Commit(changed), NEW c,
         \A w \in Rows \ changed : onHand'[w] = onHand[w] /\ reserved'[w] = reserved[w],
         \A d \in Clerks \ {c} :
           pc'[d] = pc[d] /\ request'[d] = request[d] /\ rowSeen'[d] = rowSeen[d],
         c \in Clerks /\ pc'[c] = "recording" =>
           rowSeen'[c] = [onHand |-> onHand'[RowOf[request'[c].invoice]],
                          reserved |-> reserved'[RowOf[request'[c].invoice]]]
  PROVE  SnapshotsTrue'
<1>1. ASSUME NEW d \in Clerks, d # c, pc'[d] = "recording",
             RowOf[request'[d].invoice] \notin moved'[d]
      PROVE  rowSeen'[d] = [onHand |-> onHand'[RowOf[request'[d].invoice]],
                            reserved |-> reserved'[RowOf[request'[d].invoice]]]
  <2> DEFINE w == RowOf[request[d].invoice]
  <2>1. pc[d] = "recording" /\ request'[d] = request[d] /\ rowSeen'[d] = rowSeen[d]
    BY <1>1
  <2>2. w \in Rows
    BY <2>1, HoldsAssumption DEF Typed, InHand
  <2>3. moved'[d] = moved[d] \cup changed
    BY <1>1 DEF Commit
  <2>4. w \notin moved[d] /\ w \in Rows \ changed
    BY <1>1, <2>1, <2>2, <2>3
  <2>5. rowSeen[d] = [onHand |-> onHand[w], reserved |-> reserved[w]]
    BY <2>1, <2>4 DEF SnapshotsTrue
  <2> QED
    BY <2>1, <2>4, <2>5
<1> QED
  BY <1>1 DEF SnapshotsTrue

LEMMA RecordedKept ==
  ASSUME Typed, RecordedOnce, NEW c,
         \A d \in Clerks \ {c} : pc'[d] = pc[d] /\ request'[d] = request[d],
         \A d \in Clerks \ {c} : pc[d] = "recording" =>
           invoice'[request[d].invoice] = invoice[request[d].invoice],
         c \in Clerks /\ pc'[c] = "recording" =>
           /\ invoice'[request'[c].invoice] = "none"
           /\ \A d \in Clerks \ {c} : request[d].invoice # request'[c].invoice
  PROVE  RecordedOnce'
BY DEF RecordedOnce

\* What a release leaves of the holds of an invoice.
LEMMA ReleaseKeepsInvoiceHolds ==
  ASSUME Typed, InvoiceHolds, NEW listed, ReleaseAll(listed),
         \A d \in Invoices : invoice[d] # "none" => invoice'[d] # "none"
  PROVE  InvoiceHolds'
<1> DEFINE ending == StillActive(listed)
<1>1. holds' = (holds \ ending) \cup {Released(h) : h \in ending}
  BY DEF ReleaseAll
<1>2. ending \subseteq holds /\ holds \subseteq HoldType
  BY DEF StillActive, Active, Typed, TypeOK
<1>3. \A g \in ending : Released(g).source = g.source /\ Released(g).row = g.row
  BY <1>2 DEF Released, HoldType
<1> HIDE DEF ending
<1>4. \A h \in holds' : \E g \in holds : h.source = g.source /\ h.row = g.row
  BY <1>1, <1>2, <1>3
<1> QED
  BY <1>4 DEF InvoiceHolds

\* What standing invoices brought to a row.
Standing(w) == {d \in Invoices : RowOf[d] = w /\ invoice[d] = "posted"}
Brought(w) == SumFunctionOnSet(arrived, Standing(w))

LEMMA BroughtTyped ==
  ASSUME Typed, NEW w
  PROVE  /\ IsFiniteSet(Standing(w)) /\ Brought(w) \in Nat
         /\ \A d \in Invoices : arrived[d] \in Nat
<1>1. IsFiniteSet(Standing(w))
  BY HoldsAssumption, FS_Subset DEF Standing
<1>2. \A d \in Invoices : arrived[d] \in Nat
  BY DEF Typed, TypeOK
<1>3. \A d \in Standing(w) : arrived[d] \in Nat
  BY <1>2 DEF Standing
<1>4. Brought(w) \in Nat
  BY <1>1, <1>3, SumNat DEF Brought
<1> QED
  BY <1>1, <1>2, <1>4

LEMMA ExplainedIs ==
  StockIsExplained <=> \A w \in Rows : onHand[w] = InitialStock[w] - sold[w] + Brought(w)
BY DEF StockIsExplained, Brought, Standing

LEMMA BroughtKept ==
  ASSUME UNCHANGED <<invoice, arrived>>, NEW w
  PROVE  Brought(w)' = Brought(w)
BY DEF Brought, Standing

LEMMA ExplainedKept ==
  ASSUME StockIsExplained, UNCHANGED <<onHand, sold, invoice, arrived>>
  PROVE  StockIsExplained'
BY DEF StockIsExplained

LEMMA InitBooked == Init => Booked
<1> SUFFICES ASSUME Init PROVE Booked
  OBVIOUS
<1>1. SnapshotsTrue /\ RecordedOnce /\ InvoiceHolds /\ NothingArrived
  BY DEF Init, SnapshotsTrue, RecordedOnce, InvoiceHolds, NothingArrived
<1>2. ReservedIsHolds
  <2>1. \A w \in Rows : OnRow(Active, w) = {} /\ reserved[w] = 0
    BY DEF Init, Active, OnRow
  <2> QED
    BY <2>1, SumOfNone DEF ReservedIsHolds
<1>3. StockIsExplained
  <2>1. ASSUME NEW w \in Rows
        PROVE  onHand[w] = InitialStock[w] - sold[w] + Brought(w)
    <3>1. Standing(w) = {}
      BY DEF Init, Standing
    <3>2. Brought(w) = 0
      BY <3>1, SumEmpty DEF Brought
    <3>3. onHand[w] = InitialStock[w] /\ sold[w] = 0 /\ InitialStock[w] \in Nat
      BY HoldsAssumption DEF Init
    <3> QED
      BY <3>2, <3>3
  <2> QED
    BY <2>1, ExplainedIs
<1> QED
  BY <1>1, <1>2, <1>3 DEF Booked

\* A transaction that only releases holds.
LEMMA ReleasedBooked ==
  ASSUME Typed, Booked, NEW listed, NEW changed, NEW c, ReleaseAll(listed), Commit(changed),
         RowsOf(StillActive(listed)) \subseteq changed,
         UNCHANGED <<onHand, sold, invoices>>,
         \A d \in Clerks \ {c} :
           pc'[d] = pc[d] /\ request'[d] = request[d] /\ rowSeen'[d] = rowSeen[d],
         c \in Clerks => pc'[c] # "recording"
  PROVE  Booked'
<1>1. UNCHANGED <<invoice, receipt, arrived>>
  BY DEF invoices
<1>2. \A w \in Rows \ changed : onHand'[w] = onHand[w] /\ reserved'[w] = reserved[w]
  BY DEF ReleaseAll
<1>3. SnapshotsTrue'
  BY <1>2, SnapshotsKept DEF Booked
<1>4. RecordedOnce'
  BY <1>1, RecordedKept DEF Booked
<1>5. InvoiceHolds'
  BY <1>1, ReleaseKeepsInvoiceHolds DEF Booked
<1>6. NothingArrived'
  BY <1>1 DEF Booked, NothingArrived
<1>7. ReservedIsHolds'
  BY ReleaseBooked DEF Booked
<1>8. StockIsExplained'
  BY <1>1, ExplainedKept DEF Booked
<1> QED
  BY <1>3, <1>4, <1>5, <1>6, <1>7, <1>8 DEF Booked

\* One that changes no stock, no hold and no invoice's standing.
LEMMA NothingBooked ==
  ASSUME Typed, Booked, NEW c, Commit({}), UNCHANGED <<stock, invoices>>,
         \A d \in Clerks \ {c} :
           pc'[d] = pc[d] /\ request'[d] = request[d] /\ rowSeen'[d] = rowSeen[d],
         c \in Clerks /\ pc'[c] = "recording" =>
           /\ rowSeen'[c] = [onHand |-> onHand[RowOf[request'[c].invoice]],
                             reserved |-> reserved[RowOf[request'[c].invoice]]]
           /\ invoice[request'[c].invoice] = "none"
           /\ \A d \in Clerks \ {c} : request[d].invoice # request'[c].invoice
  PROVE  Booked'
<1>1. UNCHANGED <<onHand, reserved, sold, holds, invoice, receipt, arrived>>
  BY DEF invoices, stock
<1>2. SnapshotsTrue'
  BY <1>1, SnapshotsKept DEF Booked
<1>3. RecordedOnce'
  BY <1>1, RecordedKept DEF Booked
<1>4. InvoiceHolds' /\ NothingArrived'
  BY <1>1 DEF Booked, InvoiceHolds, NothingArrived
<1>5. ReservedIsHolds'
  BY <1>1 DEF Booked, ReservedIsHolds, Active
<1>6. StockIsExplained'
  BY <1>1, ExplainedKept DEF Booked
<1> QED
  BY <1>2, <1>3, <1>4, <1>5, <1>6 DEF Booked

LEMMA SellBooked ==
  ASSUME Typed, Booked, NEW w \in Rows, Sell(w)
  PROVE  Booked'
<1>1. /\ onHand' = [onHand EXCEPT ![w] = @ - 1] /\ sold' = [sold EXCEPT ![w] = @ + 1]
      /\ UNCHANGED <<reserved, holds, invoices, pc, request, rowSeen>> /\ Commit({w})
  BY DEF Sell, clerks, recording
<1>2. onHand \in [Rows -> Int] /\ sold \in [Rows -> 0..MaxSold]
  BY DEF Typed, TypeOK
<1>3. UNCHANGED <<invoice, receipt, arrived>>
  BY <1>1 DEF invoices
<1>4. SnapshotsTrue'
  <2>1. \A v \in Rows \ {w} : onHand'[v] = onHand[v] /\ reserved'[v] = reserved[v]
    BY <1>1
  <2>2. \E c : c \notin Clerks
    BY NoSetContainsEverything
  <2> QED
    BY <1>1, <2>1, <2>2, SnapshotsKept DEF Booked
<1>5. RecordedOnce' /\ InvoiceHolds' /\ NothingArrived'
  BY <1>1, <1>3 DEF Booked, RecordedOnce, InvoiceHolds, NothingArrived
<1>6. ReservedIsHolds'
  BY <1>1 DEF Booked, ReservedIsHolds, Active
<1>7. StockIsExplained'
  <2>1. ASSUME NEW v \in Rows
        PROVE  onHand'[v] = InitialStock[v] - sold'[v] + Brought(v)'
    <3>1. Brought(v)' = Brought(v)
      BY <1>3, BroughtKept
    <3>2. onHand[v] = InitialStock[v] - sold[v] + Brought(v)
      BY ExplainedIs DEF Booked
    <3>3. /\ Brought(v) \in Int /\ onHand[v] \in Int /\ sold[v] \in Int
          /\ InitialStock[v] \in Int
      BY <1>2, BroughtTyped, HoldsAssumption
    <3>4. CASE v = w
      BY <1>1, <1>2, <3>1, <3>2, <3>3, <3>4
    <3>5. CASE v # w
      BY <1>1, <1>2, <3>1, <3>2, <3>3, <3>5
    <3> QED
      BY <3>4, <3>5
  <2> QED
    BY <2>1 DEF StockIsExplained, Brought, Standing
<1> QED
  BY <1>4, <1>5, <1>6, <1>7 DEF Booked

LEMMA CancelBooked ==
  ASSUME Typed, Booked, NEW d \in Invoices, Cancel(d)
  PROVE  Booked'
<1> DEFINE changed == RowsOf(OwnHolds(d))
                        \cup (IF receipt[d] = Nothing THEN {} ELSE {RowOf[d]})
<1>1. /\ invoice[d] = "posted" /\ ReleaseAll(OwnHolds(d)) /\ Commit(changed)
      /\ invoice' = [invoice EXCEPT ![d] = "cancelled"]
      /\ receipt' = [receipt EXCEPT ![d] = IF receipt[d] = Nothing THEN Nothing ELSE Cancelled]
      /\ onHand' = [onHand EXCEPT ![RowOf[d]] =
                       IF receipt[d] = Nothing THEN @ ELSE @ - arrived[d]]
      /\ UNCHANGED <<sold, arrived, pc, request, rowSeen>>
  BY DEF Cancel, FreedKey, clerks, recording
<1>2. /\ onHand \in [Rows -> Int] /\ sold \in [Rows -> 0..MaxSold] /\ RowOf[d] \in Rows
      /\ invoice \in [Invoices -> {"none", "posted", "cancelled"}]
      /\ receipt \in [Invoices -> Numbers \cup {Cancelled, Nothing}]
      /\ arrived \in [Invoices -> Nat]
  BY HoldsAssumption DEF Typed, TypeOK
<1>3. SnapshotsTrue'
  <2>1. ASSUME NEW v \in Rows \ changed
        PROVE  onHand'[v] = onHand[v] /\ reserved'[v] = reserved[v]
    <3>1. onHand'[v] = onHand[v]
      BY <1>1, <1>2
    <3>2. StillActive(OwnHolds(d)) = OwnHolds(d)
      BY DEF StillActive, OwnHolds
    <3>3. reserved'[v] = reserved[v]
      BY <1>1, <3>2 DEF ReleaseAll
    <3> QED
      BY <3>1, <3>3
  <2>2. \E c : c \notin Clerks
    BY NoSetContainsEverything
  <2> HIDE DEF changed
  <2> QED
    BY <1>1, <2>1, <2>2, SnapshotsKept DEF Booked
<1>4. RecordedOnce'
  <2>1. \A c \in Clerks : pc[c] = "recording" => request[c].invoice # d
    BY <1>1 DEF Booked, RecordedOnce
  <2> QED
    BY <1>1, <1>2, <2>1 DEF Booked, RecordedOnce
<1>5. InvoiceHolds'
  <2>1. \A e \in Invoices : invoice[e] # "none" => invoice'[e] # "none"
    BY <1>1, <1>2
  <2> QED
    BY <1>1, <2>1, ReleaseKeepsInvoiceHolds DEF Booked
<1>6. NothingArrived'
  BY <1>1, <1>2, HoldsAssumption DEF Booked, NothingArrived
<1>7. ReservedIsHolds'
  BY <1>1, ReleaseBooked DEF Booked
<1>8. StockIsExplained'
  <2>1. ASSUME NEW v \in Rows
        PROVE  onHand'[v] = InitialStock[v] - sold'[v] + Brought(v)'
    <3>1. onHand[v] = InitialStock[v] - sold[v] + Brought(v)
      BY ExplainedIs DEF Booked
    <3>2. /\ Brought(v) \in Int /\ onHand[v] \in Int /\ sold[v] \in Int
          /\ InitialStock[v] \in Int /\ arrived[d] \in Int
      BY <1>2, BroughtTyped, HoldsAssumption
    <3>3. CASE v = RowOf[d]
      <4>1. Standing(v)' = Standing(v) \ {d} /\ d \in Standing(v)
        BY <1>1, <1>2, <3>3 DEF Standing
      <4>2. \A e \in Standing(v) : arrived[e] \in Int
        BY <1>2 DEF Standing
      <4>3. Brought(v) = arrived[d] + SumFunctionOnSet(arrived, Standing(v) \ {d})
        BY <4>1, <4>2, BroughtTyped, SumTakeOut DEF Brought
      <4>4. Brought(v)' = SumFunctionOnSet(arrived, Standing(v) \ {d})
        BY <1>1, <4>1 DEF Brought
      <4>5. SumFunctionOnSet(arrived, Standing(v) \ {d}) \in Int
        <5>1. IsFiniteSet(Standing(v) \ {d})
          BY BroughtTyped, FS_Subset
        <5> QED
          BY <4>2, <5>1, SumType
      <4>6. CASE receipt[d] = Nothing
        BY <1>1, <1>2, <3>1, <3>2, <4>3, <4>4, <4>5, <4>6 DEF Booked, NothingArrived
      <4>7. CASE receipt[d] # Nothing
        <5>1. onHand'[v] = onHand[v] - arrived[d]
          BY <1>1, <1>2, <3>3, <4>7
        <5> QED
          BY <1>1, <3>1, <3>2, <4>3, <4>4, <4>5, <5>1
      <4> QED
        BY <4>6, <4>7
    <3>4. CASE v # RowOf[d]
      <4>1. Standing(v)' = Standing(v)
        BY <1>1, <1>2, <3>4 DEF Standing
      <4>2. Brought(v)' = Brought(v)
        BY <1>1, <4>1 DEF Brought
      <4> QED
        BY <1>1, <1>2, <3>1, <3>4, <4>2
    <3> QED
      BY <3>3, <3>4
  <2> QED
    BY <2>1 DEF StockIsExplained, Brought, Standing
<1> QED
  BY <1>3, <1>4, <1>5, <1>6, <1>7, <1>8 DEF Booked

LEMMA PostBooked ==
  ASSUME Typed, Booked, NEW c \in Clerks, PostInvoice(c)
  PROVE  Booked'
<1> DEFINE r == request[c]
           d == r.invoice
           w == RowOf[d]
           brought == IF AlreadyPosted(c) THEN 0 ELSE r.amount
           key == IF AlreadyPosted(c) THEN Nothing ELSE r.number
           changed == IF WritesRow(c) THEN {w} ELSE {}
<1>1. /\ pc[c] = "recording" /\ ~InvoiceConflict(c) /\ End(c) /\ Commit(changed)
      /\ invoice' = [invoice EXCEPT ![d] = "posted"]
      /\ receipt' = [receipt EXCEPT ![d] = key]
      /\ arrived' = [arrived EXCEPT ![d] = brought]
      /\ onHand' = [onHand EXCEPT ![w] =
                       IF AlreadyPosted(c) THEN @ ELSE rowSeen[c].onHand + brought]
      /\ reserved' = [reserved EXCEPT ![w] =
                       IF HoldsOf(c) = {} THEN @ ELSE rowSeen[c].reserved + Total(r.allocation)]
      /\ holds' = holds \cup HoldsOf(c)
      /\ sold' = sold
  BY DEF PostInvoice
<1>2. /\ d \in Invoices /\ w \in Rows /\ invoice[d] = "none" /\ r.number \in Numbers
      /\ r.amount \in Nat
  BY <1>1, HoldsAssumption DEF Typed, TypeOK, InHand, RequestType, Booked, RecordedOnce
<1>3. /\ onHand \in [Rows -> Int] /\ reserved \in [Rows -> Nat] /\ sold \in [Rows -> 0..MaxSold]
      /\ invoice \in [Invoices -> {"none", "posted", "cancelled"}]
      /\ receipt \in [Invoices -> Numbers \cup {Cancelled, Nothing}]
      /\ arrived \in [Invoices -> Nat] /\ brought \in Nat
  BY <1>2 DEF Typed, TypeOK
<1>3a. w \notin moved[c] => rowSeen[c].onHand = onHand[w] /\ rowSeen[c].reserved = reserved[w]
  <2>1. SUFFICES ASSUME w \notin moved[c]
                 PROVE  rowSeen[c].onHand = onHand[w] /\ rowSeen[c].reserved = reserved[w]
    OBVIOUS
  <2>2. rowSeen[c] = [onHand |-> onHand[w], reserved |-> reserved[w]]
    BY <1>1, <2>1 DEF Booked, SnapshotsTrue
  <2> QED
    BY <2>2
<1>4. ~AlreadyPosted(c) => onHand'[w] = onHand[w] + brought
  <2>1. SUFFICES ASSUME ~AlreadyPosted(c) PROVE onHand'[w] = onHand[w] + brought
    OBVIOUS
  <2>2. w \notin moved[c]
    BY <1>1, <2>1 DEF InvoiceConflict, WritesRow
  <2>3. rowSeen[c].onHand = onHand[w]
    BY <2>2, <1>3a
  <2> HIDE DEF brought, w
  <2> QED
    BY <1>1, <1>2, <1>3, <2>1, <2>3
<1>5. AlreadyPosted(c) => onHand'[w] = onHand[w] /\ brought = 0
  BY <1>1, <1>2, <1>3
<1>6. \A v \in Rows : v # w => onHand'[v] = onHand[v] /\ reserved'[v] = reserved[v]
  BY <1>1, <1>3
<1>7. reserved'[w] = reserved[w] + SumOf(HoldsOf(c))
  <2>1. CASE HoldsOf(c) = {}
    BY <1>1, <1>2, <1>3, <2>1, SumOfNone
  <2>2. CASE HoldsOf(c) # {}
    <3>1. w \notin moved[c]
      BY <1>1, <2>2 DEF InvoiceConflict, WritesRow
    <3>2. rowSeen[c].reserved = reserved[w]
      BY <3>1, <1>3a
    <3>3. Total(r.allocation) = SumOf(HoldsOf(c))
      BY <1>1, HoldsOfSum
    <3> HIDE DEF w, r
    <3> QED
      BY <1>1, <1>2, <1>3, <2>2, <3>2, <3>3
  <2> QED
    BY <2>1, <2>2
<1>8. SnapshotsTrue'
  <2>1. ASSUME NEW v \in Rows \ changed
        PROVE  onHand'[v] = onHand[v] /\ reserved'[v] = reserved[v]
    <3>1. CASE v # w
      BY <1>6, <3>1
    <3>2. CASE v = w
      BY <1>1, <1>3, <2>1, <3>2 DEF WritesRow
    <3> QED
      BY <3>1, <3>2
  <2>2. /\ pc'[c] # "recording"
        /\ \A e \in Clerks \ {c} :
             pc'[e] = pc[e] /\ request'[e] = request[e] /\ rowSeen'[e] = rowSeen[e]
    BY <1>1 DEF End, Goto, Typed, TypeOK
  <2> HIDE DEF changed
  <2> QED
    BY <1>1, <2>1, <2>2, SnapshotsKept DEF Booked
<1>9. RecordedOnce'
  <2>1. /\ pc'[c] # "recording"
        /\ \A e \in Clerks \ {c} : pc'[e] = pc[e] /\ request'[e] = request[e]
    BY <1>1 DEF End, Goto, Typed, TypeOK
  <2>2. \A e \in Clerks \ {c} : pc[e] = "recording" =>
          request[e].invoice \in Invoices /\ request[e].invoice # d
    BY <1>1 DEF Booked, RecordedOnce, Typed, InHand
  <2>3. \A e \in Clerks \ {c} : pc[e] = "recording" =>
          invoice'[request[e].invoice] = invoice[request[e].invoice]
    BY <1>1, <1>3, <2>2
  <2> QED
    BY <2>1, <2>3, RecordedKept DEF Booked
<1>10. /\ HoldsOf(c) \in SUBSET HoldType /\ IsFiniteSet(HoldsOf(c))
       /\ \A h \in HoldsOf(c) : h.source = d /\ h.row = w /\ h.status = "ACTIVE"
  <2>1. HoldsOf(c) \subseteq HoldType /\ IsFiniteSet(HoldsOf(c))
    BY <1>1, HoldsOfTyped
  <2>2. \A h \in HoldsOf(c) : h.source = d /\ h.row = w /\ h.status = "ACTIVE"
    BY DEF HoldsOf, Hold
  <2> QED
    BY <2>1, <2>2
<1>11. HoldsOf(c) \cap holds = {}
  BY <1>2, <1>10 DEF Booked, InvoiceHolds
<1>12. InvoiceHolds'
  <2>1. \A e \in Invoices : invoice[e] # "none" => invoice'[e] # "none"
    BY <1>1, <1>3
  <2>2. invoice'[d] = "posted"
    BY <1>1, <1>2, <1>3
  <2> HIDE DEF d, w
  <2>3. ASSUME NEW h \in holds', h.source \in Invoices
        PROVE  invoice'[h.source] # "none" /\ h.row = RowOf[h.source]
    <3>1. CASE h \in holds
      BY <2>1, <2>3, <3>1 DEF Booked, InvoiceHolds
    <3>2. CASE h \in HoldsOf(c)
      BY <1>10, <2>2, <3>2 DEF w
    <3> QED
      BY <1>1, <3>1, <3>2
  <2> QED
    BY <2>3 DEF InvoiceHolds
<1>13. NothingArrived'
  <2>1. r.number # Nothing
    BY <1>2, HoldsAssumption
  <2>2. key = Nothing => brought = 0
    BY <2>1
  <2> HIDE DEF d, key, brought
  <2> QED
    BY <1>1, <1>2, <1>3, <2>2 DEF Booked, NothingArrived
<1>14. ReservedIsHolds'
  <2>1. ASSUME NEW v \in Rows
        PROVE  reserved'[v] = reserved[v] + SumOf(OnRow(HoldsOf(c), v))
    <3>1. CASE v = w
      BY <1>1, <1>7, <3>1, HoldsOfSum
    <3>2. CASE v # w
      <4>1. OnRow(HoldsOf(c), v) = {}
        BY <1>1, <3>2, HoldsOfSum
      <4>2. reserved'[v] = reserved[v] /\ reserved[v] \in Nat
        BY <1>3, <1>6, <3>2
      <4> QED
        BY <4>1, <4>2, SumOfNone
    <3> QED
      BY <3>1, <3>2
  <2> QED
    BY <1>1, <1>10, <1>11, <2>1, PlacedBooked DEF Booked
<1>15. StockIsExplained'
  <2>1. ASSUME NEW v \in Rows
        PROVE  onHand'[v] = InitialStock[v] - sold'[v] + Brought(v)'
    <3>1. onHand[v] = InitialStock[v] - sold[v] + Brought(v)
      BY ExplainedIs DEF Booked
    <3>2. /\ Brought(v) \in Int /\ onHand[v] \in Int /\ sold[v] \in Int
          /\ InitialStock[v] \in Int
      BY <1>3, BroughtTyped, HoldsAssumption
    <3>3. d \notin Standing(v) /\ IsFiniteSet(Standing(v))
      BY <1>2, BroughtTyped DEF Standing
    <3>4. /\ \A e \in Standing(v) : arrived'[e] = arrived[e] /\ arrived'[e] \in Int
          /\ arrived'[d] = brought
      BY <1>1, <1>2, <1>3, <3>3 DEF Standing
    <3>5. SumFunctionOnSet(arrived', Standing(v)) = Brought(v)
      BY <3>3, <3>4, SumSame DEF Brought
    <3>6. CASE v = w
      <4>1. Standing(v)' = Standing(v) \cup {d}
        BY <1>1, <1>2, <1>3, <3>6 DEF Standing
      <4> HIDE DEF d, brought
      <4>2. \A e \in Standing(v) \cup {d} : arrived'[e] \in Int
        BY <1>3, <3>4
      <4>3. SumFunctionOnSet(arrived', Standing(v) \cup {d})
              = arrived'[d] + SumFunctionOnSet(arrived', Standing(v))
        BY <3>3, <4>2, SumPutIn
      <4>4. Brought(v)' = brought + Brought(v)
        BY <3>4, <3>5, <4>1, <4>3 DEF Brought
      <4>5. onHand'[v] = onHand[v] + brought
        BY <1>3, <1>4, <1>5, <3>2, <3>6
      <4> QED
        BY <1>1, <1>3, <3>1, <3>2, <4>4, <4>5
    <3>7. CASE v # w
      <4>1. Standing(v)' = Standing(v)
        BY <1>1, <1>2, <1>3, <3>7 DEF Standing
      <4>2. Brought(v)' = Brought(v)
        BY <3>5, <4>1 DEF Brought
      <4> QED
        BY <1>1, <1>6, <3>1, <3>7, <4>2
    <3> QED
      BY <3>6, <3>7
  <2> QED
    BY <2>1 DEF StockIsExplained, Brought, Standing
<1> QED
  BY <1>8, <1>9, <1>12, <1>13, <1>14, <1>15 DEF Booked

\* The holds of a handoff are new: its quote has none.
LEMMA PlannedNew ==
  ASSUME Typed, HandedOnce, NEW c \in Clerks, pc[c] = "handing", ~HandoffConflict(c),
         NEW p \in Projects
  PROVE  /\ HoldsPlanned(c, p) \in SUBSET HoldType /\ IsFiniteSet(HoldsPlanned(c, p))
         /\ HoldsPlanned(c, p) \cap holds = {}
         /\ \A h \in HoldsPlanned(c, p) :
              h.source = quote[c] /\ h.status = "ACTIVE" /\ h.row \in PlannedRows(c)
<1>1. quote[c] \in Quotes /\ handoff[quote[c]] = Nothing
  BY DEF HandedOnce, HandingNew, HandoffConflict
<1>2. HoldsPlanned(c, p) \subseteq HoldType /\ IsFiniteSet(HoldsPlanned(c, p))
  BY HoldsPlannedTyped
<1>3. \A h \in HoldsPlanned(c, p) :
        h.source = quote[c] /\ h.status = "ACTIVE" /\ h.row \in PlannedRows(c)
  BY DEF HoldsPlanned, Hold, PlannedRows
<1>4. \A h \in holds : h.source # quote[c]
  BY <1>1, HoldsAssumption DEF HandedOnce, HoldsNamed, OneProjectPerQuote
<1> QED
  BY <1>2, <1>3, <1>4

LEMMA HandoffBooked ==
  ASSUME Typed, HandedOnce, Booked, NEW c \in Clerks, Handoff(c)
  PROVE  Booked'
<1>1. /\ pc[c] = "handing" /\ ~HandoffConflict(c) /\ UNCHANGED <<onHand, sold, invoices>>
      /\ End(c) /\ Commit(PlannedRows(c) \cup {quote[c]})
  BY DEF Handoff
<1>2. PICK p \in Projects :
        /\ holds' = holds \cup HoldsPlanned(c, p)
        /\ reserved' = [w \in Rows |-> IF w \in PlannedRows(c)
                                   THEN reserved[w] + SumOf(OnRow(HoldsPlanned(c, p), w))
                                   ELSE reserved[w]]
  BY DEF Handoff
<1>3. /\ HoldsPlanned(c, p) \in SUBSET HoldType /\ IsFiniteSet(HoldsPlanned(c, p))
      /\ HoldsPlanned(c, p) \cap holds = {}
      /\ \A h \in HoldsPlanned(c, p) :
           h.source = quote[c] /\ h.status = "ACTIVE" /\ h.row \in PlannedRows(c)
  BY <1>1, PlannedNew
<1>4. UNCHANGED <<invoice, receipt, arrived>> /\ quote[c] \in Quotes
  BY <1>1 DEF invoices, Typed, InHand
<1>5. /\ pc'[c] # "recording"
      /\ \A e \in Clerks \ {c} :
           pc'[e] = pc[e] /\ request'[e] = request[e] /\ rowSeen'[e] = rowSeen[e]
  BY <1>1 DEF End, Goto, Typed, TypeOK
<1>6. SnapshotsTrue'
  <2> DEFINE changed == PlannedRows(c) \cup {quote[c]}
  <2>1. Typed /\ SnapshotsTrue /\ Commit(changed)
    BY <1>1 DEF Booked
  <2>2. \A w \in Rows \ changed : onHand'[w] = onHand[w] /\ reserved'[w] = reserved[w]
    BY <1>1, <1>2
  <2> HIDE DEF changed
  <2> QED
    BY <1>5, <2>1, <2>2, SnapshotsKept
<1>7. RecordedOnce'
  BY <1>4, <1>5, RecordedKept DEF Booked
<1>8. InvoiceHolds' /\ NothingArrived'
  BY <1>2, <1>3, <1>4, HoldsAssumption DEF Booked, InvoiceHolds, NothingArrived
<1>9. ReservedIsHolds'
  <2>1. ASSUME NEW w \in Rows
        PROVE  reserved'[w] = reserved[w] + SumOf(OnRow(HoldsPlanned(c, p), w))
    <3>1. CASE w \in PlannedRows(c)
      BY <1>2, <3>1
    <3>2. CASE w \notin PlannedRows(c)
      <4>1. OnRow(HoldsPlanned(c, p), w) = {}
        BY <1>3, <3>2 DEF OnRow
      <4>2. reserved[w] \in Nat
        BY DEF Typed, TypeOK
      <4> QED
        BY <1>2, <3>2, <4>1, <4>2, SumOfNone
    <3> QED
      BY <3>1, <3>2
  <2> QED
    BY <1>2, <1>3, <2>1, PlacedBooked DEF Booked
<1>10. StockIsExplained'
  BY <1>1, <1>4, ExplainedKept DEF Booked
<1> QED
  BY <1>6, <1>7, <1>8, <1>9, <1>10 DEF Booked

LEMMA StepBooked == Typed /\ HandedOnce /\ Booked /\ [Next]_vars => Booked'
<1> SUFFICES ASSUME Typed, HandedOnce, Booked, [Next]_vars PROVE Booked'
  OBVIOUS
<1>1. \E c : c \notin Clerks
  BY NoSetContainsEverything
<1>2. CASE UNCHANGED vars
  <2>1. UNCHANGED <<stock, invoices, pc, request, rowSeen, moved>>
    BY <1>2 DEF vars, clerks, recording
  <2>2. UNCHANGED <<onHand, reserved, sold, holds, invoice, receipt, arrived>>
    BY <2>1 DEF stock, invoices
  <2>3. SnapshotsTrue' /\ RecordedOnce' /\ InvoiceHolds' /\ NothingArrived'
    BY <2>1, <2>2 DEF Booked, SnapshotsTrue, RecordedOnce, InvoiceHolds, NothingArrived
  <2>4. ReservedIsHolds'
    BY <2>2 DEF Booked, ReservedIsHolds, Active
  <2>5. StockIsExplained'
    BY <2>2, ExplainedKept DEF Booked
  <2> QED
    BY <2>3, <2>4, <2>5 DEF Booked
<1>3. ASSUME NEW h \in holds, Release(h)
      PROVE  Booked'
  <2>1. /\ ReleaseAll({h}) /\ Commit({h.row}) /\ UNCHANGED <<onHand, sold, invoices>>
        /\ UNCHANGED <<pc, request, rowSeen>>
    BY <1>3 DEF Release, clerks, recording
  <2>2. RowsOf(StillActive({h})) \subseteq {h.row}
    BY DEF RowsOf, StillActive
  <2> QED
    BY <1>1, <2>1, <2>2, ReleasedBooked
<1>4. ASSUME NEW d \in Invoices, NEW n \in Numbers, Rename(d, n)
      PROVE  Booked'
  <2>1. /\ receipt' = [receipt EXCEPT ![d] = IF receipt[d] = Nothing THEN Nothing ELSE n]
        /\ UNCHANGED <<stock, invoice, arrived, pc, request, rowSeen>> /\ Commit({})
    BY <1>4 DEF Rename, clerks, recording
  <2>2. UNCHANGED <<onHand, reserved, sold, holds>>
    BY <2>1 DEF stock
  <2>3. SnapshotsTrue'
    BY <1>1, <2>1, <2>2, SnapshotsKept DEF Booked
  <2>4. RecordedOnce' /\ InvoiceHolds'
    BY <2>1, <2>2 DEF Booked, RecordedOnce, InvoiceHolds
  <2>5. NothingArrived'
    BY <2>1, HoldsAssumption DEF Booked, NothingArrived, Typed, TypeOK
  <2>6. ReservedIsHolds'
    BY <2>2 DEF Booked, ReservedIsHolds, Active
  <2>7. StockIsExplained'
    BY <2>1, <2>2, ExplainedKept DEF Booked
  <2> QED
    BY <2>3, <2>4, <2>5, <2>6, <2>7 DEF Booked
<1>5. ASSUME NEW c \in Clerks, End(c)
      PROVE  /\ pc'[c] # "recording"
             /\ \A d \in Clerks \ {c} :
                  pc'[d] = pc[d] /\ request'[d] = request[d] /\ rowSeen'[d] = rowSeen[d]
  BY <1>5 DEF End, Goto, Typed, TypeOK
<1>6. ASSUME NEW c \in Clerks, Close(c)
      PROVE  Booked'
  <2> DEFINE changed == RowsOf(StillActive(holdsSeen[c]))
  <2>1. /\ ReleaseAll(holdsSeen[c]) /\ Commit(changed) /\ UNCHANGED <<onHand, sold, invoices>>
        /\ End(c)
    BY <1>6 DEF Close
  <2>2. changed \subseteq changed
    OBVIOUS
  <2> HIDE DEF changed
  <2> QED
    BY <1>5, <2>1, <2>2, ReleasedBooked DEF changed
<1>7. ASSUME NEW c \in Clerks, RefuseInvoice(c) \/ AnswerHandoff(c) \/ Fail(c)
      PROVE  Booked'
  <2>1. End(c) /\ UNCHANGED <<stock, invoices>> /\ Commit({})
    BY <1>7 DEF RefuseInvoice, AnswerHandoff, Fail
  <2> QED
    BY <1>5, <2>1, NothingBooked
<1>8. ASSUME NEW c \in Clerks,
             \/ \E p \in Projects : BeginClose(c, p)
             \/ \E q \in Quotes : Preview(c, q)
             \/ BeginHandoff(c) \/ RetryHandoff(c)
      PROVE  Booked'
  <2>1. /\ \E s \in {"closing", "previewed", "handing"} : pc' = [pc EXCEPT ![c] = s]
        /\ UNCHANGED <<request, rowSeen, stock, invoices>> /\ Commit({})
    BY <1>8 DEF BeginClose, Preview, BeginHandoff, RetryHandoff, Goto, recording
  <2>2. /\ pc'[c] # "recording"
        /\ \A d \in Clerks \ {c} : pc'[d] = pc[d]
    BY <2>1 DEF Typed, TypeOK
  <2> QED
    BY <2>1, <2>2, NothingBooked
<1>9. ASSUME NEW c \in Clerks, NEW d \in Invoices, BeginInvoice(c, d)
      PROVE  Booked'
  <2>1. /\ invoice[d] = "none" /\ \A e \in Clerks : request[e].invoice # d
        /\ pc' = [pc EXCEPT ![c] = "recording"] /\ UNCHANGED <<stock, invoices>> /\ Commit({})
        /\ rowSeen' = [rowSeen EXCEPT ![c] =
             [onHand |-> onHand[RowOf[d]], reserved |-> reserved[RowOf[d]]]]
    BY <1>9 DEF BeginInvoice, Goto
  <2>2. /\ DOMAIN request = Clerks /\ DOMAIN rowSeen = Clerks /\ DOMAIN pc = Clerks
    BY DEF Typed, TypeOK
  <2>3. /\ \A e \in Clerks \ {c} : request'[e] = request[e]
        /\ request'[c].invoice = d
    BY <1>9, <2>2 DEF BeginInvoice
  <2>4. /\ \A e \in Clerks \ {c} : pc'[e] = pc[e] /\ rowSeen'[e] = rowSeen[e]
        /\ rowSeen'[c] = [onHand |-> onHand[RowOf[d]], reserved |-> reserved[RowOf[d]]]
    BY <2>1, <2>2
  <2> QED
    BY <2>1, <2>3, <2>4, NothingBooked
<1> QED
  BY <1>2, <1>3, <1>4, <1>6, <1>7, <1>8, <1>9, SellBooked, CancelBooked, PostBooked, HandoffBooked
  DEF Next

HoldsInvariant == Typed /\ HandedOnce /\ Booked

LEMMA HoldsInvariantHolds == Spec => []HoldsInvariant
<1>1. Init => HoldsInvariant
  BY InitTyped, InitHanded, InitBooked DEF HoldsInvariant
<1>2. HoldsInvariant /\ [Next]_vars => HoldsInvariant'
  BY StepTyped, StepHanded, StepBooked DEF HoldsInvariant
<1> QED
  BY <1>1, <1>2, PTL DEF Spec

\* Whoever places, releases, closes and cancels at once, what a stock row has
\* reserved is the sum of the active holds on it (reserved-reconciliation.ts).
THEOREM ReservedSumsHolds == Spec => []ReservedIsHolds
<1>1. HoldsInvariant => ReservedIsHolds
  BY DEF HoldsInvariant, Booked
<1> QED
  BY <1>1, HoldsInvariantHolds, PTL

\* Nothing but sales and standing invoices makes up what is on hand.
THEOREM StockExplained == Spec => []StockIsExplained
<1>1. HoldsInvariant => StockIsExplained
  BY DEF HoldsInvariant, Booked
<1> QED
  BY <1>1, HoldsInvariantHolds, PTL

LEMMA OnlyCancelCancels ==
  ASSUME Typed, [Next]_vars, NEW d \in Invoices, invoice[d] = "posted", invoice'[d] = "cancelled"
  PROVE  Cancel(d)
<1> USE DEF Typed, TypeOK
<1>1. UNCHANGED invoice => FALSE
  OBVIOUS
<1>2. ASSUME NEW e \in Invoices, Cancel(e) PROVE e = d
  BY <1>2 DEF Cancel
<1>3. ASSUME NEW c \in Clerks, PostInvoice(c) PROVE FALSE
  <2>1. invoice' = [invoice EXCEPT ![request[c].invoice] = "posted"]
    BY <1>3 DEF PostInvoice
  <2> QED
    BY <2>1
<1>4. CASE UNCHANGED vars
  BY <1>1, <1>4 DEF vars, invoices
<1>5. ASSUME NEW w \in Rows, Sell(w) PROVE FALSE
  BY <1>1, <1>5 DEF Sell, invoices
<1>6. ASSUME NEW h \in holds, Release(h) PROVE FALSE
  BY <1>1, <1>6 DEF Release, invoices
<1>7. ASSUME NEW e \in Invoices, NEW n \in Numbers, Rename(e, n) PROVE FALSE
  BY <1>1, <1>7 DEF Rename, invoices
<1>8. ASSUME NEW c \in Clerks, Close(c) \/ Handoff(c) PROVE FALSE
  BY <1>1, <1>8 DEF Close, Handoff, invoices
<1>9. ASSUME NEW c \in Clerks,
             \/ \E p \in Projects : BeginClose(c, p)
             \/ \E e \in Invoices : BeginInvoice(c, e)
             \/ \E q \in Quotes : Preview(c, q)
             \/ RefuseInvoice(c) \/ BeginHandoff(c) \/ AnswerHandoff(c)
             \/ RetryHandoff(c) \/ Fail(c)
      PROVE  FALSE
  BY <1>1, <1>9 DEF BeginClose, BeginInvoice, Preview, RefuseInvoice, BeginHandoff,
                    AnswerHandoff, RetryHandoff, Fail, invoices
<1> QED
  BY <1>2, <1>3, <1>4, <1>5, <1>6, <1>7, <1>8, <1>9 DEF Next

LEMMA CancelKeeps ==
  ASSUME HoldsInvariant, NEW d \in Invoices, Cancel(d), arrived[d] > 0
  PROVE  onHand'[RowOf[d]] >= SumOf(OnRow({h \in holds' : h.status = "ACTIVE"}, RowOf[d]))
<1> DEFINE w == RowOf[d]
           own == OwnHolds(d)
<1> USE DEF HoldsInvariant
<1>1. /\ receipt[d] # Nothing => CanGoOut(d)
      /\ onHand' = [onHand EXCEPT ![w] = IF receipt[d] = Nothing THEN @ ELSE @ - arrived[d]]
      /\ ReleaseAll(own)
  BY DEF Cancel
<1>2. /\ w \in Rows /\ onHand \in [Rows -> Int] /\ reserved \in [Rows -> Nat]
      /\ arrived[d] \in Nat
  BY HoldsAssumption DEF Typed, TypeOK
<1>3. receipt[d] # Nothing
  BY DEF Booked, NothingArrived
<1>4. StillActive(own) = own /\ OnRow(own, w) = own
  BY DEF StillActive, OwnHolds, Active, OnRow, Booked, InvoiceHolds
<1>5. SumOf(own) \in Nat
  BY <1>4, ActiveTyped, SumOfNat
<1>6. onHand[w] - (reserved[w] - SumOf(own)) >= arrived[d] /\ onHand'[w] = onHand[w] - arrived[d]
  <2>1. onHand[w] - (reserved[w] - SumOf(own)) >= arrived[d]
    BY <1>1, <1>3 DEF CanGoOut
  <2> HIDE DEF own, w
  <2> QED
    BY <1>1, <1>2, <1>3, <2>1
<1>7. reserved'[w] = reserved[w] - SumOf(own)
  <2>1. reserved'[w] = IF w \in RowsOf(StillActive(own))
                       THEN reserved[w] - SumOf(OnRow(StillActive(own), w)) ELSE reserved[w]
    BY <1>1, <1>2 DEF ReleaseAll
  <2>2. w \notin RowsOf(own) => OnRow(own, w) = {}
    BY DEF RowsOf, OnRow
  <2> HIDE DEF own, w
  <2>3. w \notin RowsOf(own) => SumOf(own) = 0
    BY <1>4, <2>2, SumOfNone
  <2> QED
    BY <1>2, <1>4, <2>1, <2>3
<1>8. reserved'[w] = SumOf(OnRow({h \in holds' : h.status = "ACTIVE"}, w))
  BY <1>1, <1>2, ReleaseBooked DEF Booked, ReservedIsHolds, Active
<1> HIDE DEF w, own
<1>9. onHand'[w] >= reserved'[w]
  BY <1>2, <1>6, <1>5, <1>7
<1> QED
  BY <1>8, <1>9 DEF w

\* A cancelled invoice takes out nothing that is held for others: what is left on
\* its row covers every hold that is still active there (CanGoOut).
THEOREM CancellationsLeaveHeld == Spec => CancelLeavesHeld
<1>1. HoldsInvariant /\ [Next]_vars =>
        [\A d \in Invoices :
           invoice[d] = "posted" /\ invoice'[d] = "cancelled" /\ arrived[d] > 0 =>
             onHand'[RowOf[d]] >= SumOf(OnRow({h \in holds' : h.status = "ACTIVE"}, RowOf[d]))]_vars
  BY OnlyCancelCancels, CancelKeeps DEF HoldsInvariant
<1> QED
  BY <1>1, HoldsInvariantHolds, PTL DEF Spec, CancelLeavesHeld

-----------------------------------------------------------------------------
(* A handoff holds what is free.                                           *)

\* What the lines of a clerk's plan take from a row together.
PlannedFrom(c, k) ==
  SumFunctionOnSet([i \in DOMAIN plan[c] |-> plan[c][i][k]], DOMAIN plan[c])

\* A row nobody has changed since the snapshot still has what the plan takes.
PlansCovered == \A c \in Clerks : pc[c] = "handing" =>
  \A k \in DOMAIN Order :
    Order[k] \notin moved[c] => PlannedFrom(c, k) <= Positive(Free(Order[k]))

LEMMA PlanNowCovered ==
  ASSUME Typed, NEW c \in Clerks, pc[c] = "previewed", plan[c] = PlanNow(quote[c]),
         NEW k \in DOMAIN Order
  PROVE  PlannedFrom(c, k) <= Positive(Free(Order[k]))
<1> DEFINE needed == Needed[quote[c]]
           n == Len(needed)
           free == [j \in DOMAIN Order |-> Free(Order[j])]
<1>1. needed \in Seq(Nat) /\ Order \in Seq(Rows) /\ k \in Nat \ {0} /\ 1..k \subseteq DOMAIN Order
  BY HoldsAssumption DEF Typed, InHand
<1>2. n \in Nat /\ DOMAIN needed = 1..n
  BY <1>1
<1>3. \A w \in Rows : Free(w) \in Int
  BY DEF Free, Typed, TypeOK
<1>4. \A j \in 1..k : free[j] \in Int
  BY <1>1, <1>3
<1>5. Numbers1(needed, n) /\ Numbers1(free, k)
  BY <1>1, <1>2, <1>4 DEF Numbers1
<1>6. plan[c] = [i \in 1..n |-> [j \in DOMAIN Order |-> Share(needed, free, i, j)]]
  BY <1>2 DEF PlanNow, Shares
<1>7. PlannedFrom(c, k) = TakenBy(needed, free, n, k)
  <2>1. DOMAIN plan[c] = 1..n
    BY <1>6
  <2>2. \A i \in 1..n : plan[c][i][k] = Share(needed, free, i, k)
    BY <1>6
  <2> HIDE DEF needed, n, free
  <2>3. [i \in DOMAIN plan[c] |-> plan[c][i][k]] = [i \in 1..n |-> Share(needed, free, i, k)]
    BY <2>1, <2>2
  <2> QED
    BY <2>1, <2>3 DEF PlannedFrom, TakenBy
<1>8. free[k] = Free(Order[k])
  OBVIOUS
<1> HIDE DEF needed, n, free
<1>9. TakenBy(needed, free, n, k) <= Positive(free[k])
  BY <1>1, <1>2, <1>5, TakenIsFree
<1> QED
  BY <1>7, <1>8, <1>9

\* What a handoff holds of a row is what its plan takes from it.
LEMMA HoldsPlannedSum ==
  ASSUME Typed, NEW c \in Clerks, pc[c] = "handing", NEW p \in Projects, NEW k \in DOMAIN Order
  PROVE  SumOf(OnRow(HoldsPlanned(c, p), Order[k])) = PlannedFrom(c, k)
<1> DEFINE lines == DOMAIN plan[c]
           some == {i \in lines : plan[c][i][k] > 0}
           rest == {i \in lines : ~(plan[c][i][k] > 0)}
           h == [i \in some |-> Hold(quote[c], i, p, Order[k], plan[c][i][k])]
           T == OnRow(HoldsPlanned(c, p), Order[k])
           f == [g \in T |-> g.quantity]
           g == [i \in lines |-> plan[c][i][k]]
<1>1. /\ Needed[quote[c]] \in Seq(Nat)
      /\ plan[c] \in [DOMAIN Needed[quote[c]] -> [DOMAIN Order -> Nat]]
  BY HoldsAssumption DEF Typed, InHand
<1>2. IsFiniteSet(lines) /\ IsFiniteSet(some) /\ IsFiniteSet(rest)
  <2>1. lines = 1..Len(Needed[quote[c]]) /\ Len(Needed[quote[c]]) \in Nat
    BY <1>1
  <2>2. IsFiniteSet(lines)
    BY <2>1, FS_Interval
  <2>3. some \subseteq lines /\ rest \subseteq lines
    OBVIOUS
  <2> HIDE DEF lines, some, rest
  <2> QED
    BY <2>2, <2>3, FS_Subset
<1>3. \A i \in lines : g[i] = plan[c][i][k] /\ g[i] \in Nat
  BY <1>1
<1>4. \A i, j \in some : h[i] = h[j] => i = j
  <2> TAKE i, j \in some
  <2>1. h[i].item = i /\ h[j].item = j
    BY DEF Hold
  <2> QED
    BY <2>1
<1>5. \A y : y \in T <=> \E i \in some : y = h[i]
  <2>1. ASSUME NEW i \in some PROVE h[i] \in T
    <3>1. <<i, k>> \in Planned(c)
      BY <1>1 DEF Planned
    <3>2. h[i] \in HoldsPlanned(c, p)
      BY <3>1 DEF HoldsPlanned
    <3>3. h[i].row = Order[k]
      BY DEF Hold
    <3> QED
      BY <3>2, <3>3 DEF OnRow
  <2>2. ASSUME NEW y \in T PROVE \E i \in some : y = h[i]
    <3>1. PICK ik \in Planned(c) :
            y = Hold(quote[c], ik[1], p, Order[ik[2]], plan[c][ik[1]][ik[2]])
      BY DEF OnRow, HoldsPlanned
    <3>2. Order[ik[2]] = Order[k]
      BY <3>1 DEF OnRow, Hold
    <3>3. ik[2] = k /\ ik[1] \in some
      BY <3>2, HoldsAssumption DEF Planned
    <3> QED
      BY <3>1, <3>3
  <2> HIDE DEF T, h, some
  <2> QED
    BY <2>1, <2>2
<1>6. \A i \in some : f[h[i]] \in Int /\ g[i] = f[h[i]]
  <2> TAKE i \in some
  <2>1. h[i] \in T
    BY <1>5
  <2>2. h[i].quantity = plan[c][i][k]
    BY DEF Hold
  <2>3. i \in lines /\ g[i] = plan[c][i][k] /\ g[i] \in Nat
    BY <1>3
  <2>4. f[h[i]] = h[i].quantity
    BY <2>1
  <2> HIDE DEF f, h, g
  <2> QED
    BY <2>2, <2>3, <2>4
<1>7. \A i \in rest : g[i] = 0
  BY <1>3
<1>8. lines = some \cup rest /\ some \cap rest = {}
  OBVIOUS
<1>9. SumOf(T) = SumFunctionOnSet(f, T) /\ PlannedFrom(c, k) = SumFunctionOnSet(g, lines)
  BY DEF SumOf, PlannedFrom
<1>10. \A i \in some : g[i] \in Int
  BY <1>3, <1>8
<1> HIDE DEF lines, some, rest, h, T, f, g
<1>11. SumFunctionOnSet(f, T) = SumFunctionOnSet(g, some)
  BY <1>2, <1>4, <1>5, <1>6, SumImage
<1>12. SumFunctionOnSet(g, lines) = SumFunctionOnSet(g, some) + SumFunctionOnSet(g, rest)
  <2>1. \A i \in some \cup rest : g[i] \in Int
    BY <1>3, <1>8
  <2> QED
    BY <1>2, <1>8, <2>1, SumDisjoint
<1>13. SumFunctionOnSet(g, rest) = 0 /\ SumFunctionOnSet(g, some) \in Int
  BY <1>2, <1>7, <1>10, SumZero, SumType
<1> QED
  BY <1>9, <1>11, <1>12, <1>13 DEF T

LEMMA PlansKept ==
  ASSUME Typed, PlansCovered, NEW changed, Commit(changed), NEW c,
         \A w \in Rows \ changed : onHand'[w] = onHand[w] /\ reserved'[w] = reserved[w],
         \A d \in Clerks \ {c} : pc'[d] = pc[d] /\ plan'[d] = plan[d],
         c \in Clerks /\ pc'[c] = "handing" =>
           \A k \in DOMAIN Order : PlannedFrom(c, k)' <= Positive(Free(Order[k])')
  PROVE  PlansCovered'
<1>1. ASSUME NEW d \in Clerks, d # c, pc'[d] = "handing", NEW k \in DOMAIN Order,
             Order[k] \notin moved'[d]
      PROVE  PlannedFrom(d, k)' <= Positive(Free(Order[k])')
  <2>1. pc[d] = "handing" /\ plan'[d] = plan[d] /\ moved'[d] = moved[d] \cup changed
    BY <1>1 DEF Commit
  <2>2. Order[k] \in Rows
    BY HoldsAssumption
  <2>3. onHand'[Order[k]] = onHand[Order[k]] /\ reserved'[Order[k]] = reserved[Order[k]]
    BY <1>1, <2>1, <2>2
  <2>4. PlannedFrom(d, k) <= Positive(Free(Order[k]))
    BY <1>1, <2>1 DEF PlansCovered
  <2>5. PlannedFrom(d, k)' = PlannedFrom(d, k) /\ Free(Order[k])' = Free(Order[k])
    BY <2>1, <2>3 DEF PlannedFrom, Free
  <2> QED
    BY <2>4, <2>5
<1> QED
  BY <1>1 DEF PlansCovered

LEMMA StepCovered == HoldsInvariant /\ PlansCovered /\ [Next]_vars => PlansCovered'
<1> SUFFICES ASSUME HoldsInvariant, PlansCovered, [Next]_vars PROVE PlansCovered'
  OBVIOUS
<1> USE DEF HoldsInvariant
<1>1. \E c : c \notin Clerks
  BY NoSetContainsEverything
<1>2. /\ onHand \in [Rows -> Int] /\ reserved \in [Rows -> Nat]
      /\ DOMAIN pc = Clerks /\ DOMAIN plan = Clerks
  BY DEF Typed, TypeOK
<1>3. ASSUME NEW changed, Commit(changed), UNCHANGED clerks,
             \A w \in Rows \ changed : onHand'[w] = onHand[w] /\ reserved'[w] = reserved[w]
      PROVE  PlansCovered'
  <2>1. UNCHANGED <<pc, plan>>
    BY <1>3 DEF clerks, handing
  <2> QED
    BY <1>1, <1>3, <2>1, PlansKept
<1>4. ASSUME NEW changed, Commit(changed), NEW c \in Clerks, End(c),
             \A w \in Rows \ changed : onHand'[w] = onHand[w] /\ reserved'[w] = reserved[w]
      PROVE  PlansCovered'
  <2>1. /\ pc'[c] # "handing"
        /\ \A d \in Clerks \ {c} : pc'[d] = pc[d] /\ plan'[d] = plan[d]
    BY <1>2, <1>4 DEF End, Goto
  <2> QED
    BY <1>4, <2>1, PlansKept
<1>5. ASSUME NEW listed, NEW changed, ReleaseAll(listed), UNCHANGED onHand,
             RowsOf(StillActive(listed)) \subseteq changed
      PROVE  \A w \in Rows \ changed : onHand'[w] = onHand[w] /\ reserved'[w] = reserved[w]
  BY <1>5 DEF ReleaseAll
<1>6. CASE UNCHANGED vars
  <2>1. UNCHANGED <<onHand, reserved, pc, plan, moved>>
    BY <1>6 DEF vars, stock, clerks, handing
  <2> QED
    BY <2>1 DEF PlansCovered, PlannedFrom, Free
<1>7. ASSUME NEW w \in Rows, Sell(w)
      PROVE  PlansCovered'
  <2>1. /\ onHand' = [onHand EXCEPT ![w] = @ - 1] /\ UNCHANGED reserved
        /\ UNCHANGED clerks /\ Commit({w})
    BY <1>7 DEF Sell
  <2>2. \A v \in Rows \ {w} : onHand'[v] = onHand[v] /\ reserved'[v] = reserved[v]
    BY <2>1
  <2> QED
    BY <1>3, <2>1, <2>2
<1>8. ASSUME NEW h \in holds, Release(h)
      PROVE  PlansCovered'
  <2>1. ReleaseAll({h}) /\ UNCHANGED onHand /\ UNCHANGED clerks /\ Commit({h.row})
    BY <1>8 DEF Release
  <2>2. RowsOf(StillActive({h})) \subseteq {h.row}
    BY DEF RowsOf, StillActive
  <2>3. \A v \in Rows \ {h.row} : onHand'[v] = onHand[v] /\ reserved'[v] = reserved[v]
    BY <1>5, <2>1, <2>2
  <2> QED
    BY <1>3, <2>1, <2>3
<1>9. ASSUME NEW d \in Invoices, Cancel(d)
      PROVE  PlansCovered'
  <2> DEFINE changed == RowsOf(OwnHolds(d))
                          \cup (IF receipt[d] = Nothing THEN {} ELSE {RowOf[d]})
  <2>1. /\ ReleaseAll(OwnHolds(d)) /\ UNCHANGED clerks /\ Commit(changed)
        /\ onHand' = [onHand EXCEPT ![RowOf[d]] =
                         IF receipt[d] = Nothing THEN @ ELSE @ - arrived[d]]
    BY <1>9 DEF Cancel
  <2>2. ASSUME NEW v \in Rows \ changed
        PROVE  onHand'[v] = onHand[v] /\ reserved'[v] = reserved[v]
    <3>1. onHand'[v] = onHand[v]
      BY <1>2, <2>1
    <3>2. v \notin RowsOf(StillActive(OwnHolds(d)))
      BY DEF RowsOf, StillActive
    <3> QED
      BY <2>1, <3>1, <3>2 DEF ReleaseAll
  <2> HIDE DEF changed
  <2> QED
    BY <1>3, <2>1, <2>2
<1>10. ASSUME NEW d \in Invoices, NEW n \in Numbers, Rename(d, n)
       PROVE  PlansCovered'
  <2>1. UNCHANGED <<onHand, reserved>> /\ UNCHANGED clerks /\ Commit({})
    BY <1>10 DEF Rename, stock
  <2> QED
    BY <1>3, <2>1
<1>11. ASSUME NEW c \in Clerks, Close(c)
       PROVE  PlansCovered'
  <2> DEFINE changed == RowsOf(StillActive(holdsSeen[c]))
  <2>1. ReleaseAll(holdsSeen[c]) /\ UNCHANGED onHand /\ End(c) /\ Commit(changed)
    BY <1>11 DEF Close
  <2>2. changed \subseteq changed
    OBVIOUS
  <2>3. \A v \in Rows \ changed : onHand'[v] = onHand[v] /\ reserved'[v] = reserved[v]
    BY <1>5, <2>1, <2>2
  <2> HIDE DEF changed
  <2> QED
    BY <1>4, <2>1, <2>3
<1>12. ASSUME NEW c \in Clerks, PostInvoice(c)
       PROVE  PlansCovered'
  <2> DEFINE w == RowOf[request[c].invoice]
             changed == IF WritesRow(c) THEN {w} ELSE {}
  <2>1. End(c) /\ Commit(changed)
    BY <1>12 DEF PostInvoice
  <2>2. /\ onHand' = [onHand EXCEPT ![w] =
                        IF AlreadyPosted(c) THEN @
                        ELSE rowSeen[c].onHand
                               + (IF AlreadyPosted(c) THEN 0 ELSE request[c].amount)]
        /\ reserved' = [reserved EXCEPT ![w] =
                          IF HoldsOf(c) = {} THEN @
                          ELSE rowSeen[c].reserved + Total(request[c].allocation)]
    BY <1>12 DEF PostInvoice
  <2>3. ASSUME NEW v \in Rows \ changed
        PROVE  onHand'[v] = onHand[v] /\ reserved'[v] = reserved[v]
    <3>1. CASE v # w
      BY <1>2, <2>2, <3>1
    <3>2. CASE v = w
      BY <1>2, <2>2, <2>3, <3>2 DEF WritesRow
    <3> QED
      BY <3>1, <3>2
  <2> HIDE DEF changed
  <2> QED
    BY <1>4, <2>1, <2>3
<1>13. ASSUME NEW c \in Clerks, RefuseInvoice(c) \/ AnswerHandoff(c) \/ Fail(c)
       PROVE  PlansCovered'
  <2>1. End(c) /\ UNCHANGED <<onHand, reserved>> /\ Commit({})
    BY <1>13 DEF RefuseInvoice, AnswerHandoff, Fail, stock
  <2> QED
    BY <1>4, <2>1
<1>14. ASSUME NEW c \in Clerks,
              \/ \E p \in Projects : BeginClose(c, p)
              \/ \E d \in Invoices : BeginInvoice(c, d)
              \/ \E q \in Quotes : Preview(c, q)
              \/ RetryHandoff(c)
       PROVE  PlansCovered'
  <2>1. /\ \E s \in {"closing", "recording", "previewed"} : pc' = [pc EXCEPT ![c] = s]
        /\ UNCHANGED <<onHand, reserved>> /\ Commit({})
        /\ \A d \in Clerks \ {c} : plan'[d] = plan[d]
    BY <1>2, <1>14 DEF BeginClose, BeginInvoice, Preview, RetryHandoff, Goto, stock, handing
  <2>2. pc'[c] # "handing" /\ \A d \in Clerks \ {c} : pc'[d] = pc[d]
    BY <1>2, <2>1
  <2> QED
    BY <2>1, <2>2, PlansKept
<1>15. ASSUME NEW c \in Clerks, BeginHandoff(c)
       PROVE  PlansCovered'
  <2>1. /\ pc[c] = "previewed" /\ plan[c] = PlanNow(quote[c])
        /\ UNCHANGED <<onHand, reserved, plan>> /\ Commit({})
        /\ \A d \in Clerks \ {c} : pc'[d] = pc[d]
    BY <1>2, <1>15 DEF BeginHandoff, Goto, stock, handing
  <2>2. \A k \in DOMAIN Order : PlannedFrom(c, k)' <= Positive(Free(Order[k])')
    <3> TAKE k \in DOMAIN Order
    <3>1. PlannedFrom(c, k) <= Positive(Free(Order[k]))
      BY <2>1, PlanNowCovered
    <3>2. PlannedFrom(c, k)' = PlannedFrom(c, k) /\ Free(Order[k])' = Free(Order[k])
      BY <2>1 DEF PlannedFrom, Free
    <3> QED
      BY <3>1, <3>2
  <2> QED
    BY <2>1, <2>2, PlansKept
<1>16. ASSUME NEW c \in Clerks, Handoff(c)
       PROVE  PlansCovered'
  <2>1. UNCHANGED onHand /\ End(c) /\ Commit(PlannedRows(c) \cup {quote[c]})
    BY <1>16 DEF Handoff
  <2>2. PICK p \in Projects :
          reserved' = [w \in Rows |-> IF w \in PlannedRows(c)
                                     THEN reserved[w] + SumOf(OnRow(HoldsPlanned(c, p), w))
                                     ELSE reserved[w]]
    BY <1>16 DEF Handoff
  <2>3. \A v \in Rows \ (PlannedRows(c) \cup {quote[c]}) :
          onHand'[v] = onHand[v] /\ reserved'[v] = reserved[v]
    BY <2>1, <2>2
  <2> QED
    BY <1>4, <2>1, <2>3
<1> QED
  BY <1>6, <1>7, <1>8, <1>9, <1>10, <1>11, <1>12, <1>13, <1>14, <1>15, <1>16 DEF Next

LEMMA OnlyHandoffHandsOff ==
  ASSUME [Next]_vars, handoff' # handoff
  PROVE  \E c \in Clerks : Handoff(c)
BY DEF Next, vars, projects, Sell, Release, Cancel, Rename, BeginClose, BeginInvoice, Preview,
       Close, PostInvoice, RefuseInvoice, BeginHandoff, AnswerHandoff, RetryHandoff, Fail

LEMMA HandoffTakesFree ==
  ASSUME HoldsInvariant, PlansCovered, NEW c \in Clerks, Handoff(c),
         NEW w \in Rows, reserved'[w] > reserved[w]
  PROVE  reserved'[w] <= onHand'[w]
<1> USE DEF HoldsInvariant
<1>1. pc[c] = "handing" /\ ~HandoffConflict(c) /\ UNCHANGED onHand
  BY DEF Handoff
<1>2. PICK p \in Projects :
        reserved' = [v \in Rows |-> IF v \in PlannedRows(c)
                                    THEN reserved[v] + SumOf(OnRow(HoldsPlanned(c, p), v))
                                    ELSE reserved[v]]
  BY DEF Handoff
<1>3. onHand[w] \in Int /\ reserved[w] \in Nat
  BY DEF Typed, TypeOK
<1>4. w \in PlannedRows(c) /\ reserved'[w] = reserved[w] + SumOf(OnRow(HoldsPlanned(c, p), w))
  BY <1>2, <1>3
<1>5. PICK k \in DOMAIN Order : w = Order[k]
  BY <1>4 DEF PlannedRows, Planned
<1>6. w \notin moved[c]
  BY <1>1, <1>4 DEF HandoffConflict
<1>7. PlannedFrom(c, k) <= Positive(Free(w))
  BY <1>1, <1>5, <1>6 DEF PlansCovered
<1>8. SumOf(OnRow(HoldsPlanned(c, p), w)) = PlannedFrom(c, k)
  BY <1>1, <1>5, HoldsPlannedSum
<1>9. PlannedFrom(c, k) \in Nat
  <2>1. HoldsPlanned(c, p) \in SUBSET HoldType /\ IsFiniteSet(HoldsPlanned(c, p))
    BY <1>1, HoldsPlannedTyped
  <2> QED
    BY <1>8, <2>1, OnRowTyped
<1>10. PlannedFrom(c, k) > 0
  BY <1>3, <1>4, <1>8, <1>9
<1>11. PlannedFrom(c, k) <= onHand[w] - reserved[w]
  BY <1>3, <1>7, <1>9, <1>10 DEF Positive, Larger, Free
<1> QED
  BY <1>1, <1>3, <1>4, <1>8, <1>9, <1>11

\* A handoff holds only stock that is free, whatever was sold, held or cancelled
\* since its snapshot: a row it holds of has no more held than is there.
THEOREM HandoffsHoldFree == Spec => HandoffHoldsFreeStock
<1>1. Init => PlansCovered
  BY DEF Init, PlansCovered
<1>2. HoldsInvariant /\ PlansCovered /\ [Next]_vars =>
        [\A q \in Quotes : handoff'[q] # handoff[q] =>
           \A w \in Rows : reserved'[w] > reserved[w] => reserved'[w] <= onHand'[w]]_vars
  <2> SUFFICES ASSUME HoldsInvariant, PlansCovered, [Next]_vars,
                      NEW q \in Quotes, handoff'[q] # handoff[q],
                      NEW w \in Rows, reserved'[w] > reserved[w]
               PROVE  reserved'[w] <= onHand'[w]
    OBVIOUS
  <2>1. PICK c \in Clerks : Handoff(c)
    BY OnlyHandoffHandsOff
  <2> QED
    BY <2>1, HandoffTakesFree
<1> QED
  BY <1>1, <1>2, StepCovered, HoldsInvariantHolds, PTL DEF Spec, HandoffHoldsFreeStock
=============================================================================
