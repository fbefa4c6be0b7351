----------------------- MODULE StockSyncOutboxProofs -----------------------
(***************************************************************************)
(* Theorems about StockSyncOutbox, for any pools, workers and bounds.      *)
(***************************************************************************)
EXTENDS StockSyncOutbox, TLAPS

(***************************************************************************)
(* Type correctness                                                        *)
(***************************************************************************)
LEMMA TypeInit == Init => TypeOK
  BY ConfigAssumption DEF Init, TypeOK, PcValues, View, Unseen

\* The steps that write the outbox, each from what it does to one row.
LEMMA MarkType ==
  ASSUME TypeOK, NEW i \in 1 .. lastSequence,
         NEW s \in Statuses \ {"PROCESSING"}, NEW n \in Notes, NEW d \in BOOLEAN,
         Mark(i, s, n, d), lastSequence' = lastSequence
  PROVE  /\ outbox' \in [1 .. lastSequence' -> Row]
         /\ \A j \in 1 .. lastSequence' :
              outbox'[j].lease = "none" <=> outbox'[j].status # "PROCESSING"
  <1> DEFINE r == [outbox[i] EXCEPT !.status = s, !.note = n, !.due = d,
                                    !.lease = "none"]
  <1>1. outbox[i] \in Row
    BY DEF TypeOK
  <1>2. r \in Row /\ r.lease = "none" /\ r.status # "PROCESSING"
    BY <1>1 DEF Row
  <1>3. outbox' = [outbox EXCEPT ![i] = r]
    BY DEF Mark
  <1> HIDE DEF r
  <1>. QED BY <1>2, <1>3 DEF TypeOK

LEMMA FinishedType ==
  ASSUME TypeOK, NEW w \in Workers, NEW i \in 1 .. lastSequence,
         Finished(w, i), lastSequence' = lastSequence
  PROVE  /\ pc' \in [Workers -> PcValues]
         /\ todo' \in [Workers -> SUBSET (1 .. lastSequence')]
         /\ attempt' \in [Workers -> [1 .. MaxRows -> Nat]]
         /\ cur' \in [Workers -> 0 .. lastSequence']
         /\ \A v \in Workers : pc'[v] \notin {"idle", "next"} => cur'[v] \in todo'[v]
         /\ token' \in [Workers -> BOOLEAN]
         /\ qty' \in [Workers -> Nat] /\ stamp' \in [Workers -> Nat]
         /\ calls' \in [Workers -> Nat]
         /\ overtaken' \in [Workers -> BOOLEAN] /\ lateMarks' \subseteq 1 .. lastSequence'
  <1> DEFINE rest == todo[w] \ {i}
  <1>1. rest \in SUBSET (1 .. lastSequence)
    BY DEF TypeOK
  <1>2. todo' = [todo EXCEPT ![w] = rest]
    BY DEF Finished
  <1>3. attempt' = [attempt EXCEPT ![w] = [@ EXCEPT ![i] = 0]]
    BY DEF Finished
  <1>4. pc' = [pc EXCEPT ![w] = IF rest = {} THEN "idle" ELSE "next"]
    BY DEF Finished
  <1>5. token' = [token EXCEPT ![w] = rest # {} /\ @]
    BY DEF Finished
  <1>6. calls' = [calls EXCEPT ![w] = IF rest = {} THEN 0 ELSE @]
    BY DEF Finished
  <1>7. /\ cur' = [cur EXCEPT ![w] = 0]
        /\ qty' = [qty EXCEPT ![w] = 0] /\ stamp' = [stamp EXCEPT ![w] = 0]
    BY DEF Finished
  <1> HIDE DEF rest
  <1>8. todo' \in [Workers -> SUBSET (1 .. lastSequence')]
    BY <1>1, <1>2 DEF TypeOK
  <1>9. pc' \in [Workers -> PcValues] /\ pc'[w] \in {"idle", "next"}
          /\ \A v \in Workers \ {w} : pc'[v] = pc[v]
    BY <1>4 DEF TypeOK, PcValues
  <1>10. /\ cur' \in [Workers -> 0 .. lastSequence']
         /\ qty' \in [Workers -> Nat] /\ stamp' \in [Workers -> Nat]
    BY <1>7 DEF TypeOK
  <1>11. calls' \in [Workers -> Nat]
    BY <1>6 DEF TypeOK
  <1>12. token' \in [Workers -> BOOLEAN]
    BY <1>5, Zenon DEF TypeOK
  <1>13. attempt' \in [Workers -> [1 .. MaxRows -> Nat]]
    BY <1>3 DEF TypeOK
  <1>14. \A v \in Workers : pc'[v] \notin {"idle", "next"} => cur'[v] \in todo'[v]
    BY <1>2, <1>7, <1>9 DEF TypeOK
  <1>15. overtaken' \in [Workers -> BOOLEAN]
    <2>1. overtaken' = [overtaken EXCEPT ![w] = FALSE]
      BY DEF Finished
    <2>. QED BY <2>1 DEF TypeOK
  <1>16. lateMarks' \subseteq 1 .. lastSequence'
    <2>1. lateMarks' \subseteq lateMarks \cup {i}
      BY DEF Finished
    <2>. QED BY <2>1 DEF TypeOK
  <1>. QED BY <1>8, <1>9, <1>10, <1>11, <1>12, <1>13, <1>14, <1>15, <1>16

LEMMA EnqueueType ==
  ASSUME TypeOK, NEW p \in Pools, NEW l \in Nat,
         NEW s \in Orders \cup {Elsewhere}, NEW b \in BOOLEAN,
         Enqueue(p, l, s, b)
  PROVE  /\ lastSequence' = lastSequence + 1
         /\ lastSequence' \in 0 .. MaxRows
         /\ outbox' \in [1 .. lastSequence' -> Row]
         /\ \A j \in 1 .. lastSequence' :
              outbox'[j].lease = "none" <=> outbox'[j].status # "PROCESSING"
  <1>1. NewRow(p, l, s, b) \in Row /\ NewRow(p, l, s, b).lease = "none"
          /\ NewRow(p, l, s, b).status # "PROCESSING"
    BY DEF NewRow, Row, Statuses, Open, Notes, BaselineUnknown, Null
  <1>2. ASSUME NEW j \in 1 .. lastSequence, outbox[j].status \in Open
        PROVE  /\ [outbox[j] EXCEPT !.status = "SUCCEEDED", !.note = "superseded"] \in Row
               /\ [outbox[j] EXCEPT !.status = "SUCCEEDED", !.note = "superseded"].lease = "none"
               /\ [outbox[j] EXCEPT !.status = "SUCCEEDED", !.note = "superseded"].status # "PROCESSING"
    <2>1. outbox[j] \in Row /\ outbox[j].lease = "none"
      BY <1>2 DEF TypeOK, Open
    <2>. QED BY <2>1 DEF Row, Statuses, Notes
  <1>3. lastSequence' = lastSequence + 1 /\ lastSequence < MaxRows
    BY DEF Enqueue
  <1>4. lastSequence' \in 0 .. MaxRows
    BY <1>3, ConfigAssumption DEF TypeOK
  <1>5. \A j \in 1 .. lastSequence : SupersededOnWrite(outbox[j], p) => outbox[j].status \in Open
    BY DEF SupersededOnWrite
  <1>6. outbox' = [j \in 1 .. lastSequence + 1 |->
          IF j = lastSequence + 1 THEN NewRow(p, l, s, b)
          ELSE IF SupersededOnWrite(outbox[j], p)
            THEN [outbox[j] EXCEPT !.status = "SUCCEEDED", !.note = "superseded"]
            ELSE outbox[j]]
    BY DEF Enqueue
  <1>7. ASSUME NEW j \in 1 .. lastSequence'
        PROVE  /\ outbox'[j] \in Row
               /\ outbox'[j].lease = "none" <=> outbox'[j].status # "PROCESSING"
    <2>1. j \in 1 .. lastSequence + 1 /\ lastSequence \in Nat
      BY <1>3 DEF TypeOK
    <2>2. CASE j = lastSequence + 1
      <3>1. outbox'[j] = NewRow(p, l, s, b)
        BY <1>6, <2>1, <2>2
      <3>. QED BY <1>1, <3>1
    <2>3. CASE j # lastSequence + 1 /\ SupersededOnWrite(outbox[j], p)
      <3>1. outbox'[j] = [outbox[j] EXCEPT !.status = "SUCCEEDED", !.note = "superseded"]
        BY <1>6, <2>1, <2>3
      <3>2. j \in 1 .. lastSequence /\ outbox[j].status \in Open
        BY <1>5, <2>1, <2>3
      <3>. QED BY <1>2, <3>1, <3>2
    <2>4. CASE j # lastSequence + 1 /\ ~SupersededOnWrite(outbox[j], p)
      <3>1. j \in 1 .. lastSequence
        BY <2>1, <2>4
      <3>2. outbox'[j] = outbox[j]
        BY <1>6, <2>1, <2>4, Zenon
      <3>. QED BY <3>1, <3>2 DEF TypeOK
    <2>. QED BY <2>2, <2>3, <2>4
  <1>8. DOMAIN outbox' = 1 .. lastSequence' /\ outbox' = [j \in 1 .. lastSequence' |-> outbox'[j]]
    BY <1>3, <1>6
  <1>9. outbox' \in [1 .. lastSequence' -> Row]
    BY <1>7, <1>8
  <1>. QED BY <1>3, <1>4, <1>7, <1>9

LEMMA TypeStep == TypeOK /\ [Next]_vars => TypeOK'
  <1> SUFFICES ASSUME TypeOK, [Next]_vars PROVE TypeOK'
    OBVIOUS
  <1> USE DEF workerVars, queueVars, ledgerVars, shopVars, boundVars
  <1>1. ASSUME NEW p \in Pools, NEW s \in Orders \cup {Elsewhere},
               PostMovement(p, s)
        PROVE  TypeOK'
    <2>1. stock[p] + 1 \in Nat /\ (p \notin tracked \/ UnresolvedBaseline(p)) \in BOOLEAN
      BY DEF TypeOK
    <2>2. Enqueue(p, stock[p] + 1, s, p \notin tracked \/ UnresolvedBaseline(p))
      BY <1>1 DEF PostMovement
    <2>3. /\ lastSequence' = lastSequence + 1
          /\ lastSequence' \in 0 .. MaxRows
          /\ outbox' \in [1 .. lastSequence' -> Row]
          /\ \A j \in 1 .. lastSequence' :
               outbox'[j].lease = "none" <=> outbox'[j].status # "PROCESSING"
      BY <2>1, <2>2, EnqueueType
    <2>4. /\ stock' \in [Pools -> Nat] /\ tracked' \subseteq Pools
          /\ UNCHANGED <<reported, shop, sent, verified, pc, todo, attempt, cur,
                         token, qty, stamp, calls, overtaken, lateMarks, clock,
                         faults, retries>>
      BY <1>1 DEF PostMovement, TypeOK
    <2>5. /\ todo' \in [Workers -> SUBSET (1 .. lastSequence')]
          /\ cur' \in [Workers -> 0 .. lastSequence']
          /\ lateMarks' \subseteq 1 .. lastSequence'
      BY <2>3, <2>4 DEF TypeOK
    <2>. QED BY <2>3, <2>4, <2>5 DEF TypeOK
  <1>2. ASSUME NEW w \in Workers, NEW S \in SUBSET (1 .. lastSequence),
               NEW t \in BOOLEAN, Claim(w, S, t)
        PROVE  TypeOK'
    <2>1. PICK B \in SUBSET S :
            /\ outbox' = [i \in DOMAIN outbox |->
                            IF i \in B THEN ClaimRow(outbox[i]) ELSE outbox[i]]
            /\ todo' = [todo EXCEPT ![w] = B]
            /\ attempt' = [attempt EXCEPT ![w] = [i \in 1 .. MaxRows |->
                             IF i \in B THEN outbox[i].attempts + 1 ELSE 0]]
      BY <1>2 DEF Claim
    <2>2. /\ pc' = [pc EXCEPT ![w] = "next"] /\ token' = [token EXCEPT ![w] = t]
          /\ UNCHANGED <<stock, tracked, lastSequence, reported, shop, sent, cur,
                         qty, stamp, calls, overtaken, lateMarks, clock, faults,
                         retries, verified>>
      BY <1>2 DEF Claim
    <2>3. ASSUME NEW i \in 1 .. lastSequence
          PROVE  /\ outbox[i] \in Row /\ outbox[i].attempts + 1 \in Nat
                 /\ ClaimRow(outbox[i]) \in Row
                 /\ ClaimRow(outbox[i]).lease = "live"
                 /\ ClaimRow(outbox[i]).status = "PROCESSING"
      <3>1. outbox[i] \in Row
        BY DEF TypeOK
      <3>2. outbox[i].attempts + 1 \in Nat
        BY <3>1 DEF Row
      <3>. QED BY <3>1, <3>2 DEF Row, ClaimRow, Statuses
    <2>4. /\ outbox' \in [1 .. lastSequence' -> Row]
          /\ \A j \in 1 .. lastSequence' :
               outbox'[j].lease = "none" <=> outbox'[j].status # "PROCESSING"
      BY <2>1, <2>2, <2>3 DEF TypeOK
    <2>5. /\ todo' \in [Workers -> SUBSET (1 .. lastSequence')]
          /\ pc' \in [Workers -> PcValues]
          /\ \A v \in Workers : pc'[v] \notin {"idle", "next"} => cur'[v] \in todo'[v]
      BY <2>1, <2>2 DEF TypeOK, PcValues
    <2>6. attempt' \in [Workers -> [1 .. MaxRows -> Nat]]
      <3>1. [i \in 1 .. MaxRows |-> IF i \in B THEN outbox[i].attempts + 1 ELSE 0]
              \in [1 .. MaxRows -> Nat]
        BY <2>3
      <3>. QED BY <2>1, <3>1 DEF TypeOK
    <2>7. token' \in [Workers -> BOOLEAN]
      BY <2>2, Zenon DEF TypeOK
    <2>. QED BY <2>2, <2>4, <2>5, <2>6, <2>7 DEF TypeOK
  <1>3. ASSUME NEW w \in Workers, NEW i \in 1 .. lastSequence,
               NEW s \in Statuses \ {"PROCESSING"}, NEW n \in Notes,
               NEW d \in BOOLEAN, Mark(i, s, n, d), Finished(w, i),
               UNCHANGED <<stock, tracked, lastSequence, shop, sent, faults,
                           retries, verified>>,
               reported' \in [Variants -> [view : View, at : Nat]], clock' \in Nat
        PROVE  TypeOK'
    <2>1. lastSequence' = lastSequence
      BY <1>3
    <2>2. /\ outbox' \in [1 .. lastSequence' -> Row]
          /\ \A j \in 1 .. lastSequence' :
               outbox'[j].lease = "none" <=> outbox'[j].status # "PROCESSING"
      BY <1>3, <2>1, MarkType
    <2>. QED BY <1>3, <2>1, <2>2, FinishedType DEF TypeOK
  <1>4. ASSUME NEW w \in Workers, RowStep(w)
        PROVE  TypeOK'
    <2>1. ASSUME NEW i \in todo[w],
                 CloseSuperseded(w, i) \/ ClosePackage(w, i) \/ CloseUnmapped(w, i)
          PROVE  TypeOK'
      <3>1. i \in 1 .. lastSequence /\ outbox[i] \in Row
        BY DEF TypeOK
      <3>2. /\ outbox[i].due \in BOOLEAN /\ outbox[i].note \in Notes
            /\ "superseded" \in Notes /\ "package" \in Notes
            /\ {"SUCCEEDED", "DEAD_LETTER"} \subseteq Statuses \ {"PROCESSING"}
        BY <3>1 DEF Row, Notes, Statuses, Open
      <3>3. reported \in [Variants -> [view : View, at : Nat]] /\ clock \in Nat
        BY DEF TypeOK
      <3>4. CASE CloseSuperseded(w, i)
        BY <1>3, <3>1, <3>2, <3>3, <3>4 DEF CloseSuperseded
      <3>5. CASE ClosePackage(w, i)
        BY <1>3, <3>1, <3>2, <3>3, <3>5 DEF ClosePackage
      <3>6. CASE CloseUnmapped(w, i)
        BY <1>3, <3>1, <3>2, <3>3, <3>6 DEF CloseUnmapped
      <3>. QED BY <2>1, <3>4, <3>5, <3>6
    <2>2. ASSUME NEW i \in todo[w], StartRow(w, i)
          PROVE  TypeOK'
      BY <2>2 DEF StartRow, TypeOK, PcValues
    <2>3. CASE GetToken(w)
      <3>1. token' \in [Workers -> BOOLEAN]
        BY <2>3, Zenon DEF GetToken, TypeOK
      <3>. QED BY <2>3, <3>1 DEF GetToken, TypeOK, PcValues
    <2>4. CASE ReadStock(w)
      <3>1. cur[w] \in 1 .. lastSequence /\ outbox[cur[w]] \in Row
        BY <2>4 DEF ReadStock, TypeOK
      <3>2. QuantityToPublish(cur[w]) \in Nat
        BY <3>1 DEF QuantityToPublish, TypeOK, Row
      <3>. QED BY <2>4, <3>1, <3>2, SMTT(30) DEF ReadStock, TypeOK, PcValues
    <2>5. CASE UnasApplies(w)
      <3> DEFINE p == outbox[cur[w]].pool
                 view == [from |-> p, level |-> qty[w], late |-> overtaken[w]]
      <3>1. cur[w] \in 1 .. lastSequence /\ outbox[cur[w]] \in Row
        BY <2>5 DEF UnasApplies, TypeOK
      <3>2. p \in Pools /\ qty[w] \in Nat /\ view \in View
        BY <3>1 DEF Row, TypeOK, View
      <3>3. shop' = [shop EXCEPT ![VariantOf[p]] = view]
              /\ sent' = [sent EXCEPT ![p] = IF qty[w] > @ THEN qty[w] ELSE @]
              /\ pc' = [pc EXCEPT ![w] = "reply"]
        BY <2>5 DEF UnasApplies
      <3>4. overtaken' \in [Workers -> BOOLEAN]
        BY <2>5 DEF UnasApplies, TypeOK
      <3>5. /\ UNCHANGED <<stock, tracked, outbox, lastSequence, todo, attempt, cur,
                           token, qty, stamp, calls, lateMarks, reported, clock,
                           faults, retries, verified>>
            /\ pc[w] = "call"
        BY <2>5 DEF UnasApplies
      <3> HIDE DEF view, p
      <3>6. shop' \in [Variants -> View] /\ sent' \in [Pools -> Nat]
        BY <3>2, <3>3 DEF TypeOK
      <3>. QED BY <3>3, <3>4, <3>5, <3>6 DEF TypeOK, PcValues
    <2>6. CASE SetStockFails(w)
      BY <2>6 DEF SetStockFails, TypeOK, PcValues
    <2>7. CASE SetStockReturns(w)
      <3>1. /\ pc[w] = "reply" /\ pc' = [pc EXCEPT ![w] = "mark"]
            /\ stamp' = [stamp EXCEPT ![w] = clock + 1] /\ clock' = clock + 1
            /\ UNCHANGED <<stock, tracked, outbox, lastSequence, reported, shop, sent,
                           todo, attempt, cur, token, qty, calls, overtaken,
                           lateMarks, faults, retries, verified>>
        BY <2>7 DEF SetStockReturns
      <3>2. stamp' \in [Workers -> Nat] /\ clock' \in Nat
        BY <3>1 DEF TypeOK
      <3>3. /\ pc' \in [Workers -> PcValues]
            /\ \A v \in Workers : pc'[v] \notin {"idle", "next"} => cur'[v] \in todo'[v]
        BY <3>1 DEF TypeOK, PcValues
      <3>. QED BY <3>1, <3>2, <3>3 DEF TypeOK
    <2>8. CASE MarkSucceeded(w)
      <3>1. cur[w] \in 1 .. lastSequence /\ outbox[cur[w]] \in Row
        BY <2>8 DEF MarkSucceeded, TypeOK
      <3>2. /\ outbox[cur[w]].due \in BOOLEAN /\ outbox[cur[w]].note \in Notes
            /\ "SUCCEEDED" \in Statuses \ {"PROCESSING"}
        BY <3>1 DEF Row, Statuses, Open
      <3>3. [from |-> outbox[cur[w]].pool, level |-> qty[w], late |-> overtaken[w]] \in View
              /\ stamp[w] \in Nat
        BY <3>1 DEF View, Row, TypeOK
      <3>4. reported' \in [Variants -> [view : View, at : Nat]] /\ clock' \in Nat
        BY <2>8, <3>3 DEF MarkSucceeded, TypeOK
      <3>. QED BY <1>3, <2>8, <3>1, <3>2, <3>4 DEF MarkSucceeded
    <2>9. CASE HandleFailure(w)
      <3>1. cur[w] \in 1 .. lastSequence /\ outbox[cur[w]] \in Row
        BY <2>9 DEF HandleFailure, TypeOK
      <3>2. /\ outbox[cur[w]].due \in BOOLEAN /\ outbox[cur[w]].note \in Notes
            /\ {"FAILED", "DEAD_LETTER"} \subseteq Statuses \ {"PROCESSING"}
        BY <3>1 DEF Row, Statuses, Open
      <3>3. reported \in [Variants -> [view : View, at : Nat]] /\ clock \in Nat
        BY DEF TypeOK
      <3>4. /\ Finished(w, cur[w])
            /\ UNCHANGED <<stock, tracked, lastSequence, reported, shop, sent,
                           clock, faults, retries, verified>>
            /\ \/ Mark(cur[w], "DEAD_LETTER", outbox[cur[w]].note, outbox[cur[w]].due)
               \/ Mark(cur[w], "FAILED", outbox[cur[w]].note, FALSE)
        BY <2>9 DEF HandleFailure
      <3>. QED BY <1>3, <3>1, <3>2, <3>3, <3>4
    <2>. QED BY <1>4, <2>1, <2>2, <2>3, <2>4, <2>5, <2>6, <2>7, <2>8, <2>9
             DEF RowStep
  <1>5. ASSUME NEW w \in Workers, MarkSucceededFails(w)
        PROVE  TypeOK'
    <2>1. /\ pc' = [pc EXCEPT ![w] = "transient"] /\ pc[w] = "mark"
          /\ faults' = faults + 1
          /\ UNCHANGED <<stock, tracked, outbox, lastSequence, reported, shop, sent,
                         todo, attempt, cur, token, qty, stamp, calls, overtaken,
                         lateMarks, clock, retries, verified>>
      BY <1>5 DEF MarkSucceededFails
    <2>2. /\ pc' \in [Workers -> PcValues]
          /\ \A v \in Workers : pc'[v] \notin {"idle", "next"} => cur'[v] \in todo'[v]
      BY <2>1 DEF TypeOK, PcValues
    <2>3. faults' \in Nat
      BY <2>1 DEF TypeOK
    <2>. QED BY <2>1, <2>2, <2>3 DEF TypeOK
  <1>6. ASSUME NEW w \in Workers, AbandonBatch(w)
        PROVE  TypeOK'
    <2>1. token' \in [Workers -> BOOLEAN]
      BY <1>6, Zenon DEF AbandonBatch, TypeOK
    <2>2. attempt' \in [Workers -> [1 .. MaxRows -> Nat]]
      BY <1>6 DEF AbandonBatch, TypeOK
    <2>3. /\ pc' \in [Workers -> PcValues]
          /\ todo' \in [Workers -> SUBSET (1 .. lastSequence')]
          /\ cur' \in [Workers -> 0 .. lastSequence']
          /\ \A v \in Workers : pc'[v] \notin {"idle", "next"} => cur'[v] \in todo'[v]
      BY <1>6 DEF AbandonBatch, TypeOK, PcValues
    <2>4. /\ qty' \in [Workers -> Nat] /\ stamp' \in [Workers -> Nat]
          /\ calls' \in [Workers -> Nat] /\ overtaken' \in [Workers -> BOOLEAN]
      BY <1>6 DEF AbandonBatch, TypeOK
    <2>5. /\ faults' \in Nat
          /\ UNCHANGED <<stock, tracked, outbox, lastSequence, reported, shop, sent,
                         lateMarks, clock, retries, verified>>
      BY <1>6 DEF AbandonBatch, TypeOK
    <2>. QED BY <2>1, <2>2, <2>3, <2>4, <2>5 DEF TypeOK
  <1>7. ASSUME NEW i \in DOMAIN outbox,
               LeaseExpires(i) \/ BackoffElapses(i) \/ ManualRetry(i)
        PROVE  TypeOK'
    <2>1. i \in 1 .. lastSequence /\ outbox[i] \in Row
      BY DEF TypeOK
    <2>2. CASE LeaseExpires(i)
      <3> DEFINE r == [outbox[i] EXCEPT !.lease = "expired"]
      <3>1. r \in Row /\ r.lease # "none" /\ r.status = "PROCESSING"
        BY <2>1, <2>2 DEF Row, LeaseExpires
      <3>2. outbox' = [outbox EXCEPT ![i] = r]
        BY <2>2 DEF LeaseExpires
      <3> HIDE DEF r
      <3>. QED BY <2>1, <2>2, <3>1, <3>2, ZenonT(30) DEF LeaseExpires, TypeOK
    <2>3. CASE BackoffElapses(i)
      <3>1. /\ [outbox[i] EXCEPT !.due = TRUE] \in Row
            /\ [outbox[i] EXCEPT !.due = TRUE].lease = outbox[i].lease
            /\ [outbox[i] EXCEPT !.due = TRUE].status = outbox[i].status
        BY <2>1 DEF Row
      <3>. QED BY <2>1, <2>3, <3>1 DEF BackoffElapses, TypeOK
    <2>4. CASE ManualRetry(i)
      <3> DEFINE r == [outbox[i] EXCEPT !.status = "PENDING", !.attempts = 0,
                         !.due = TRUE, !.lease = "none", !.note = "manual_retry"]
      <3>1. r \in Row /\ r.lease = "none" /\ r.status # "PROCESSING"
        BY <2>1 DEF Row, Statuses, Open, Notes
      <3>2. outbox' = [outbox EXCEPT ![i] = r] /\ outbox[i].pool \in Pools
        BY <2>1, <2>4 DEF ManualRetry, Row
      <3> HIDE DEF r
      <3>3. /\ outbox' \in [1 .. lastSequence -> Row]
            /\ \A j \in 1 .. lastSequence :
                 outbox'[j].lease = "none" <=> outbox'[j].status # "PROCESSING"
        BY <2>1, <3>1, <3>2 DEF TypeOK
      <3>4. retries' \in Nat /\ verified' \subseteq Pools
        BY <2>4, <3>2 DEF ManualRetry, TypeOK
      <3>. QED BY <2>4, <3>3, <3>4 DEF ManualRetry, TypeOK
    <2>. QED BY <1>7, <2>2, <2>3, <2>4
  <1>8. CASE UNCHANGED vars
    BY <1>8 DEF vars, TypeOK
  <1>9. ASSUME NEW w \in Workers,
               ProcessBatch(w) \/ \E o \in Orders : ProcessForUnasOrder(w, o)
        PROVE  TypeOK'
    <2>1. DOMAIN outbox = 1 .. lastSequence
      BY DEF TypeOK
    <2>. QED BY <1>2, <1>9, <2>1 DEF ProcessBatch, ProcessForUnasOrder
  <1>. QED BY <1>1, <1>4, <1>5, <1>6, <1>7, <1>8, <1>9 DEF Next

\* Every reachable state of the outbox, whatever the pools, workers and
\* bounds, is well typed: in particular a lease is on PROCESSING rows only.
THEOREM TypeCorrect == Spec => []TypeOK
  BY TypeInit, TypeStep, PTL DEF Spec

(***************************************************************************)
(* What the steps that touch rows leave alone                              *)
(***************************************************************************)
LEMMA MarkRows ==
  ASSUME TypeOK, NEW i \in 1 .. lastSequence, NEW s \in Statuses,
         NEW n \in Notes, NEW d \in BOOLEAN, Mark(i, s, n, d)
  PROVE  /\ DOMAIN outbox' = 1 .. lastSequence
         /\ outbox'[i].status = s /\ outbox'[i].pool = outbox[i].pool
         /\ \A j \in (1 .. lastSequence) \ {i} : outbox'[j] = outbox[j]
  <1> DEFINE r == [outbox[i] EXCEPT !.status = s, !.note = n, !.due = d,
                                    !.lease = "none"]
  <1>1. r.status = s /\ r.pool = outbox[i].pool
    BY DEF TypeOK, Row
  <1>2. outbox' = [outbox EXCEPT ![i] = r]
    BY DEF Mark
  <1> HIDE DEF r
  <1>. QED BY <1>1, <1>2 DEF TypeOK

LEMMA EnqueueRows ==
  ASSUME TypeOK, NEW p, NEW l, NEW s, NEW b, Enqueue(p, l, s, b)
  PROVE  /\ lastSequence' = lastSequence + 1
         /\ DOMAIN outbox' = 1 .. lastSequence + 1
         /\ outbox'[lastSequence + 1] = NewRow(p, l, s, b)
         /\ \A j \in 1 .. lastSequence :
              /\ outbox'[j].pool = outbox[j].pool
              /\ SupersededOnWrite(outbox[j], p)
                   => outbox'[j].status = "SUCCEEDED"
              /\ ~SupersededOnWrite(outbox[j], p) => outbox'[j] = outbox[j]
  <1>1. outbox' = [j \in 1 .. lastSequence + 1 |->
          IF j = lastSequence + 1 THEN NewRow(p, l, s, b)
          ELSE IF SupersededOnWrite(outbox[j], p)
            THEN [outbox[j] EXCEPT !.status = "SUCCEEDED", !.note = "superseded"]
            ELSE outbox[j]]
    BY DEF Enqueue
  <1>2. lastSequence' = lastSequence + 1 /\ lastSequence \in Nat
    <2>1. lastSequence' = lastSequence + 1
      BY DEF Enqueue
    <2>2. lastSequence \in Nat
      BY ConfigAssumption DEF TypeOK
    <2>. QED BY <2>1, <2>2
  <1>3. DOMAIN outbox' = 1 .. lastSequence + 1
          /\ outbox'[lastSequence + 1] = NewRow(p, l, s, b)
    <2>1. lastSequence + 1 \in 1 .. lastSequence + 1
      BY <1>2
    <2>. QED BY <1>1, <2>1, Zenon
  <1>4. ASSUME NEW j \in 1 .. lastSequence
        PROVE  /\ outbox'[j].pool = outbox[j].pool
               /\ SupersededOnWrite(outbox[j], p)
                    => outbox'[j].status = "SUCCEEDED"
               /\ ~SupersededOnWrite(outbox[j], p) => outbox'[j] = outbox[j]
    <2>1. j \in 1 .. lastSequence + 1 /\ j # lastSequence + 1
      BY <1>2
    <2>2. outbox'[j] = IF SupersededOnWrite(outbox[j], p)
            THEN [outbox[j] EXCEPT !.status = "SUCCEEDED", !.note = "superseded"]
            ELSE outbox[j]
      BY <1>1, <2>1, Zenon
    <2>3. outbox[j] \in Row
      BY DEF TypeOK
    <2>4. CASE SupersededOnWrite(outbox[j], p)
      <3>1. outbox'[j] = [outbox[j] EXCEPT !.status = "SUCCEEDED", !.note = "superseded"]
        BY <2>2, <2>4
      <3>2. outbox'[j].pool = outbox[j].pool /\ outbox'[j].status = "SUCCEEDED"
        BY <2>3, <3>1 DEF Row
      <3>. QED BY <2>4, <3>2
    <2>5. CASE ~SupersededOnWrite(outbox[j], p)
      BY <2>2, <2>5, Zenon
    <2>. QED BY <2>4, <2>5
  <1>. QED BY <1>2, <1>3, <1>4

\* A claim of the rows B: they turn PROCESSING under a live lease.
Takes(w, B) ==
  /\ B \subseteq 1 .. lastSequence
  /\ Cardinality(B) <= BatchSize
  /\ todo' = [todo EXCEPT ![w] = B]
  /\ DOMAIN outbox' = 1 .. lastSequence
  /\ \A j \in B : /\ outbox'[j].pool = outbox[j].pool
                  /\ outbox'[j].status = "PROCESSING"
                  /\ outbox'[j].lease = "live"
  /\ \A j \in (1 .. lastSequence) \ B : outbox'[j] = outbox[j]

LEMMA ClaimRows ==
  ASSUME TypeOK, NEW w \in Workers, NEW S \in SUBSET (1 .. lastSequence),
         NEW t \in BOOLEAN, Claim(w, S, t)
  PROVE  \E B \in SUBSET S : Takes(w, B)
  <1>1. PICK B \in SUBSET S :
          /\ FirstOf(S, B)
          /\ outbox' = [i \in DOMAIN outbox |->
                          IF i \in B THEN ClaimRow(outbox[i]) ELSE outbox[i]]
          /\ todo' = [todo EXCEPT ![w] = B]
    BY DEF Claim
  <1>2. DOMAIN outbox = 1 .. lastSequence
    BY DEF TypeOK
  <1>3. \A j \in 1 .. lastSequence :
          /\ ClaimRow(outbox[j]).pool = outbox[j].pool
          /\ ClaimRow(outbox[j]).status = "PROCESSING"
          /\ ClaimRow(outbox[j]).lease = "live"
    BY DEF TypeOK, Row, ClaimRow
  <1>4. Takes(w, B)
    BY <1>1, <1>2, <1>3 DEF FirstOf, Takes
  <1>. QED BY <1>1, <1>4

\* The steps of a worker that end the work on a row: it marks row i, in a
\* status that is not PROCESSING, and drops it.
Closes(w, i) ==
  /\ i \in todo[w]
  /\ \E s \in Statuses \ {"PROCESSING"}, n \in Notes, d \in BOOLEAN : Mark(i, s, n, d)
  /\ Finished(w, i)
  /\ UNCHANGED <<stock, tracked, lastSequence, shop, sent, verified>>

\* The steps of a worker that change neither the queue nor what it holds.
Carries(w) ==
  /\ pc[w] # "idle"
  /\ UNCHANGED <<stock, tracked, outbox, lastSequence, todo, lateMarks, verified>>
  /\ \E x \in PcValues : pc' = [pc EXCEPT ![w] = x]
  /\ \/ calls' = calls
     \/ calls' = [calls EXCEPT ![w] = @ + 1]
  /\ pc'[w] # "idle"
  /\ \/ shop' = shop
     \/ /\ cur[w] \in todo[w]
        /\ shop' = [shop EXCEPT ![VariantOf[outbox[cur[w]].pool]] =
                     [from |-> outbox[cur[w]].pool, level |-> qty[w],
                      late |-> overtaken[w]]]

LEMMA WorkerStep ==
  ASSUME TypeOK, NEW w \in Workers, RowStep(w) \/ MarkSucceededFails(w)
  PROVE  Carries(w) \/ \E i \in 1 .. lastSequence : Closes(w, i)
  <1> USE DEF workerVars, queueVars, ledgerVars, shopVars, boundVars
  <1>1. \A i \in todo[w] : i \in 1 .. lastSequence /\ outbox[i].due \in BOOLEAN
          /\ outbox[i].note \in Notes
    BY DEF TypeOK, Row
  <1>2. /\ "superseded" \in Notes /\ "package" \in Notes
        /\ {"SUCCEEDED", "DEAD_LETTER", "FAILED"} \subseteq Statuses \ {"PROCESSING"}
    BY DEF Notes, Statuses, Open
  <1>3. ASSUME NEW i \in todo[w],
               CloseSuperseded(w, i) \/ ClosePackage(w, i) \/ CloseUnmapped(w, i)
        PROVE  Closes(w, i)
    BY <1>1, <1>2, <1>3 DEF Closes, CloseSuperseded, ClosePackage, CloseUnmapped
  <1>4. pc[w] \notin {"idle", "next"} => cur[w] \in todo[w]
    BY DEF TypeOK
  <1>5. ASSUME MarkSucceeded(w) PROVE Closes(w, cur[w])
    BY <1>1, <1>2, <1>4, <1>5 DEF Closes, MarkSucceeded
  <1>6. ASSUME HandleFailure(w) PROVE Closes(w, cur[w])
    BY <1>1, <1>2, <1>4, <1>6 DEF Closes, HandleFailure
  <1>7. ASSUME NEW i \in todo[w], StartRow(w, i) PROVE Carries(w)
    BY <1>7 DEF Carries, StartRow, TypeOK, PcValues
  <1>8. ASSUME GetToken(w) \/ ReadStock(w) \/ UnasApplies(w) \/ SetStockFails(w)
               \/ SetStockReturns(w) \/ MarkSucceededFails(w)
        PROVE  Carries(w)
    <2>1. CASE GetToken(w)
      BY <2>1 DEF Carries, GetToken, TypeOK, PcValues
    <2>2. CASE ReadStock(w)
      BY <2>2 DEF Carries, ReadStock, TypeOK, PcValues
    <2>3. CASE UnasApplies(w)
      BY <1>4, <2>3 DEF Carries, UnasApplies, TypeOK, PcValues
    <2>4. CASE SetStockFails(w)
      BY <2>4 DEF Carries, SetStockFails, TypeOK, PcValues
    <2>5. CASE SetStockReturns(w)
      BY <2>5 DEF Carries, SetStockReturns, TypeOK, PcValues
    <2>6. CASE MarkSucceededFails(w)
      BY <2>6 DEF Carries, MarkSucceededFails, TypeOK, PcValues
    <2>. QED BY <1>8, <2>1, <2>2, <2>3, <2>4, <2>5, <2>6
  <1>. QED BY <1>1, <1>3, <1>4, <1>5, <1>6, <1>7, <1>8
           DEF RowStep, MarkSucceeded, HandleFailure

(***************************************************************************)
(* An unverified pool is never published                                   *)
(***************************************************************************)
\* Steps that keep the rows' pools and the rows of unverified pools, and show
\* only verified ones.
LEMMA BaselineFrame ==
  ASSUME TypeOK, BaselineGuarded,
         verified' = verified, tracked' = tracked,
         DOMAIN outbox' = 1 .. lastSequence,
         \A j \in 1 .. lastSequence :
           /\ outbox'[j].pool = outbox[j].pool
           /\ outbox[j].pool \notin verified => outbox'[j] = outbox[j],
         \A w \in Workers : \A i \in todo'[w] :
           i \in 1 .. lastSequence /\ outbox[i].pool \in verified,
         \A v \in Variants : shop'[v] = shop[v] \/ shop'[v].from \in verified
  PROVE  BaselineGuarded'
  <1>1. DOMAIN outbox = 1 .. lastSequence
    BY DEF TypeOK
  <1>2. \A i \in DOMAIN outbox' : outbox'[i].pool \notin verified => Marker(outbox'[i])
    BY <1>1 DEF BaselineGuarded
  <1>3. \A p \in tracked \ verified : RowsOf(p)' # {}
    BY <1>1 DEF BaselineGuarded, RowsOf
  <1>4. \A w \in Workers : \A i \in todo'[w] : outbox'[i].pool \in verified
    OBVIOUS
  <1>5. \A v \in Variants : shop'[v].from # Nowhere => shop'[v].from \in verified
    BY DEF BaselineGuarded, UnverifiedNeverPublished
  <1>. QED BY <1>2, <1>3, <1>4, <1>5 DEF BaselineGuarded, UnverifiedNeverPublished

LEMMA BaselineInit == Init => BaselineGuarded
  BY DEF Init, BaselineGuarded, UnverifiedNeverPublished, Unseen

LEMMA BaselineStep == TypeOK /\ BaselineGuarded /\ [Next]_vars => BaselineGuarded'
  <1> SUFFICES ASSUME TypeOK, BaselineGuarded, [Next]_vars PROVE BaselineGuarded'
    OBVIOUS
  <1> USE DEF workerVars, queueVars, ledgerVars, shopVars, boundVars
  <1>0. /\ DOMAIN outbox = 1 .. lastSequence
        /\ \A w \in Workers : todo[w] \subseteq 1 .. lastSequence
    BY DEF TypeOK
  <1>1. ASSUME NEW p \in Pools, NEW s \in Orders \cup {Elsewhere},
               PostMovement(p, s)
        PROVE  BaselineGuarded'
    <2> DEFINE b == p \notin tracked \/ UnresolvedBaseline(p)
    <2>1. Enqueue(p, stock[p] + 1, s, b)
      BY <1>1 DEF PostMovement
    <2>2. /\ tracked' = tracked \cup {p} /\ verified' = verified
          /\ todo' = todo /\ shop' = shop
      BY <1>1 DEF PostMovement
    <2>3. p \notin verified => b
      BY <1>0 DEF BaselineGuarded, UnresolvedBaseline, RowsOf
    <2>4. LET r == NewRow(p, stock[p] + 1, s, b) IN
            r.pool = p /\ (p \notin verified => Marker(r))
      BY <2>3 DEF NewRow, Marker
    <2>5. \A j \in 1 .. lastSequence :
            outbox[j].pool \notin verified => ~SupersededOnWrite(outbox[j], p)
      BY <1>0 DEF BaselineGuarded, Marker, SupersededOnWrite
    <2> HIDE DEF b
    <2>6. /\ DOMAIN outbox' = 1 .. lastSequence + 1
          /\ outbox'[lastSequence + 1] = NewRow(p, stock[p] + 1, s, b)
          /\ \A j \in 1 .. lastSequence :
               /\ outbox'[j].pool = outbox[j].pool
               /\ ~SupersededOnWrite(outbox[j], p) => outbox'[j] = outbox[j]
      BY <2>1, EnqueueRows
    <2>7. \A j \in 1 .. lastSequence :
               /\ outbox'[j].pool = outbox[j].pool
               /\ outbox[j].pool \notin verified => outbox'[j] = outbox[j]
      BY <2>5, <2>6
    <2>8. lastSequence \in Nat
      BY ConfigAssumption DEF TypeOK
    <2>9. \A i \in DOMAIN outbox' : outbox'[i].pool \notin verified => Marker(outbox'[i])
      <3>1. ASSUME NEW i \in 1 .. lastSequence, outbox'[i].pool \notin verified
            PROVE  Marker(outbox'[i])
        BY <1>0, <2>7, <3>1 DEF BaselineGuarded
      <3>2. outbox'[lastSequence + 1].pool \notin verified
              => Marker(outbox'[lastSequence + 1])
        BY <2>4, <2>6
      <3>. QED BY <2>6, <2>8, <3>1, <3>2
    <2>10. \A q \in tracked' \ verified : RowsOf(q)' # {}
      <3>1. \A q \in tracked \ verified : RowsOf(q)' # {}
        BY <1>0, <2>6, <2>7, <2>8 DEF BaselineGuarded, RowsOf
      <3>2. RowsOf(p)' # {}
        BY <2>4, <2>6, <2>8 DEF RowsOf
      <3>. QED BY <2>2, <3>1, <3>2
    <2>11. \A w \in Workers : \A i \in todo'[w] : outbox'[i].pool \in verified
      BY <1>0, <2>2, <2>7 DEF BaselineGuarded
    <2>. QED BY <2>2, <2>9, <2>10, <2>11 DEF BaselineGuarded, UnverifiedNeverPublished
  <1>2. ASSUME NEW w \in Workers, NEW S \in SUBSET (1 .. lastSequence),
               NEW t \in BOOLEAN, Claim(w, S, t), \A i \in S : Claimable(i)
        PROVE  BaselineGuarded'
    <2>1. PICK B \in SUBSET S : Takes(w, B)
      BY <1>2, ClaimRows
    <2>2. \A i \in B : outbox[i].pool \in verified
      BY <1>0, <1>2 DEF BaselineGuarded, Marker, Claimable
    <2>3. UNCHANGED <<tracked, shop, verified>>
      BY <1>2 DEF Claim
    <2>4. ASSUME NEW v \in Workers, NEW i \in todo'[v]
          PROVE  i \in 1 .. lastSequence /\ outbox[i].pool \in verified
      BY <1>0, <2>1, <2>2 DEF BaselineGuarded, TypeOK, Takes
    <2>. QED BY <2>1, <2>2, <2>3, <2>4, BaselineFrame DEF Takes
  <1>3. ASSUME NEW w \in Workers, NEW i \in 1 .. lastSequence, Closes(w, i)
        PROVE  BaselineGuarded'
    <2>1. PICK s \in Statuses, n \in Notes, d \in BOOLEAN : Mark(i, s, n, d)
      BY <1>3 DEF Closes
    <2>2. /\ todo' = [todo EXCEPT ![w] = todo[w] \ {i}]
          /\ UNCHANGED <<tracked, shop, verified>> /\ i \in todo[w]
      BY <1>3 DEF Closes, Finished
    <2>3. outbox[i].pool \in verified
      BY <2>2 DEF BaselineGuarded
    <2>4. ASSUME NEW v \in Workers, NEW j \in todo'[v]
          PROVE  j \in 1 .. lastSequence /\ outbox[j].pool \in verified
      BY <1>0, <2>2 DEF BaselineGuarded, TypeOK
    <2>5. \A j \in 1 .. lastSequence :
            /\ outbox'[j].pool = outbox[j].pool
            /\ outbox[j].pool \notin verified => outbox'[j] = outbox[j]
      BY <2>1, <2>3, MarkRows
    <2>. QED BY <2>1, <2>2, <2>4, <2>5, MarkRows, BaselineFrame
  <1>4. ASSUME NEW w \in Workers, Carries(w)
        PROVE  BaselineGuarded'
    <2>1. UNCHANGED <<tracked, outbox, todo, verified>>
      BY <1>4 DEF Carries
    <2>2. \A v \in Variants : shop'[v] = shop[v] \/ shop'[v].from \in verified
      <3>1. CASE shop' = shop
        BY <3>1
      <3>2. CASE shop' # shop
        <4>1. /\ cur[w] \in todo[w]
              /\ shop' = [shop EXCEPT ![VariantOf[outbox[cur[w]].pool]] =
                           [from |-> outbox[cur[w]].pool, level |-> qty[w],
                            late |-> overtaken[w]]]
          BY <1>4, <3>2 DEF Carries
        <4>2. outbox[cur[w]].pool \in verified
          BY <4>1 DEF BaselineGuarded
        <4>. QED BY <4>1, <4>2 DEF TypeOK
      <3>. QED BY <3>1, <3>2
    <2>3. ASSUME NEW v \in Workers, NEW j \in todo'[v]
          PROVE  j \in 1 .. lastSequence /\ outbox[j].pool \in verified
      BY <1>0, <2>1 DEF BaselineGuarded
    <2>. QED BY <1>0, <2>1, <2>2, <2>3, BaselineFrame
  <1>5. ASSUME NEW w \in Workers, AbandonBatch(w)
        PROVE  BaselineGuarded'
    <2>1. UNCHANGED <<tracked, outbox, verified, shop>> /\ todo' = [todo EXCEPT ![w] = {}]
      BY <1>5 DEF AbandonBatch
    <2>2. ASSUME NEW v \in Workers, NEW j \in todo'[v]
          PROVE  j \in 1 .. lastSequence /\ outbox[j].pool \in verified
      BY <1>0, <2>1 DEF BaselineGuarded, TypeOK
    <2>. QED BY <1>0, <2>1, <2>2, BaselineFrame
  <1>6. ASSUME NEW i \in 1 .. lastSequence, LeaseExpires(i) \/ BackoffElapses(i)
        PROVE  BaselineGuarded'
    <2>1. UNCHANGED <<tracked, verified, shop, todo>> /\ outbox[i].status # "DEAD_LETTER"
      BY <1>6 DEF LeaseExpires, BackoffElapses
    <2>2. outbox[i].pool \in verified
      BY <1>0, <2>1 DEF BaselineGuarded, Marker
    <2>3. /\ DOMAIN outbox' = 1 .. lastSequence
          /\ outbox'[i].pool = outbox[i].pool
          /\ \A j \in (1 .. lastSequence) \ {i} : outbox'[j] = outbox[j]
      BY <1>6, SMTT(30) DEF LeaseExpires, BackoffElapses, TypeOK, Row
    <2>4. ASSUME NEW v \in Workers, NEW j \in todo'[v]
          PROVE  j \in 1 .. lastSequence /\ outbox[j].pool \in verified
      BY <1>0, <2>1 DEF BaselineGuarded
    <2>. QED BY <2>1, <2>2, <2>3, <2>4, BaselineFrame
  <1>7. ASSUME NEW i \in 1 .. lastSequence, ManualRetry(i)
        PROVE  BaselineGuarded'
    <2>1. /\ UNCHANGED <<tracked, shop, todo>>
          /\ verified' = verified \cup {outbox[i].pool}
      BY <1>7 DEF ManualRetry
    <2>2. /\ DOMAIN outbox' = 1 .. lastSequence
          /\ outbox'[i].pool = outbox[i].pool
          /\ \A j \in (1 .. lastSequence) \ {i} : outbox'[j] = outbox[j]
      BY <1>7 DEF ManualRetry, TypeOK, Row
    <2>3. \A j \in DOMAIN outbox' : outbox'[j].pool \notin verified' => Marker(outbox'[j])
      BY <1>0, <2>1, <2>2 DEF BaselineGuarded
    <2>4. \A p \in tracked' \ verified' : RowsOf(p)' # {}
      BY <1>0, <2>1, <2>2 DEF BaselineGuarded, RowsOf
    <2>5. \A w \in Workers : \A j \in todo'[w] : outbox'[j].pool \in verified'
      BY <1>0, <2>1, <2>2 DEF BaselineGuarded
    <2>6. UnverifiedNeverPublished'
      BY <2>1 DEF BaselineGuarded, UnverifiedNeverPublished
    <2>. QED BY <2>3, <2>4, <2>5, <2>6 DEF BaselineGuarded
  <1>8. CASE UNCHANGED vars
    <2>1. UNCHANGED <<tracked, outbox, todo, verified, shop>>
      BY <1>8 DEF vars
    <2>2. ASSUME NEW v \in Workers, NEW j \in todo'[v]
          PROVE  j \in 1 .. lastSequence /\ outbox[j].pool \in verified
      BY <1>0, <2>1 DEF BaselineGuarded
    <2>. QED BY <1>0, <2>1, <2>2, BaselineFrame
  <1>9. ASSUME NEW w \in Workers,
               ProcessBatch(w) \/ \E o \in Orders : ProcessForUnasOrder(w, o)
        PROVE  BaselineGuarded'
    <2>1. CASE ProcessBatch(w)
      <3> DEFINE S == {i \in DOMAIN outbox : Claimable(i)}
      <3>1. S \in SUBSET (1 .. lastSequence) /\ Claim(w, S, FALSE)
        BY <1>0, <2>1 DEF ProcessBatch
      <3>. QED BY <1>2, <3>1
    <2>2. ASSUME NEW o \in Orders, ProcessForUnasOrder(w, o)
          PROVE  BaselineGuarded'
      <3> DEFINE S == {i \in DOMAIN outbox : Claimable(i) /\ outbox[i].source = o}
      <3>1. S \in SUBSET (1 .. lastSequence) /\ Claim(w, S, TRUE)
        BY <1>0, <2>2 DEF ProcessForUnasOrder
      <3>. QED BY <1>2, <3>1
    <2>. QED BY <1>9, <2>1, <2>2
  <1>. QED BY <1>0, <1>1, <1>3, <1>4, <1>5, <1>6, <1>7, <1>8, <1>9, WorkerStep DEF Next

\* Whatever the workers, claims, crashes and retries: the shop is never set to
\* a quantity built on a baseline nobody verified.
THEOREM BaselineHolds == Spec => []UnverifiedNeverPublished
  <1>1. BaselineGuarded => UnverifiedNeverPublished
    BY DEF BaselineGuarded
  <1>. QED BY <1>1, TypeInit, TypeStep, BaselineInit, BaselineStep, PTL DEF Spec

(***************************************************************************)
(* Rows are shared, and reopened, only where a call outlived its lease     *)
(***************************************************************************)
LEMMA LeaseInit == Init => LeaseHeld
  BY DEF Init, LeaseHeld, InTime

\* Steps in which nobody comes to hold a row in time, and the rows that are held
\* in time keep their status and their lease.
LEMMA LeaseShrinks ==
  ASSUME TypeOK, LeaseHeld,
         \A w \in Workers : pc'[w] = "idle" => todo'[w] = {} /\ calls'[w] = 0,
         \A w \in Workers, i \in DOMAIN outbox' : InTime(w, i)' =>
           /\ i \in 1 .. lastSequence /\ InTime(w, i)
           /\ outbox'[i].status = outbox[i].status
           /\ outbox'[i].lease = outbox[i].lease
  PROVE  LeaseHeld'
  <1>1. DOMAIN outbox = 1 .. lastSequence
    BY DEF TypeOK
  <1>2. \A w \in Workers, i \in DOMAIN outbox' : InTime(w, i)' =>
          outbox'[i].status = "PROCESSING" /\ outbox'[i].lease = "live"
    BY <1>1 DEF LeaseHeld
  <1>3. \A v, w \in Workers, i \in DOMAIN outbox' :
          InTime(v, i)' /\ InTime(w, i)' => v = w
    BY <1>1 DEF LeaseHeld
  <1>. QED BY <1>2, <1>3 DEF LeaseHeld

\* A step of the timers or the admin falls on a row nobody holds in time.
LEMMA OnlyOrphansExpire ==
  ASSUME TypeOK, LeaseHeld, NEW i \in 1 .. lastSequence,
         LeaseExpires(i) \/ BackoffElapses(i) \/ ManualRetry(i)
  PROVE  \A w \in Workers : ~InTime(w, i)
  <1>1. DOMAIN outbox = 1 .. lastSequence
    BY DEF TypeOK
  <1>2. CASE LeaseExpires(i)
    BY <1>2 DEF LeaseExpires, InTime
  <1>3. CASE BackoffElapses(i) \/ ManualRetry(i)
    BY <1>1, <1>3 DEF BackoffElapses, ManualRetry, LeaseHeld
  <1>. QED BY <1>2, <1>3

LEMMA LeaseStep == TypeOK /\ LeaseHeld /\ [Next]_vars => LeaseHeld'
  <1> SUFFICES ASSUME TypeOK, LeaseHeld, [Next]_vars PROVE LeaseHeld'
    OBVIOUS
  <1> USE DEF workerVars, queueVars, ledgerVars, shopVars, boundVars
  <1>0. /\ DOMAIN outbox = 1 .. lastSequence
        /\ \A w \in Workers : todo[w] \subseteq 1 .. lastSequence
    BY DEF TypeOK
  <1>1. ASSUME NEW p \in Pools, NEW s \in Orders \cup {Elsewhere},
               PostMovement(p, s)
        PROVE  LeaseHeld'
    <2> DEFINE b == p \notin tracked \/ UnresolvedBaseline(p)
    <2>1. Enqueue(p, stock[p] + 1, s, b) /\ UNCHANGED <<pc, todo, calls, lateMarks>>
      BY <1>1 DEF PostMovement
    <2> HIDE DEF b
    <2>2. \A j \in 1 .. lastSequence :
            ~SupersededOnWrite(outbox[j], p) => outbox'[j] = outbox[j]
      BY <2>1, EnqueueRows
    <2>3. ASSUME NEW w \in Workers, NEW i \in DOMAIN outbox', InTime(w, i)'
          PROVE  i \in 1 .. lastSequence /\ InTime(w, i) /\ outbox'[i] = outbox[i]
      <3>1. InTime(w, i) /\ i \in 1 .. lastSequence
        BY <1>0, <2>1, <2>3 DEF InTime, Late
      <3>2. ~SupersededOnWrite(outbox[i], p)
        BY <1>0, <3>1 DEF LeaseHeld, SupersededOnWrite, Open
      <3>. QED BY <2>2, <3>1, <3>2
    <2>4. \A w \in Workers : pc'[w] = "idle" => todo'[w] = {} /\ calls'[w] = 0
      BY <2>1 DEF LeaseHeld
    <2>. QED BY <2>3, <2>4, LeaseShrinks
  <1>2. ASSUME NEW w \in Workers, NEW S \in SUBSET (1 .. lastSequence),
               NEW t \in BOOLEAN, Claim(w, S, t), \A i \in S : Claimable(i)
        PROVE  LeaseHeld'
    <2>1. PICK B \in SUBSET S : Takes(w, B)
      BY <1>2, ClaimRows
    <2>2. /\ pc[w] = "idle" /\ pc' = [pc EXCEPT ![w] = "next"]
          /\ UNCHANGED <<calls, lateMarks>>
      BY <1>2 DEF Claim
    <2>3. \A v \in Workers, i \in B : ~InTime(v, i)
      BY <1>0, <1>2 DEF LeaseHeld, Claimable
    <2>4. /\ \A v \in Workers \ {w} : todo'[v] = todo[v] /\ pc'[v] = pc[v]
          /\ todo'[w] = B /\ pc'[w] = "next" /\ DOMAIN outbox' = 1 .. lastSequence
      BY <2>1, <2>2 DEF Takes, TypeOK
    <2>5. \A v \in Workers : pc'[v] = "idle" => todo'[v] = {} /\ calls'[v] = 0
      BY <2>2, <2>4 DEF LeaseHeld
    <2>6. ASSUME NEW v \in Workers, NEW i \in 1 .. lastSequence, InTime(v, i)'
          PROVE  IF i \in B THEN v = w ELSE v # w /\ InTime(v, i)
      <3>1. CASE v = w
        BY <2>4, <2>6, <3>1 DEF InTime
      <3>2. CASE v # w
        <4>1. InTime(v, i)
          BY <2>2, <2>4, <2>6, <3>2 DEF InTime, Late
        <4>. QED BY <2>3, <3>2, <4>1
      <3>. QED BY <3>1, <3>2
    <2>7. ASSUME NEW v \in Workers, NEW i \in 1 .. lastSequence, InTime(v, i)'
          PROVE  outbox'[i].status = "PROCESSING" /\ outbox'[i].lease = "live"
      <3>1. CASE i \in B
        BY <2>1, <3>1 DEF Takes
      <3>2. CASE i \notin B
        <4>1. InTime(v, i) /\ outbox'[i] = outbox[i]
          BY <2>1, <2>6, <2>7, <3>2 DEF Takes
        <4>. QED BY <1>0, <4>1 DEF LeaseHeld
      <3>. QED BY <3>1, <3>2
    <2>8. \A v, u \in Workers, i \in 1 .. lastSequence :
            InTime(v, i)' /\ InTime(u, i)' => v = u
      BY <1>0, <2>6 DEF LeaseHeld
    <2>. QED BY <2>4, <2>5, <2>7, <2>8 DEF LeaseHeld
  <1>3. ASSUME NEW w \in Workers, NEW i \in 1 .. lastSequence, Closes(w, i)
        PROVE  LeaseHeld'
    <2> DEFINE rest == todo[w] \ {i}
    <2>1. PICK s \in Statuses \ {"PROCESSING"}, n \in Notes, d \in BOOLEAN :
            Mark(i, s, n, d)
      BY <1>3 DEF Closes
    <2>2. /\ DOMAIN outbox' = 1 .. lastSequence
          /\ \A j \in (1 .. lastSequence) \ {i} : outbox'[j] = outbox[j]
      BY <2>1, MarkRows
    <2>3. /\ i \in todo[w] /\ todo' = [todo EXCEPT ![w] = rest]
          /\ pc' = [pc EXCEPT ![w] = IF rest = {} THEN "idle" ELSE "next"]
          /\ calls' = [calls EXCEPT ![w] = IF rest = {} THEN 0 ELSE @]
          /\ lateMarks' = IF Late(w) THEN lateMarks \cup {i} ELSE lateMarks
      BY <1>3 DEF Closes, Finished
    <2> HIDE DEF rest
    <2>4. /\ \A v \in Workers \ {w} :
               todo'[v] = todo[v] /\ pc'[v] = pc[v] /\ calls'[v] = calls[v]
          /\ todo'[w] = rest /\ pc'[w] = (IF rest = {} THEN "idle" ELSE "next")
          /\ calls'[w] = (IF rest = {} THEN 0 ELSE calls[w])
      BY <2>3 DEF TypeOK
    <2>5. \A v \in Workers : pc'[v] = "idle" => todo'[v] = {} /\ calls'[v] = 0
      BY <2>4 DEF LeaseHeld
    <2>6. ASSUME NEW v \in Workers, NEW j \in 1 .. lastSequence, InTime(v, j)'
          PROVE  InTime(v, j) /\ j # i
      <3>1. j \in todo'[v] /\ j \notin lateMarks' /\ ~(calls'[v] > LeaseCalls)
        BY <2>6 DEF InTime, Late
      <3>2. j \notin lateMarks
        BY <2>3, <3>1
      <3>3. CASE v = w
        <4>1. j \in todo[w] /\ j # i /\ calls'[w] = calls[w]
          BY <2>4, <3>1, <3>3 DEF rest
        <4>. QED BY <3>1, <3>2, <3>3, <4>1 DEF InTime, Late
      <3>4. CASE v # w
        <4>1. InTime(v, j)
          BY <2>4, <3>1, <3>2, <3>4 DEF InTime, Late
        <4>2. ASSUME j = i PROVE FALSE
          <5>1. ~Late(w) /\ i \notin lateMarks
            BY <2>3, <3>1, <3>2, <4>2
          <5>2. InTime(w, i)
            BY <2>3, <5>1 DEF InTime
          <5>. QED BY <1>0, <3>4, <4>1, <4>2, <5>2 DEF LeaseHeld
        <4>. QED BY <4>1, <4>2
      <3>. QED BY <3>3, <3>4
    <2>. QED BY <2>2, <2>5, <2>6, LeaseShrinks
  <1>4. ASSUME NEW w \in Workers, Carries(w)
        PROVE  LeaseHeld'
    <2>1. UNCHANGED <<todo, outbox, lateMarks>>
      BY <1>4 DEF Carries
    <2>2. \A v \in Workers : /\ v # w => pc'[v] = pc[v] /\ calls'[v] = calls[v]
                             /\ calls[v] \in Nat /\ calls'[v] \in {calls[v], calls[v] + 1}
      BY <1>4 DEF Carries, TypeOK
    <2>3. pc'[w] # "idle"
      BY <1>4 DEF Carries
    <2>4. \A v \in Workers, j \in 1 .. lastSequence : InTime(v, j)' => InTime(v, j)
      BY <2>1, <2>2, ConfigAssumption DEF InTime, Late
    <2>5. \A v \in Workers : pc'[v] = "idle" => todo'[v] = {} /\ calls'[v] = 0
      BY <2>1, <2>2, <2>3 DEF LeaseHeld
    <2>. QED BY <1>0, <2>1, <2>4, <2>5, LeaseShrinks
  <1>5. ASSUME NEW w \in Workers, AbandonBatch(w)
        PROVE  LeaseHeld'
    <2>1. /\ outbox' = outbox /\ lateMarks' = lateMarks
          /\ \A v \in Workers \ {w} :
               todo'[v] = todo[v] /\ pc'[v] = pc[v] /\ calls'[v] = calls[v]
          /\ todo'[w] = {} /\ calls'[w] = 0
      BY <1>5 DEF AbandonBatch, TypeOK
    <2>2. \A v \in Workers, j \in 1 .. lastSequence : InTime(v, j)' => InTime(v, j)
      BY <2>1 DEF InTime, Late
    <2>3. \A v \in Workers : pc'[v] = "idle" => todo'[v] = {} /\ calls'[v] = 0
      BY <2>1 DEF LeaseHeld
    <2>. QED BY <1>0, <2>1, <2>2, <2>3, LeaseShrinks
  <1>6. ASSUME NEW i \in 1 .. lastSequence,
               LeaseExpires(i) \/ BackoffElapses(i) \/ ManualRetry(i)
        PROVE  LeaseHeld'
    <2>1. \A w \in Workers : ~InTime(w, i)
      BY <1>6, OnlyOrphansExpire
    <2>2. /\ DOMAIN outbox' = 1 .. lastSequence
          /\ \A j \in (1 .. lastSequence) \ {i} : outbox'[j] = outbox[j]
      BY <1>6 DEF LeaseExpires, BackoffElapses, ManualRetry, TypeOK
    <2>3. UNCHANGED <<pc, todo, calls, lateMarks>>
      BY <1>6 DEF LeaseExpires, BackoffElapses, ManualRetry
    <2>4. \A v \in Workers, j \in 1 .. lastSequence : InTime(v, j)' => InTime(v, j)
      BY <2>3 DEF InTime, Late
    <2>5. \A v \in Workers : pc'[v] = "idle" => todo'[v] = {} /\ calls'[v] = 0
      BY <2>3 DEF LeaseHeld
    <2>. QED BY <2>1, <2>2, <2>4, <2>5, LeaseShrinks
  <1>7. CASE UNCHANGED vars
    <2>1. UNCHANGED <<outbox, lastSequence, pc, todo, calls, lateMarks>>
      BY <1>7 DEF vars
    <2>. QED BY <2>1 DEF LeaseHeld, InTime, Late
  <1>8. ASSUME NEW w \in Workers,
               ProcessBatch(w) \/ \E o \in Orders : ProcessForUnasOrder(w, o)
        PROVE  LeaseHeld'
    <2>1. CASE ProcessBatch(w)
      <3> DEFINE S == {i \in DOMAIN outbox : Claimable(i)}
      <3>1. S \in SUBSET (1 .. lastSequence) /\ Claim(w, S, FALSE)
        BY <1>0, <2>1 DEF ProcessBatch
      <3>. QED BY <1>2, <3>1
    <2>2. ASSUME NEW o \in Orders, ProcessForUnasOrder(w, o)
          PROVE  LeaseHeld'
      <3> DEFINE S == {i \in DOMAIN outbox : Claimable(i) /\ outbox[i].source = o}
      <3>1. S \in SUBSET (1 .. lastSequence) /\ Claim(w, S, TRUE)
        BY <1>0, <2>2 DEF ProcessForUnasOrder
      <3>. QED BY <1>2, <3>1
    <2>. QED BY <1>8, <2>1, <2>2
  <1>. QED BY <1>0, <1>1, <1>3, <1>4, <1>5, <1>6, <1>7, <1>8, WorkerStep DEF Next

\* For any number of calls, batches and leases: two calls hold one row only if
\* one of them has outlived its lease, or a call that had has marked the row.
THEOREM ClaimsAreExclusive == Spec => []ExclusiveUntilLate
  <1>1. TypeOK /\ LeaseHeld => ExclusiveUntilLate
    <2> SUFFICES ASSUME TypeOK, LeaseHeld, NEW v \in Workers, NEW w \in Workers,
                        v # w, NEW i \in todo[v] \cap todo[w]
                 PROVE  Late(v) \/ Late(w) \/ i \in lateMarks
      BY DEF ExclusiveUntilLate
    <2>1. i \in DOMAIN outbox
      BY DEF TypeOK
    <2>. QED BY <2>1 DEF LeaseHeld, InTime
  <1>. QED BY <1>1, TypeInit, TypeStep, LeaseInit, LeaseStep, PTL DEF Spec

LEMMA FinalStep ==
  ASSUME TypeOK, LeaseHeld, [Next]_vars,
         NEW i \in DOMAIN outbox, outbox[i].status = "SUCCEEDED",
         i \notin lateMarks'
  PROVE  outbox'[i].status = "SUCCEEDED"
  <1> USE DEF workerVars, queueVars, ledgerVars, shopVars, boundVars
  <1>0. i \in 1 .. lastSequence /\ DOMAIN outbox = 1 .. lastSequence
    BY DEF TypeOK
  <1>1. ASSUME NEW p \in Pools, NEW s \in Orders \cup {Elsewhere},
               PostMovement(p, s)
        PROVE  outbox'[i].status = "SUCCEEDED"
    <2> DEFINE b == p \notin tracked \/ UnresolvedBaseline(p)
    <2>1. Enqueue(p, stock[p] + 1, s, b)
      BY <1>1 DEF PostMovement
    <2> HIDE DEF b
    <2>2. ~SupersededOnWrite(outbox[i], p)
      BY DEF SupersededOnWrite, Open
    <2>. QED BY <1>0, <2>1, <2>2, EnqueueRows
  <1>2. ASSUME NEW w \in Workers, NEW S \in SUBSET (1 .. lastSequence),
               NEW t \in BOOLEAN, Claim(w, S, t), \A j \in S : Claimable(j)
        PROVE  outbox'[i].status = "SUCCEEDED"
    <2>1. PICK B \in SUBSET S : Takes(w, B)
      BY <1>2, ClaimRows
    <2>2. i \notin B
      BY <1>2 DEF Claimable
    <2>. QED BY <1>0, <2>1, <2>2 DEF Takes
  <1>3. ASSUME NEW w \in Workers, NEW j \in 1 .. lastSequence, Closes(w, j)
        PROVE  outbox'[i].status = "SUCCEEDED"
    <2>1. PICK s \in Statuses, n \in Notes, d \in BOOLEAN : Mark(j, s, n, d)
      BY <1>3 DEF Closes
    <2>2. j \in todo[w] /\ lateMarks' = IF Late(w) THEN lateMarks \cup {j} ELSE lateMarks
      BY <1>3 DEF Closes, Finished
    <2>3. j # i
      BY <1>0, <2>2 DEF LeaseHeld, InTime
    <2>. QED BY <1>0, <2>1, <2>3, MarkRows
  <1>4. ASSUME NEW w \in Workers, Carries(w)
        PROVE  outbox'[i].status = "SUCCEEDED"
    BY <1>4 DEF Carries
  <1>5. ASSUME NEW w \in Workers, AbandonBatch(w)
        PROVE  outbox'[i].status = "SUCCEEDED"
    BY <1>5 DEF AbandonBatch
  <1>6. ASSUME NEW j \in 1 .. lastSequence,
               LeaseExpires(j) \/ BackoffElapses(j) \/ ManualRetry(j)
        PROVE  outbox'[i].status = "SUCCEEDED"
    <2>1. j # i
      BY <1>6 DEF LeaseExpires, BackoffElapses, ManualRetry
    <2>. QED BY <1>0, <1>6, <2>1 DEF LeaseExpires, BackoffElapses, ManualRetry
  <1>7. CASE UNCHANGED vars
    BY <1>7 DEF vars
  <1>8. ASSUME NEW w \in Workers,
               ProcessBatch(w) \/ \E o \in Orders : ProcessForUnasOrder(w, o)
        PROVE  outbox'[i].status = "SUCCEEDED"
    <2>1. CASE ProcessBatch(w)
      <3> DEFINE S == {j \in DOMAIN outbox : Claimable(j)}
      <3>1. S \in SUBSET (1 .. lastSequence) /\ Claim(w, S, FALSE)
        BY <1>0, <2>1 DEF ProcessBatch
      <3>. QED BY <1>2, <3>1
    <2>2. ASSUME NEW o \in Orders, ProcessForUnasOrder(w, o)
          PROVE  outbox'[i].status = "SUCCEEDED"
      <3> DEFINE S == {j \in DOMAIN outbox : Claimable(j) /\ outbox[j].source = o}
      <3>1. S \in SUBSET (1 .. lastSequence) /\ Claim(w, S, TRUE)
        BY <1>0, <2>2 DEF ProcessForUnasOrder
      <3>. QED BY <1>2, <3>1
    <2>. QED BY <1>8, <2>1, <2>2
  <1>. QED BY <1>0, <1>1, <1>3, <1>4, <1>5, <1>6, <1>7, <1>8, WorkerStep DEF Next

\* No step reopens a settled row that no call past its lease has ever marked:
\* the mark of a call in time falls on a row that is still PROCESSING.
THEOREM SettledStaysSettled == Spec => ReopenedOnlyLate
  <1>1. TypeOK /\ LeaseHeld /\ [Next]_vars
          => [\A i \in DOMAIN outbox :
                outbox[i].status = "SUCCEEDED" /\ outbox'[i].status # "SUCCEEDED"
                  => i \in lateMarks']_vars
    BY FinalStep
  <1>. QED BY <1>1, TypeInit, TypeStep, LeaseInit, LeaseStep, PTL
           DEF Spec, ReopenedOnlyLate

(***************************************************************************)
(* What has been published is current                                      *)
(***************************************************************************)
\* No step but a posting touches the ledger, or what rows are for.
KeepsRows ==
  /\ UNCHANGED <<stock, tracked, lastSequence>>
  /\ DOMAIN outbox' = 1 .. lastSequence
  /\ \A j \in 1 .. lastSequence : outbox'[j].pool = outbox[j].pool

LEMMA RowsAreKept ==
  ASSUME TypeOK, [Next]_vars
  PROVE  \/ \E p \in Pools, s \in Orders \cup {Elsewhere} : PostMovement(p, s)
         \/ KeepsRows
  <1> USE DEF workerVars, queueVars, ledgerVars, shopVars, boundVars
  <1>0. DOMAIN outbox = 1 .. lastSequence
    BY DEF TypeOK
  <1>1. ASSUME NEW w \in Workers, NEW S \in SUBSET (1 .. lastSequence),
               NEW t \in BOOLEAN, Claim(w, S, t)
        PROVE  KeepsRows
    <2>1. PICK B \in SUBSET S : Takes(w, B)
      BY <1>1, ClaimRows
    <2>2. UNCHANGED <<stock, tracked, lastSequence>>
      BY <1>1 DEF Claim
    <2>. QED BY <2>1, <2>2 DEF Takes, KeepsRows
  <1>2. ASSUME NEW w \in Workers, NEW i \in 1 .. lastSequence, Closes(w, i)
        PROVE  KeepsRows
    <2>1. PICK s \in Statuses, n \in Notes, d \in BOOLEAN : Mark(i, s, n, d)
      BY <1>2 DEF Closes
    <2>2. UNCHANGED <<stock, tracked, lastSequence>>
      BY <1>2 DEF Closes
    <2>. QED BY <2>1, <2>2, MarkRows DEF KeepsRows
  <1>3. ASSUME NEW w \in Workers, Carries(w)
        PROVE  KeepsRows
    BY <1>0, <1>3 DEF Carries, KeepsRows
  <1>4. ASSUME NEW w \in Workers, AbandonBatch(w)
        PROVE  KeepsRows
    BY <1>0, <1>4 DEF AbandonBatch, KeepsRows
  <1>5. ASSUME NEW i \in 1 .. lastSequence,
               LeaseExpires(i) \/ BackoffElapses(i) \/ ManualRetry(i)
        PROVE  KeepsRows
    <2>1. outbox[i] \in Row
      BY DEF TypeOK
    <2>2. UNCHANGED <<stock, tracked, lastSequence>>
      BY <1>5 DEF LeaseExpires, BackoffElapses, ManualRetry
    <2>3. PICK r \in {[outbox[i] EXCEPT !.lease = "expired"],
                      [outbox[i] EXCEPT !.due = TRUE],
                      [outbox[i] EXCEPT !.status = "PENDING", !.attempts = 0,
                         !.due = TRUE, !.lease = "none", !.note = "manual_retry"]} :
            outbox' = [outbox EXCEPT ![i] = r]
      BY <1>5 DEF LeaseExpires, BackoffElapses, ManualRetry
    <2>4. r.pool = outbox[i].pool
      BY <2>1, <2>3 DEF Row
    <2>5. \A j \in 1 .. lastSequence : outbox'[j] = IF j = i THEN r ELSE outbox[j]
      BY <1>0, <2>3
    <2>6. DOMAIN outbox' = 1 .. lastSequence
      BY <1>0, <2>3
    <2>. QED BY <2>2, <2>4, <2>5, <2>6 DEF KeepsRows
  <1>6. CASE UNCHANGED vars
    BY <1>0, <1>6 DEF vars, KeepsRows
  <1>7. ASSUME NEW w \in Workers, ProcessBatch(w)
        PROVE  KeepsRows
    <2> DEFINE S == {j \in DOMAIN outbox : Claimable(j)}
    <2>1. S \in SUBSET (1 .. lastSequence) /\ Claim(w, S, FALSE)
      BY <1>0, <1>7 DEF ProcessBatch
    <2>. QED BY <1>1, <2>1
  <1>8. ASSUME NEW w \in Workers, NEW o \in Orders, ProcessForUnasOrder(w, o)
        PROVE  KeepsRows
    <2> DEFINE S == {j \in DOMAIN outbox : Claimable(j) /\ outbox[j].source = o}
    <2>1. S \in SUBSET (1 .. lastSequence) /\ Claim(w, S, TRUE)
      BY <1>0, <1>8 DEF ProcessForUnasOrder
    <2>. QED BY <1>1, <2>1
  <1>. QED BY <1>0, <1>2, <1>3, <1>4, <1>5, <1>6, <1>7, <1>8, WorkerStep DEF Next

LEMMA SameNewest ==
  ASSUME TypeOK, KeepsRows
  PROVE  /\ DOMAIN outbox = 1 .. lastSequence
         /\ \A p : RowsOf(p)' = RowsOf(p)
         /\ \A i \in 1 .. lastSequence : Newest(i)' <=> Newest(i)
  <1>1. DOMAIN outbox = 1 .. lastSequence
    BY DEF TypeOK
  <1>2. ASSUME NEW p PROVE RowsOf(p)' = RowsOf(p)
    BY <1>1 DEF KeepsRows, RowsOf
  <1>3. ASSUME NEW i \in 1 .. lastSequence PROVE Newest(i)' <=> Newest(i)
    <2>1. outbox'[i].pool = outbox[i].pool
      BY DEF KeepsRows
    <2>2. Newest(i)' <=> \A j \in RowsOf(outbox[i].pool) : j <= i
      BY <1>2, <2>1 DEF Newest
    <2>. QED BY <2>2 DEF Newest
  <1>. QED BY <1>1, <1>2, <1>3

\* After a posting to p the new row is the newest of p; no other row of p is,
\* and other pools keep their newest rows.
LEMMA PostingRows ==
  ASSUME TypeOK, NEW p \in Pools, NEW s \in Orders \cup {Elsewhere},
         PostMovement(p, s)
  PROVE  LET n == lastSequence + 1 IN
         /\ lastSequence \in Nat /\ lastSequence' = n
         /\ DOMAIN outbox = 1 .. lastSequence /\ DOMAIN outbox' = 1 .. n
         /\ outbox'[n].pool = p
         /\ outbox'[n].status \in {"PENDING", "DEAD_LETTER"}
         /\ stock' = [stock EXCEPT ![p] = stock[p] + 1]
         /\ tracked' = tracked \cup {p}
         /\ \A j \in 1 .. lastSequence :
              /\ outbox'[j].pool = outbox[j].pool
              /\ outbox'[j].status # outbox[j].status => outbox[j].pool = p
              /\ outbox[j].status \notin Open => outbox'[j] = outbox[j]
              /\ Newest(j)' => outbox[j].pool # p /\ Newest(j)
  <1> DEFINE b == p \notin tracked \/ UnresolvedBaseline(p)
             n == lastSequence + 1
  <1>1. /\ Enqueue(p, stock[p] + 1, s, b)
        /\ stock' = [stock EXCEPT ![p] = stock[p] + 1] /\ tracked' = tracked \cup {p}
    BY DEF PostMovement
  <1>2. /\ NewRow(p, stock[p] + 1, s, b).pool = p
        /\ NewRow(p, stock[p] + 1, s, b).status \in {"PENDING", "DEAD_LETTER"}
    BY DEF NewRow
  <1> HIDE DEF b
  <1>3. lastSequence \in Nat /\ DOMAIN outbox = 1 .. lastSequence
    BY ConfigAssumption DEF TypeOK
  <1>4. /\ lastSequence' = n /\ DOMAIN outbox' = 1 .. n
        /\ outbox'[n] = NewRow(p, stock[p] + 1, s, b)
        /\ \A j \in 1 .. lastSequence :
              /\ outbox'[j].pool = outbox[j].pool
              /\ ~SupersededOnWrite(outbox[j], p) => outbox'[j] = outbox[j]
    BY <1>1, EnqueueRows
  <1>5. ASSUME NEW j \in 1 .. lastSequence, Newest(j)'
        PROVE  outbox[j].pool # p /\ Newest(j)
    <2>1. outbox'[j].pool = outbox[j].pool /\ j \in 1 .. n /\ n \in 1 .. n /\ ~ n <= j
      BY <1>3, <1>4
    <2>2. \A k \in 1 .. n : outbox'[k].pool = outbox[j].pool => k <= j
      BY <1>4, <1>5, <2>1 DEF Newest, RowsOf
    <2>3. outbox[j].pool # p
      BY <1>2, <1>4, <2>1, <2>2
    <2>4. \A k \in 1 .. lastSequence : outbox[k].pool = outbox[j].pool => k <= j
      BY <1>3, <1>4, <2>2
    <2>. QED BY <1>3, <2>3, <2>4 DEF Newest, RowsOf
  <1>6. ASSUME NEW j \in 1 .. lastSequence
        PROVE  /\ outbox'[j].status # outbox[j].status => outbox[j].pool = p
               /\ outbox[j].status \notin Open => outbox'[j] = outbox[j]
    BY <1>4 DEF SupersededOnWrite
  <1>. QED BY <1>1, <1>2, <1>3, <1>4, <1>5, <1>6


\* A call that carries a level does so for a row, of a pool and a variant.
LEMMA HandType ==
  ASSUME TypeOK, NEW w \in Workers, pc[w] \in Sending
  PROVE  /\ cur[w] \in 1 .. lastSequence /\ cur[w] \in DOMAIN outbox
         /\ CarriedPool(w) \in Pools /\ VariantOf[CarriedPool(w)] \in Variants
         /\ outbox[cur[w]] \in Row
         /\ qty[w] \in Nat /\ stamp[w] \in Nat /\ overtaken[w] \in BOOLEAN
  <1>1. cur[w] \in 1 .. lastSequence
    BY DEF TypeOK, Sending
  <1>2. outbox[cur[w]] \in Row /\ outbox[cur[w]].pool \in Pools
    BY <1>1 DEF TypeOK, Row
  <1>. QED BY <1>1, <1>2, ConfigAssumption DEF TypeOK, CarriedPool

\* A step leaves the hands of w alone; every call that waits to mark did before.
SameHand(w) ==
  /\ pc'[w] = pc[w] /\ cur'[w] = cur[w] /\ qty'[w] = qty[w]
  /\ stamp'[w] = stamp[w] /\ overtaken'[w] = overtaken[w]
RowPools == \A j \in 1 .. lastSequence : outbox'[j].pool = outbox[j].pool
MarksKept == \A w \in Workers : pc'[w] = "mark" => SameHand(w)

LEMMA SamePool ==
  ASSUME TypeOK, RowPools, NEW w \in Workers, pc[w] \in Sending, cur'[w] = cur[w]
  PROVE  CarriedPool(w)' = CarriedPool(w)
  BY HandType DEF RowPools, CarriedPool

LEMMA CarriesFrame ==
  ASSUME TypeOK, KeepsRows, NEW w \in Workers, CarriesWell(w),
         UNCHANGED <<sent, shop>>, pc'[w] \in Sending => SameHand(w),
         pc'[w] = "mark" => stamp'[w] <= clock',
         overtaken'[w] => overtaken[w]
  PROVE  CarriesWell(w)'
  <1>1. CASE pc'[w] \notin Sending
    BY <1>1 DEF CarriesWell, Sending
  <1>2. CASE pc'[w] \in Sending
    <2>1. SameHand(w) /\ pc[w] \in Sending
      BY <1>2 DEF SameHand
    <2>2. CarriedPool(w)' = CarriedPool(w)
      BY <2>1, SamePool DEF KeepsRows, RowPools, SameHand
    <2>3. PICK c \in 1 .. lastSequence : c = cur[w] /\ c = cur'[w]
      BY <2>1, HandType DEF SameHand
    <2>4. Newest(c)' <=> Newest(c)
      BY SameNewest
    <2>5. Newest(cur[w])' <=> Newest(c)'
      BY <2>3 DEF Newest, RowsOf
    <2>. QED BY <2>1, <2>2, <2>3, <2>4, <2>5 DEF CarriesWell, SameHand, KeepsRows
  <1>. QED BY <1>1, <1>2

LEMMA StampsFrame ==
  ASSUME TypeOK, StampsWell, RowPools, MarksKept, reported' = reported
  PROVE  StampsWell'
  <1> SUFFICES ASSUME NEW u \in Workers, pc'[u] = "mark"
               PROVE  LET p == CarriedPool(u)'
                          v == VariantOf[p] IN
                      /\ \A w \in Workers \ {u} : pc'[w] = "mark" =>
                           /\ stamp'[u] # stamp'[w]
                           /\ CarriedPool(w)' = p /\ stamp'[u] < stamp'[w] /\ ~overtaken'[w]
                                => qty'[u] <= qty'[w]
                      /\ /\ reported'[v].view.from = p /\ ~reported'[v].view.late
                         /\ stamp'[u] < reported'[v].at
                         => qty'[u] <= reported'[v].view.level
    BY DEF StampsWell
  <1>1. SameHand(u) /\ pc[u] = "mark" /\ CarriedPool(u)' = CarriedPool(u)
    BY SamePool DEF MarksKept, SameHand, Sending
  <1>2. \A w \in Workers : pc'[w] = "mark" =>
           SameHand(w) /\ pc[w] = "mark" /\ CarriedPool(w)' = CarriedPool(w)
    BY SamePool DEF MarksKept, SameHand, Sending
  <1>. QED BY <1>1, <1>2 DEF StampsWell, SameHand

\* Steps that settle no row and leave no published pool behind.
LEMMA SettledFrame ==
  ASSUME TypeOK, SettledWell, KeepsRows, MarksKept, reported' = reported,
         \A p \in Pools : sent[p] = stock[p] => sent'[p] = stock[p],
         \A v \in Variants : shop[v].from # Nowhere => shop'[v].from # Nowhere,
         \A j \in 1 .. lastSequence :
           /\ outbox'[j].status = "SUCCEEDED" /\ Newest(j)
           /\ Publishable(outbox[j].pool)
           => outbox[j].status = "SUCCEEDED"
  PROVE  SettledWell'
  <1> SUFFICES ASSUME NEW p \in Pools, NEW i \in DOMAIN outbox',
                      outbox'[i].pool = p, Publishable(p), Newest(i)',
                      outbox'[i].status = "SUCCEEDED"
               PROVE  SettledPool(p)'
    BY DEF SettledWell, Publishable
  <1>1. i \in 1 .. lastSequence /\ i \in DOMAIN outbox /\ outbox[i].pool = p
          /\ Newest(i)
    BY SameNewest DEF KeepsRows
  <1>2. SettledPool(p)
    BY <1>1 DEF SettledWell
  <1>3. VariantOf[p] \in Variants
    BY ConfigAssumption
  <1>4. ASSUME NEW w \in Workers, pc'[w] = "mark"
        PROVE  SameHand(w) /\ pc[w] = "mark" /\ CarriedPool(w)' = CarriedPool(w)
    <2>1. SameHand(w)
      BY <1>4 DEF MarksKept
    <2>. QED BY <1>4, <2>1, SamePool DEF SameHand, Sending, KeepsRows, RowPools
  <1>5. Shows(reported[VariantOf[p]].view, p)'
    BY <1>2 DEF KeepsRows, SettledPool, Shows
  <1>6. \A w \in Workers :
          /\ pc'[w] = "mark" /\ CarriedPool(w)' = p
          /\ ~overtaken'[w] /\ reported'[VariantOf[p]].at <= stamp'[w]
          => qty'[w] = stock'[p]
    BY <1>2, <1>4 DEF KeepsRows, SettledPool, SameHand
  <1>7. sent'[p] = stock'[p] /\ shop'[VariantOf[p]].from # Nowhere
    BY <1>2, <1>3 DEF KeepsRows, SettledPool
  <1>. QED BY <1>5, <1>6, <1>7 DEF SettledPool

\* Steps that touch neither the ledger nor what was sent, shown or reported, and
\* give no call anything new to carry.
QuietStep ==
  /\ KeepsRows /\ UNCHANGED <<shop, reported, sent, clock>>
  /\ \A w \in Workers : pc'[w] \in Sending => SameHand(w)
  /\ \A w \in Workers : overtaken'[w] => overtaken[w]
  /\ \A j \in 1 .. lastSequence :
       /\ outbox'[j].status = "SUCCEEDED" /\ Newest(j)
       /\ Publishable(outbox[j].pool)
       => outbox[j].status = "SUCCEEDED"

LEMMA QuietFrame ==
  ASSUME TypeOK, PublishWell, QuietStep
  PROVE  PublishWell'
  <1>1. \A w \in Workers : CarriesWell(w)'
    <2> SUFFICES ASSUME NEW w \in Workers PROVE CarriesWell(w)'
      OBVIOUS
    <2>1. pc'[w] \in Sending => SameHand(w)
      BY DEF QuietStep
    <2>2. pc'[w] = "mark" => stamp'[w] <= clock'
      BY <2>1 DEF QuietStep, SameHand, PublishWell, CarriesWell, Sending
    <2>. QED BY <2>1, <2>2, CarriesFrame DEF QuietStep, PublishWell
  <1>2. MarksKept /\ RowPools
    BY DEF QuietStep, KeepsRows, MarksKept, RowPools, Sending
  <1>3. StampsWell'
    BY <1>2, StampsFrame DEF QuietStep, PublishWell
  <1>4. SettledWell'
    BY <1>2, SettledFrame DEF QuietStep, PublishWell, KeepsRows
  <1>5. ShopWell' /\ ReportedWell'
    BY DEF QuietStep, PublishWell, ShopWell, ReportedWell
  <1>6. /\ \A i \in DOMAIN outbox' : outbox'[i].pool \in tracked'
        /\ \A p \in Pools : sent'[p] <= stock'[p]
    BY SameNewest DEF QuietStep, KeepsRows, PublishWell
  <1>. QED BY <1>1, <1>3, <1>4, <1>5, <1>6 DEF PublishWell

LEMMA PublishInit == Init => PublishWell
  <1> SUFFICES ASSUME Init PROVE PublishWell
    OBVIOUS
  <1>1. \A w \in Workers : CarriesWell(w)
    BY DEF Init, CarriesWell, Sending
  <1>2. ShopWell /\ ReportedWell
    BY DEF Init, ShopWell, ReportedWell, Unseen
  <1>3. StampsWell /\ SettledWell
    BY DEF Init, StampsWell, SettledWell
  <1>4. /\ \A i \in DOMAIN outbox : outbox[i].pool \in tracked
        /\ \A p \in Pools : sent[p] <= stock[p]
    BY DEF Init
  <1>. QED BY <1>1, <1>2, <1>3, <1>4 DEF PublishWell

\* A call that has marked a row carries nothing; the others go on as they were.
LEMMA FinishedHands ==
  ASSUME TypeOK, NEW w \in Workers, NEW i, Finished(w, i)
  PROVE  /\ pc'[w] \in {"idle", "next"} /\ ~overtaken'[w]
         /\ \A v \in Workers \ {w} : SameHand(v)
         /\ \A v \in Workers : pc'[v] \in Sending => v # w /\ SameHand(v)
         /\ \A v \in Workers : overtaken'[v] => overtaken[v]
  BY DEF Finished, TypeOK, SameHand, Sending

\* A step on one worker that leaves it with nothing to send.
LEMMA OneHand ==
  ASSUME TypeOK, NEW w \in Workers, NEW x \in PcValues \ Sending,
         pc' = [pc EXCEPT ![w] = x], cur' = cur \/ cur' = [cur EXCEPT ![w] = cur'[w]],
         UNCHANGED <<qty, stamp, overtaken>>
  PROVE  /\ \A v \in Workers : pc'[v] \in Sending => SameHand(v)
         /\ \A v \in Workers : overtaken'[v] => overtaken[v]
  BY DEF TypeOK, SameHand, Sending

LEMMA QuietClose ==
  ASSUME TypeOK, KeepsRows, NEW w \in Workers, NEW i \in 1 .. lastSequence,
         Finished(w, i), UNCHANGED <<shop, reported, sent, clock>>,
         \A j \in 1 .. lastSequence : j # i => outbox'[j] = outbox[j],
         \/ outbox'[i].status # "SUCCEEDED"
         \/ ~Newest(i)
         \/ ~Publishable(outbox[i].pool)
  PROVE  QuietStep
  BY FinishedHands DEF QuietStep

LEMMA QuietClaim ==
  ASSUME TypeOK, KeepsRows, NEW w \in Workers, NEW S \in SUBSET (1 .. lastSequence),
         NEW t \in BOOLEAN, Claim(w, S, t)
  PROVE  QuietStep
  <1>1. PICK B \in SUBSET S : Takes(w, B)
    BY ClaimRows
  <1>2. /\ pc' = [pc EXCEPT ![w] = "next"]
        /\ UNCHANGED <<cur, qty, stamp, overtaken, shop, reported, sent, clock>>
    BY DEF Claim, shopVars, boundVars
  <1>3. \A j \in 1 .. lastSequence :
          outbox'[j].status = "SUCCEEDED" => outbox[j].status = "SUCCEEDED"
    BY <1>1 DEF Takes
  <1>4. /\ \A v \in Workers : pc'[v] \in Sending => SameHand(v)
        /\ \A v \in Workers : overtaken'[v] => overtaken[v]
    BY <1>2, OneHand DEF PcValues, Sending
  <1>. QED BY <1>2, <1>3, <1>4 DEF QuietStep

LEMMA QuietTimer ==
  ASSUME TypeOK, KeepsRows, NEW i \in 1 .. lastSequence,
         LeaseExpires(i) \/ BackoffElapses(i) \/ ManualRetry(i)
  PROVE  QuietStep
  <1> USE DEF workerVars, shopVars, boundVars
  <1>1. outbox[i] \in Row
    BY DEF TypeOK
  <1>2. UNCHANGED <<pc, cur, qty, stamp, overtaken, shop, reported, sent, clock>>
    BY DEF LeaseExpires, BackoffElapses, ManualRetry
  <1>3. PICK r \in {[outbox[i] EXCEPT !.lease = "expired"],
                    [outbox[i] EXCEPT !.due = TRUE],
                    [outbox[i] EXCEPT !.status = "PENDING", !.attempts = 0,
                       !.due = TRUE, !.lease = "none", !.note = "manual_retry"]} :
          outbox' = [outbox EXCEPT ![i] = r]
    BY DEF LeaseExpires, BackoffElapses, ManualRetry
  <1>4. r.status # outbox[i].status => r.status = "PENDING"
    BY <1>1, <1>3 DEF Row
  <1>5. \A j \in 1 .. lastSequence : outbox'[j] = IF j = i THEN r ELSE outbox[j]
    BY <1>3 DEF TypeOK
  <1>6. \A j \in 1 .. lastSequence :
          outbox'[j].status = "SUCCEEDED" => outbox[j].status = "SUCCEEDED"
    BY <1>4, <1>5
  <1>. QED BY <1>2, <1>6 DEF QuietStep, SameHand

LEMMA QuietWorker ==
  ASSUME TypeOK, KeepsRows, NEW w \in Workers,
         \/ \E i \in todo[w] : StartRow(w, i)
         \/ GetToken(w) \/ SetStockFails(w) \/ MarkSucceededFails(w) \/ AbandonBatch(w)
  PROVE  QuietStep
  <1> USE DEF queueVars, shopVars, boundVars
  <1>1. ASSUME outbox' = outbox, UNCHANGED <<shop, reported, sent, clock>>,
               \A v \in Workers : pc'[v] \in Sending => SameHand(v),
               \A v \in Workers : overtaken'[v] => overtaken[v]
        PROVE  QuietStep
    BY <1>1 DEF QuietStep
  <1>2. ASSUME NEW i \in todo[w], StartRow(w, i) PROVE QuietStep
    <2>1. PICK x \in {"read", "login"} : pc' = [pc EXCEPT ![w] = x]
      BY <1>2 DEF StartRow
    <2>2. /\ \A v \in Workers : pc'[v] \in Sending => SameHand(v)
          /\ \A v \in Workers : overtaken'[v] => overtaken[v]
      <3>1. x \in PcValues \ Sending
        BY DEF PcValues, Sending
      <3>2. cur' = [cur EXCEPT ![w] = i] /\ cur'[w] = i
        BY <1>2 DEF StartRow, TypeOK
      <3>3. UNCHANGED <<qty, stamp, overtaken>>
        BY <1>2 DEF StartRow
      <3>. QED BY <2>1, <3>1, <3>2, <3>3, OneHand
    <2>. QED BY <1>1, <1>2, <2>2 DEF StartRow
  <1>3. CASE GetToken(w)
    BY <1>1, <1>3, OneHand DEF GetToken, PcValues, Sending
  <1>4. CASE SetStockFails(w)
    BY <1>1, <1>4, OneHand DEF SetStockFails, PcValues, Sending
  <1>5. CASE MarkSucceededFails(w)
    BY <1>1, <1>5, OneHand DEF MarkSucceededFails, PcValues, Sending
  <1>6. CASE AbandonBatch(w)
    <2>1. \A v \in Workers : pc'[v] \in Sending => SameHand(v)
      BY <1>6 DEF AbandonBatch, TypeOK, SameHand, Sending
    <2>2. \A v \in Workers : overtaken'[v] => overtaken[v]
      BY <1>6 DEF AbandonBatch, TypeOK
    <2>. QED BY <1>1, <1>6, <2>1, <2>2 DEF AbandonBatch
  <1>. QED BY <1>2, <1>3, <1>4, <1>5, <1>6

\* A posting raises a level and hands nobody anything.
LEMMA PublishPosting ==
  ASSUME TypeOK, PublishWell, NEW p \in Pools, NEW s \in Orders \cup {Elsewhere},
         PostMovement(p, s)
  PROVE  PublishWell'
  <1> USE DEF workerVars, shopVars, boundVars
  <1> DEFINE n == lastSequence + 1
  <1>1. UNCHANGED <<pc, cur, qty, stamp, overtaken, shop, reported, sent, clock>>
    BY DEF PostMovement
  <1>2. /\ DOMAIN outbox = 1 .. lastSequence /\ DOMAIN outbox' = 1 .. n
        /\ outbox'[n].pool = p /\ outbox'[n].status # "SUCCEEDED"
        /\ stock' = [stock EXCEPT ![p] = stock[p] + 1]
        /\ tracked' = tracked \cup {p} /\ lastSequence \in Nat
    BY PostingRows
  <1>3. \A j \in 1 .. lastSequence :
          /\ outbox'[j].pool = outbox[j].pool
          /\ outbox'[j].status # outbox[j].status => outbox[j].pool = p
          /\ Newest(j)' => outbox[j].pool # p /\ Newest(j)
    BY PostingRows
  <1>4. \A q \in Pools : /\ stock[q] \in Nat /\ stock'[q] \in Nat
                         /\ stock[q] <= stock'[q]
                         /\ q # p => stock'[q] = stock[q]
    BY <1>2 DEF TypeOK
  <1>5. MarksKept /\ RowPools
    BY <1>1, <1>3 DEF MarksKept, RowPools, SameHand
  <1>6. ASSUME NEW w \in Workers PROVE CarriesWell(w)'
    <2>1. CarriesWell(w)
      BY DEF PublishWell
    <2>2. CASE pc[w] \notin Sending
      BY <1>1, <2>1, <2>2 DEF CarriesWell, Sending
    <2>3. CASE pc[w] \in Sending
      <3>1. PICK c \in 1 .. lastSequence, q \in Pools :
              /\ c = cur[w] /\ c = cur'[w] /\ q = CarriedPool(w)
              /\ q = outbox[c].pool /\ qty[w] \in Nat
        BY <1>1, <2>3, HandType DEF CarriedPool
      <3>2. CarriedPool(w)' = q
        BY <1>5, <2>3, <3>1, SamePool
      <3>3. Newest(cur[w])' => q # p /\ Newest(cur[w])
        <4>1. Newest(cur[w])' <=> Newest(c)'
          BY <3>1 DEF Newest, RowsOf
        <4>. QED BY <1>3, <3>1, <4>1
      <3>. QED BY <1>1, <1>4, <2>1, <3>1, <3>2, <3>3 DEF CarriesWell
    <2>. QED BY <2>2, <2>3
  <1>7. StampsWell'
    BY <1>1, <1>5, StampsFrame DEF PublishWell
  <1>8. SettledWell'
    <2> SUFFICES ASSUME NEW q \in Pools, NEW i \in DOMAIN outbox',
                        outbox'[i].pool = q, Publishable(q), Newest(i)',
                        outbox'[i].status = "SUCCEEDED"
                 PROVE  SettledPool(q)'
      BY DEF SettledWell, Publishable
    <2>1. i \in 1 .. lastSequence
      BY <1>2
    <2>2. outbox[i].pool = q /\ q # p /\ Newest(i) /\ outbox[i].status = "SUCCEEDED"
      BY <1>3, <2>1
    <2>3. SettledPool(q)
      BY <1>2, <2>1, <2>2 DEF PublishWell, SettledWell
    <2>4. ASSUME NEW w \in Workers, pc'[w] = "mark"
          PROVE  pc[w] = "mark" /\ CarriedPool(w)' = CarriedPool(w)
      <3>1. pc[w] = "mark" /\ cur'[w] = cur[w]
        BY <1>1, <2>4
      <3>. QED BY <1>5, <3>1, SamePool DEF Sending
    <2>5. Shows(reported[VariantOf[q]].view, q)'
      BY <1>1, <1>4, <2>2, <2>3 DEF SettledPool, Shows
    <2>6. \A w \in Workers :
            /\ pc'[w] = "mark" /\ CarriedPool(w)' = q
            /\ ~overtaken'[w] /\ reported'[VariantOf[q]].at <= stamp'[w]
            => qty'[w] = stock'[q]
      BY <1>1, <1>4, <2>2, <2>3, <2>4 DEF SettledPool
    <2>7. sent'[q] = stock'[q] /\ shop'[VariantOf[q]].from # Nowhere
      BY <1>1, <1>4, <2>2, <2>3 DEF SettledPool
    <2>. QED BY <2>5, <2>6, <2>7 DEF SettledPool
  <1>9. ShopWell' /\ ReportedWell'
    BY <1>1 DEF PublishWell, ShopWell, ReportedWell
  <1>10. \A q \in Pools : sent'[q] <= stock'[q]
    BY <1>1, <1>4 DEF PublishWell, TypeOK
  <1>11. \A i \in DOMAIN outbox' : outbox'[i].pool \in tracked'
    BY <1>2, <1>3 DEF PublishWell
  <1>. QED BY <1>6, <1>7, <1>8, <1>9, <1>10, <1>11 DEF PublishWell

\* What the three steps that carry a level share: the rows stay.
LEMMA RowsStay ==
  ASSUME TypeOK, PublishWell, UNCHANGED <<stock, tracked, outbox, lastSequence>>
  PROVE  /\ KeepsRows /\ RowPools
         /\ \A i \in DOMAIN outbox' : outbox'[i].pool \in tracked'
         /\ sent' = sent => \A q \in Pools : sent'[q] <= stock'[q]
  BY DEF TypeOK, KeepsRows, RowPools, PublishWell

\* Reading the stock: the pool of a row has a StockItem, so it is the ledger's
\* level.
LEMMA PublishRead ==
  ASSUME TypeOK, PublishWell, NEW w \in Workers, ReadStock(w)
  PROVE  PublishWell'
  <1> USE DEF queueVars, ledgerVars, shopVars, boundVars
  <1>1. /\ UNCHANGED <<stock, tracked, outbox, lastSequence, cur, stamp, overtaken,
                       shop, reported, sent, clock>>
        /\ pc[w] = "read" /\ pc' = [pc EXCEPT ![w] = "call"]
        /\ qty' = [qty EXCEPT ![w] = QuantityToPublish(cur[w])]
    BY DEF ReadStock
  <1>2. /\ pc'[w] = "call" /\ qty'[w] = QuantityToPublish(cur[w])
        /\ \A v \in Workers \ {w} : SameHand(v)
    BY <1>1 DEF TypeOK, SameHand
  <1>3. KeepsRows /\ RowPools /\ MarksKept
    BY <1>1, <1>2, RowsStay DEF MarksKept
  <1>4. ASSUME NEW v \in Workers, v # w PROVE CarriesWell(v)'
    <2>1. CarriesWell(v) /\ SameHand(v)
      BY <1>2, <1>4 DEF PublishWell
    <2>2. pc'[v] = "mark" => stamp'[v] <= clock'
      BY <1>1, <2>1 DEF CarriesWell, SameHand
    <2>. QED BY <1>1, <1>3, <2>1, <2>2, CarriesFrame DEF SameHand
  <1>5. CarriesWell(w)'
    <2>1. PICK c \in 1 .. lastSequence, p \in Pools :
            c = cur[w] /\ c = cur'[w] /\ p = outbox[c].pool
      BY <1>1 DEF TypeOK, Row
    <2>2. p \in tracked /\ qty'[w] = stock[p]
      BY <1>2, <2>1 DEF PublishWell, QuantityToPublish, TypeOK
    <2>3. CarriedPool(w)' = p
      BY <1>1, <2>1 DEF CarriedPool
    <2>4. stock'[p] = stock[p] /\ stock[p] \in Nat /\ sent'[p] = sent[p]
            /\ sent[p] <= stock[p]
      BY <1>1, <2>1 DEF TypeOK, PublishWell
    <2>5. overtaken'[w] => \E v \in Workers : v # w
      BY <1>1 DEF PublishWell, CarriesWell
    <2>. QED BY <1>2, <2>2, <2>3, <2>4, <2>5 DEF CarriesWell
  <1>6. StampsWell'
    BY <1>1, <1>3, StampsFrame DEF PublishWell
  <1>7. SettledWell'
    BY <1>1, <1>3, SettledFrame DEF PublishWell
  <1>8. ShopWell' /\ ReportedWell'
    BY <1>1 DEF PublishWell, ShopWell, ReportedWell
  <1>. QED BY <1>1, <1>4, <1>5, <1>6, <1>7, <1>8, RowsStay DEF PublishWell

\* UNAS takes the level: it is the newest sent unless the call was overtaken,
\* and overtakes every other call of the pool.
LEMMA PublishApplies ==
  ASSUME TypeOK, PublishWell, NEW w \in Workers, UnasApplies(w)
  PROVE  PublishWell'
  <1> USE DEF queueVars, ledgerVars, boundVars
  <1>1. /\ UNCHANGED <<stock, tracked, outbox, lastSequence, cur, qty, stamp,
                       reported, clock>>
        /\ pc[w] = "call" /\ pc' = [pc EXCEPT ![w] = "reply"]
    BY DEF UnasApplies
  <1>2. PICK p \in Pools : p = CarriedPool(w) /\ p = outbox[cur[w]].pool
    BY <1>1, HandType DEF CarriedPool, Sending
  <1>3. /\ shop' = [shop EXCEPT ![VariantOf[p]] =
                     [from |-> p, level |-> qty[w], late |-> overtaken[w]]]
        /\ sent' = [sent EXCEPT ![p] = IF qty[w] > sent[p] THEN qty[w] ELSE sent[p]]
        /\ overtaken' = [v \in Workers |->
             \/ overtaken[v]
             \/ v # w /\ pc[v] \in {"call", "reply"} /\ outbox[cur[v]].pool = p]
    BY <1>2 DEF UnasApplies
  <1>4. /\ qty[w] \in Nat /\ sent[p] \in Nat /\ stock[p] \in Nat
        /\ VariantOf[p] \in Variants /\ p # Nowhere
    BY <1>1, HandType, ConfigAssumption, NowhereAssumption DEF TypeOK, Sending
  <1>5. /\ qty[w] <= stock[p] /\ sent[p] <= stock[p]
        /\ ~overtaken[w] => sent[p] <= qty[w]
    BY <1>1, <1>2 DEF PublishWell, CarriesWell, Sending
  <1>6. /\ sent'[p] \in Nat /\ sent[p] <= sent'[p] /\ qty[w] <= sent'[p]
        /\ sent'[p] <= stock[p]
        /\ ~overtaken[w] => sent'[p] = qty[w]
        /\ \A q \in Pools \ {p} : sent'[q] = sent[q]
    BY <1>3, <1>4, <1>5 DEF TypeOK
  <1> DEFINE Grew(q) == sent[q] <= sent'[q] /\ sent[q] \in Nat /\ sent'[q] \in Nat
  <1>6a. \A q \in Pools : Grew(q)
    <2>1. Grew(p)
      BY <1>4, <1>6
    <2>2. \A q \in Pools \ {p} : Grew(q)
      BY <1>6 DEF TypeOK
    <2>. QED BY <2>1, <2>2
  <1>7. /\ shop'[VariantOf[p]] = [from |-> p, level |-> qty[w], late |-> overtaken[w]]
        /\ \A v \in Variants : v # VariantOf[p] => shop'[v] = shop[v]
        /\ \A v \in Variants : shop[v].from # Nowhere => shop'[v].from # Nowhere
    BY <1>3, <1>4 DEF TypeOK
  <1>8. \A v \in Workers : pc'[v] = "mark" => SameHand(v)
    <2> SUFFICES ASSUME NEW v \in Workers, pc'[v] = "mark" PROVE SameHand(v)
      OBVIOUS
    <2>1. v # w /\ pc[v] = "mark"
      BY <1>1 DEF TypeOK
    <2>2. overtaken'[v] = overtaken[v]
      BY <1>3, <2>1 DEF TypeOK
    <2>. QED BY <1>1, <2>1, <2>2 DEF SameHand
  <1>9. KeepsRows /\ RowPools /\ MarksKept
    BY <1>1, <1>8, RowsStay DEF MarksKept
  <1>10. ASSUME NEW v \in Workers PROVE CarriesWell(v)'
    <2>1. CASE pc'[v] \notin Sending
      <3>1. v # w /\ pc[v] \notin Sending
        BY <1>1, <2>1 DEF TypeOK, Sending
      <3>2. overtaken'[v] => overtaken[v]
        BY <1>3, <3>1 DEF Sending
      <3>. QED BY <2>1, <3>2 DEF PublishWell, CarriesWell, Sending
    <2>2. CASE pc'[v] \in Sending
      <3>1. pc[v] \in Sending /\ (v # w => pc'[v] = pc[v])
        BY <1>1, <2>2 DEF TypeOK, Sending
      <3>2. PICK c \in 1 .. lastSequence, q \in Pools :
              /\ c = cur[v] /\ c = cur'[v] /\ q = CarriedPool(v)
              /\ q = outbox[c].pool /\ qty[v] \in Nat /\ VariantOf[q] \in Variants
        BY <1>1, <3>1, HandType DEF CarriedPool
      <3>3. CarriedPool(v)' = q
        BY <1>1, <3>2 DEF CarriedPool
      <3>4. Newest(cur[v])' <=> Newest(cur[v])
        <4>1. Newest(cur[v])' <=> Newest(c)'
          BY <3>2 DEF Newest, RowsOf
        <4>. QED BY <1>9, <3>2, <4>1, SameNewest
      <3>5. CarriesWell(v)
        BY DEF PublishWell
      <3>6. qty'[v] <= stock'[q] /\ (Newest(cur[v])' => qty'[v] = stock'[q])
        BY <1>1, <3>1, <3>2, <3>4, <3>5 DEF CarriesWell
      <3>7. pc'[v] \in {"call", "reply"} /\ ~overtaken'[v] => sent'[q] <= qty'[v]
        <4>1. CASE v = w
          BY <1>1, <1>2, <1>3, <1>4, <1>6, <3>2, <4>1
        <4>2. CASE v # w
          <5> SUFFICES ASSUME pc[v] \in {"call", "reply"}, ~overtaken'[v]
                       PROVE  sent'[q] <= qty[v]
            BY <1>1, <3>1, <4>2
          <5>1. ~overtaken[v] /\ q # p
            BY <1>3, <3>2, <4>2
          <5>. QED BY <1>6, <3>2, <3>5, <5>1 DEF CarriesWell
        <4>. QED BY <4>1, <4>2
      <3>8. pc'[v] \in {"reply", "mark"} =>
              qty'[v] <= sent'[q] /\ shop'[VariantOf[q]].from # Nowhere
        <4>1. CASE v = w
          <5>1. q = p /\ qty'[v] = qty[w]
            BY <1>1, <1>2, <3>2, <4>1
          <5>2. qty[w] <= sent'[p]
            BY <1>6
          <5>3. shop'[VariantOf[p]].from # Nowhere
            BY <1>4, <1>7
          <5>. QED BY <5>1, <5>2, <5>3
        <4>2. CASE v # w
          <5> SUFFICES ASSUME pc[v] \in {"reply", "mark"}
                       PROVE  qty[v] <= sent'[q] /\ shop'[VariantOf[q]].from # Nowhere
            BY <1>1, <3>1, <4>2
          <5>1. qty[v] <= sent[q] /\ shop[VariantOf[q]].from # Nowhere
            BY <3>2, <3>5 DEF CarriesWell
          <5>2. sent[q] <= sent'[q] /\ sent[q] \in Nat /\ sent'[q] \in Nat
            BY <1>6a
          <5>. QED BY <1>7, <3>2, <5>1, <5>2
        <4>. QED BY <4>1, <4>2
      <3>9. pc'[v] = "mark" => stamp'[v] <= clock'
        BY <1>1, <1>8, <3>5 DEF CarriesWell, SameHand
      <3>10. overtaken'[v] => \E u \in Workers : u # v
        BY <1>3, <3>5 DEF CarriesWell
      <3>. QED BY <3>3, <3>6, <3>7, <3>8, <3>9, <3>10 DEF CarriesWell
    <2>. QED BY <2>1, <2>2
  <1>11. ShopWell'
    <2> SUFFICES ASSUME NEW v \in Variants, shop'[v].from # Nowhere
                 PROVE  /\ VariantOf[shop'[v].from] = v
                        /\ shop'[v].level <= sent'[shop'[v].from]
                        /\ ~shop'[v].late => shop'[v].level = sent'[shop'[v].from]
      BY DEF ShopWell
    <2>1. CASE v = VariantOf[p]
      BY <1>6, <1>7, <2>1
    <2>2. CASE v # VariantOf[p]
      <3>1. shop'[v] = shop[v] /\ VariantOf[shop[v].from] = v /\ shop[v].from \in Pools \ {p}
        BY <1>7, <2>2 DEF PublishWell, ShopWell, TypeOK, View
      <3>. QED BY <1>6, <3>1 DEF PublishWell, ShopWell
    <2>. QED BY <2>1, <2>2
  <1>12. ReportedWell'
    <2> SUFFICES ASSUME NEW v \in Variants, reported[v].view.from # Nowhere
                 PROVE  reported[v].view.level <= sent'[reported[v].view.from]
      BY <1>1 DEF PublishWell, ReportedWell
    <2>1. PICK q \in Pools : q = reported[v].view.from
      BY DEF TypeOK, View
    <2>2. reported[v].view.level <= sent[q] /\ reported[v].view.level \in Nat
      BY <2>1 DEF PublishWell, ReportedWell, TypeOK, View
    <2>3. sent[q] <= sent'[q] /\ sent[q] \in Nat /\ sent'[q] \in Nat
      BY <1>6a
    <2>. QED BY <2>1, <2>2, <2>3
  <1>13. StampsWell'
    BY <1>1, <1>9, StampsFrame DEF PublishWell
  <1>14. SettledWell'
    <2>1. \A q \in Pools : sent[q] = stock[q] => sent'[q] = stock[q]
      BY <1>4, <1>6
    <2>. QED BY <1>1, <1>7, <1>9, <2>1, SettledFrame DEF PublishWell
  <1>15. \A q \in Pools : sent'[q] <= stock'[q]
    BY <1>1, <1>6 DEF PublishWell
  <1>. QED BY <1>1, <1>10, <1>11, <1>12, <1>13, <1>14, <1>15, RowsStay DEF PublishWell

\* The reply arrives and the call takes a stamp later than all others.
LEMMA PublishReturns ==
  ASSUME TypeOK, PublishWell, NEW w \in Workers, SetStockReturns(w)
  PROVE  PublishWell'
  <1> USE DEF queueVars, ledgerVars, shopVars
  <1>1. /\ UNCHANGED <<stock, tracked, outbox, lastSequence, cur, qty, overtaken,
                       shop, reported, sent>>
        /\ pc[w] = "reply" /\ pc' = [pc EXCEPT ![w] = "mark"]
        /\ clock' = clock + 1 /\ stamp' = [stamp EXCEPT ![w] = clock + 1]
    BY DEF SetStockReturns
  <1>2. /\ pc'[w] = "mark" /\ stamp'[w] = clock + 1
        /\ \A v \in Workers \ {w} : SameHand(v)
        /\ clock \in Nat
    BY <1>1 DEF TypeOK, SameHand
  <1>3. KeepsRows /\ RowPools
    BY <1>1, RowsStay
  <1>4. \A v \in Workers : CarriesWell(v) /\ CarriedPool(v)' = CarriedPool(v)
    BY <1>1 DEF PublishWell, CarriedPool
  <1>5. ASSUME NEW v \in Workers, v # w PROVE CarriesWell(v)'
    <2>1. SameHand(v) /\ CarriesWell(v) /\ stamp[v] \in Nat
      BY <1>2, <1>4, <1>5 DEF TypeOK
    <2>2. pc'[v] = "mark" => stamp'[v] <= clock'
      BY <1>1, <1>2, <2>1 DEF CarriesWell, SameHand
    <2>. QED BY <1>1, <1>3, <2>1, <2>2, CarriesFrame DEF SameHand
  <1>6. CarriesWell(w)'
    <2>1. Newest(cur[w])' <=> Newest(cur[w])
      BY <1>1 DEF Newest, RowsOf
    <2>. QED BY <1>1, <1>2, <1>4, <2>1 DEF CarriesWell, Sending
  <1>7. ASSUME NEW u \in Workers, pc'[u] = "mark"
        PROVE  LET p == CarriedPool(u)'
                   v == VariantOf[p] IN
               /\ \A x \in Workers \ {u} : pc'[x] = "mark" =>
                    /\ stamp'[u] # stamp'[x]
                    /\ CarriedPool(x)' = p /\ stamp'[u] < stamp'[x] /\ ~overtaken'[x]
                         => qty'[u] <= qty'[x]
               /\ /\ reported'[v].view.from = p /\ ~reported'[v].view.late
                  /\ stamp'[u] < reported'[v].at
                  => qty'[u] <= reported'[v].view.level
    <2> DEFINE p == CarriedPool(u)
    <2>0. p \in Pools /\ VariantOf[p] \in Variants /\ qty[u] \in Nat /\ sent[p] \in Nat
      <3>1. pc[u] \in Sending
        BY <1>1, <1>7 DEF TypeOK, Sending
      <3>. QED BY <3>1, HandType DEF TypeOK
    <2>1. CASE u = w
      <3>1. \A x \in Workers \ {u} : pc'[x] = "mark" => stamp'[x] < clock + 1
        <4> SUFFICES ASSUME NEW x \in Workers \ {u}, pc'[x] = "mark"
                     PROVE  stamp'[x] < clock + 1
          OBVIOUS
        <4>1. pc[x] = "mark" /\ stamp'[x] = stamp[x] /\ stamp[x] \in Nat
          BY <1>2, <2>1 DEF SameHand, TypeOK
        <4>. QED BY <1>2, <1>4, <4>1 DEF CarriesWell
      <3>2. \A x \in Workers : stamp'[x] \in Nat
        BY <1>1, <1>2 DEF TypeOK
      <3>3. reported'[VariantOf[p]].at <= clock /\ reported'[VariantOf[p]].at \in Nat
        BY <1>1, <2>0 DEF PublishWell, ReportedWell, TypeOK
      <3>. QED BY <1>2, <1>4, <2>1, <3>1, <3>2, <3>3
    <2>2. CASE u # w
      <3>1. pc[u] = "mark" /\ SameHand(u) /\ stamp[u] \in Nat /\ stamp[u] <= clock
              /\ qty[u] <= sent[p]
        BY <1>2, <1>4, <1>7, <2>2 DEF SameHand, CarriesWell, TypeOK
      <3>2. /\ stamp'[u] # stamp'[w]
            /\ CarriedPool(w) = p /\ ~overtaken'[w] => qty'[u] <= qty'[w]
        <4>1. /\ qty[w] \in Nat /\ qty'[w] = qty[w] /\ overtaken'[w] = overtaken[w]
              /\ ~overtaken[w] => sent[CarriedPool(w)] <= qty[w]
          BY <1>1, <1>4 DEF CarriesWell, TypeOK
        <4>. QED BY <1>2, <2>0, <3>1, <4>1 DEF SameHand
      <3>3. ASSUME NEW x \in Workers \ {u, w}, pc'[x] = "mark"
            PROVE  /\ stamp'[u] # stamp'[x]
                   /\ CarriedPool(x)' = p /\ stamp'[u] < stamp'[x] /\ ~overtaken'[x]
                        => qty'[u] <= qty'[x]
        <4>1. SameHand(x) /\ pc[x] = "mark"
          BY <1>2, <3>3 DEF SameHand
        <4>. QED BY <1>4, <3>1, <4>1 DEF PublishWell, StampsWell, SameHand
      <3>4. /\ reported[VariantOf[p]].view.from = p /\ ~reported[VariantOf[p]].view.late
            /\ stamp'[u] < reported[VariantOf[p]].at
            => qty'[u] <= reported[VariantOf[p]].view.level
        BY <3>1 DEF PublishWell, StampsWell, SameHand
      <3>. QED BY <1>1, <1>4, <3>2, <3>3, <3>4
    <2>. QED BY <2>1, <2>2
  <1>8. StampsWell'
    BY <1>7 DEF StampsWell
  <1>9. SettledWell'
    <2> SUFFICES ASSUME NEW q \in Pools, NEW i \in DOMAIN outbox',
                        outbox'[i].pool = q, Publishable(q), Newest(i)',
                        outbox'[i].status = "SUCCEEDED"
                 PROVE  SettledPool(q)'
      BY DEF SettledWell, Publishable
    <2>1. i \in DOMAIN outbox /\ outbox[i].pool = q /\ outbox[i].status = "SUCCEEDED"
            /\ Newest(i)
      BY <1>1, <1>3, SameNewest
    <2>2. SettledPool(q)
      BY <2>1 DEF PublishWell, SettledWell
    <2>3. Shows(reported[VariantOf[q]].view, q)'
      BY <1>1, <2>2 DEF SettledPool, Shows
    <2>4. ASSUME NEW x \in Workers, pc'[x] = "mark", CarriedPool(x)' = q,
                 ~overtaken'[x], reported'[VariantOf[q]].at <= stamp'[x]
          PROVE  qty'[x] = stock'[q]
      <3>1. CASE x # w
        <4>1. SameHand(x) /\ pc[x] = "mark"
          BY <1>2, <2>4, <3>1 DEF SameHand
        <4>. QED BY <1>1, <1>4, <2>2, <2>4, <4>1 DEF SettledPool, SameHand
      <3>2. CASE x = w
        <4>1. CarriedPool(w) = q /\ ~overtaken[w]
          BY <1>1, <1>4, <2>4, <3>2
        <4>2. sent[q] <= qty[w] /\ qty[w] <= stock[q] /\ sent[q] = stock[q]
          BY <1>1, <1>4, <2>2, <4>1 DEF CarriesWell, SettledPool, Sending
        <4>3. qty[w] \in Nat /\ stock[q] \in Nat
          BY DEF TypeOK
        <4>. QED BY <1>1, <3>2, <4>2, <4>3
      <3>. QED BY <3>1, <3>2
    <2>5. sent'[q] = stock'[q] /\ shop'[VariantOf[q]].from # Nowhere
      BY <1>1, <2>2 DEF SettledPool
    <2>. QED BY <2>3, <2>4, <2>5 DEF SettledPool
  <1>10. ShopWell' /\ ReportedWell'
    <2>1. ShopWell'
      BY <1>1 DEF PublishWell, ShopWell
    <2>2. \A v \in Variants : reported[v].at \in Nat /\ reported[v].at <= clock
      BY DEF PublishWell, ReportedWell, TypeOK
    <2>. QED BY <1>1, <1>2, <2>1, <2>2 DEF PublishWell, ReportedWell
  <1>. QED BY <1>1, <1>5, <1>6, <1>8, <1>9, <1>10, RowsStay DEF PublishWell

\* Of two calls of one pool that wait to mark, the later one carries no less.
LEMMA LaterCarriesNoLess ==
  ASSUME StampsWell, NEW u \in Workers, NEW w \in Workers, u # w,
         pc[u] = "mark", pc[w] = "mark", CarriedPool(u) = CarriedPool(w),
         stamp[u] \in Nat, stamp[w] \in Nat, stamp[u] <= stamp[w], ~overtaken[w]
  PROVE  stamp[u] < stamp[w] /\ qty[u] <= qty[w]
  <1>1. stamp[u] # stamp[w]
    BY DEF StampsWell
  <1>2. stamp[u] < stamp[w]
    BY <1>1
  <1>. QED BY <1>2 DEF StampsWell

\* The snapshot is compared by stamp, and keeps the level it should.
LEMMA PublishMarks ==
  ASSUME TypeOK, PublishWell, KeepsRows, NEW w \in Workers, MarkSucceeded(w)
  PROVE  PublishWell'
  <1> USE DEF ledgerVars
  <1> DEFINE i == cur[w]
             p == outbox[i].pool
             Wins(v) == v = VariantOf[p] /\ reported[v].at <= stamp[w]
             Marked == [from |-> p, level |-> qty[w], late |-> overtaken[w]]
  <1>1. /\ pc[w] = "mark" /\ Finished(w, i) /\ UNCHANGED <<stock, tracked, shop, sent>>
        /\ Mark(i, "SUCCEEDED", outbox[i].note, outbox[i].due)
        /\ clock' = IF LastToMark(w) THEN 0 ELSE clock
        /\ reported' = [v \in Variants |->
             [view |-> IF Wins(v) THEN Marked ELSE reported[v].view,
              at |-> IF LastToMark(w) THEN 0
                     ELSE IF Wins(v) THEN stamp[w] ELSE reported[v].at]]
    BY DEF MarkSucceeded
  <1>2. /\ i \in 1 .. lastSequence /\ p \in Pools /\ p = CarriedPool(w)
        /\ VariantOf[p] \in Variants /\ p # Nowhere
        /\ qty[w] \in Nat /\ stamp[w] \in Nat /\ outbox[i] \in Row
    BY <1>1, HandType, NowhereAssumption DEF CarriedPool, Sending
  <1>3. /\ \A v \in Variants : Wins(v) => reported'[v].view = Marked
        /\ \A v \in Variants : ~Wins(v) => reported'[v].view = reported[v].view
        /\ \A v \in Variants : LastToMark(w) => reported'[v].at = 0
        /\ \A v \in Variants : ~LastToMark(w) /\ Wins(v) => reported'[v].at = stamp[w]
        /\ \A v \in Variants :
             ~LastToMark(w) /\ ~Wins(v) => reported'[v].at = reported[v].at
    BY <1>1
  <1>4. /\ qty[w] <= sent[p] /\ shop[VariantOf[p]].from # Nowhere
        /\ Newest(i) => qty[w] = stock[p]
        /\ sent[p] <= stock[p] /\ sent[p] \in Nat /\ stock[p] \in Nat
        /\ stamp[w] <= clock
    BY <1>1, <1>2 DEF PublishWell, CarriesWell, Sending, TypeOK
  <1>5. \A v \in Workers : pc'[v] \in Sending => v # w /\ SameHand(v)
    BY <1>1, FinishedHands
  <1>6. ASSUME NEW u \in Workers, pc'[u] = "mark"
        PROVE  /\ u # w /\ SameHand(u) /\ pc[u] = "mark" /\ ~LastToMark(w)
               /\ CarriedPool(u)' = CarriedPool(u) /\ CarriedPool(u) \in Pools
               /\ stamp[u] \in Nat /\ qty[u] \in Nat
               /\ qty[u] <= stock[CarriedPool(u)]
    <2>1. u # w /\ SameHand(u) /\ pc[u] = "mark"
      BY <1>5, <1>6 DEF SameHand, Sending
    <2>2. CarriedPool(u)' = CarriedPool(u)
      BY <2>1, SamePool DEF SameHand, Sending, KeepsRows, RowPools
    <2>. QED BY <2>1, <2>2, HandType DEF LastToMark, Sending, PublishWell, CarriesWell
  <1>7. MarksKept /\ RowPools
    BY <1>6 DEF MarksKept, KeepsRows, RowPools
  <1> HIDE DEF i, p, Wins, Marked
  <1>8. ASSUME NEW v \in Workers PROVE CarriesWell(v)'
    <2>1. pc'[v] = "mark" => stamp'[v] <= clock'
      BY <1>1, <1>6 DEF SameHand, PublishWell, CarriesWell
    <2>2. overtaken'[v] => overtaken[v]
      BY <1>1, FinishedHands
    <2>. QED BY <1>1, <1>5, <2>1, <2>2, CarriesFrame DEF PublishWell
  <1>9. ShopWell'
    BY <1>1 DEF PublishWell, ShopWell
  <1>10. ReportedWell'
    <2> SUFFICES ASSUME NEW v \in Variants
                 PROVE  /\ reported'[v].at <= clock'
                        /\ reported'[v].view.from = Nowhere => reported'[v].at = 0
                        /\ reported'[v].view.from # Nowhere =>
                             /\ VariantOf[reported'[v].view.from] = v
                             /\ reported'[v].view.level <= sent[reported'[v].view.from]
      BY <1>1 DEF ReportedWell
    <2>1. reported'[v].at <= clock'
      BY <1>1, <1>3, <1>4 DEF PublishWell, ReportedWell
    <2>2. CASE Wins(v)
      BY <1>2, <1>3, <1>4, <2>1, <2>2 DEF Wins, Marked
    <2>3. CASE ~Wins(v)
      BY <1>3, <2>1, <2>3 DEF PublishWell, ReportedWell
    <2>. QED BY <2>2, <2>3
  <1>11. ASSUME NEW u \in Workers, pc'[u] = "mark"
         PROVE  LET q == CarriedPool(u)'
                    v == VariantOf[q] IN
                /\ \A x \in Workers \ {u} : pc'[x] = "mark" =>
                     /\ stamp'[u] # stamp'[x]
                     /\ CarriedPool(x)' = q /\ stamp'[u] < stamp'[x] /\ ~overtaken'[x]
                          => qty'[u] <= qty'[x]
                /\ /\ reported'[v].view.from = q /\ ~reported'[v].view.late
                   /\ stamp'[u] < reported'[v].at
                   => qty'[u] <= reported'[v].view.level
    <2> DEFINE q == CarriedPool(u)
    <2>1. q \in Pools /\ VariantOf[q] \in Variants
      BY <1>6, <1>11, ConfigAssumption
    <2>2. \A x \in Workers \ {u} : pc'[x] = "mark" =>
            /\ stamp'[u] # stamp'[x]
            /\ CarriedPool(x)' = q /\ stamp'[u] < stamp'[x] /\ ~overtaken'[x]
                 => qty'[u] <= qty'[x]
      BY <1>6, <1>11 DEF PublishWell, StampsWell, SameHand
    <2>3. ASSUME reported'[VariantOf[q]].view.from = q,
                 ~reported'[VariantOf[q]].view.late,
                 stamp'[u] < reported'[VariantOf[q]].at
          PROVE  qty'[u] <= reported'[VariantOf[q]].view.level
      <3>1. CASE Wins(VariantOf[q])
        <4>1. q = p /\ ~overtaken[w] /\ stamp[u] < stamp[w]
          BY <1>3, <1>6, <1>11, <2>1, <2>3, <3>1 DEF Marked, SameHand
        <4>2. qty[u] <= qty[w]
          BY <1>1, <1>2, <1>6, <1>11, <4>1, LaterCarriesNoLess DEF PublishWell
        <4>. QED BY <1>3, <1>6, <1>11, <2>1, <3>1, <4>2 DEF Marked, SameHand
      <3>2. CASE ~Wins(VariantOf[q])
        <4>1. reported'[VariantOf[q]].view = reported[VariantOf[q]].view
                /\ reported'[VariantOf[q]].at = reported[VariantOf[q]].at
          BY <1>3, <1>6, <1>11, <2>1, <3>2
        <4>. QED BY <1>6, <1>11, <2>3, <4>1 DEF PublishWell, StampsWell, SameHand
      <3>. QED BY <3>1, <3>2
    <2>. QED BY <1>6, <1>11, <2>2, <2>3
  <1>12. StampsWell'
    BY <1>11 DEF StampsWell
  <1>13. \A j \in 1 .. lastSequence : j # i => outbox'[j] = outbox[j]
    <2>1. "SUCCEEDED" \in Statuses \ {"PROCESSING"} /\ outbox[i].note \in Notes
            /\ outbox[i].due \in BOOLEAN
      BY <1>2 DEF Row, Statuses, Open
    <2>. QED BY <1>1, <1>2, <2>1, MarkRows DEF KeepsRows
  <1>14. ASSUME NEW j \in DOMAIN outbox', NEW q \in Pools, outbox'[j].pool = q,
                Publishable(q), Newest(j)', outbox'[j].status = "SUCCEEDED"
         PROVE  SettledPool(q)'
    <2>1. j \in 1 .. lastSequence /\ j \in DOMAIN outbox /\ outbox[j].pool = q /\ Newest(j)
      BY <1>14, SameNewest DEF KeepsRows
    <2>2. VariantOf[q] \in Variants
      BY ConfigAssumption
    <2>3. /\ sent[q] = stock[q] /\ shop[VariantOf[q]].from # Nowhere
          /\ Shows(reported'[VariantOf[q]].view, q)
          /\ \A u \in Workers :
               /\ pc'[u] = "mark" /\ CarriedPool(u) = q
               /\ ~overtaken[u] /\ reported'[VariantOf[q]].at <= stamp[u]
               => qty[u] = stock[q]
      <3>1. CASE j = i
        <4>1. q = p /\ qty[w] = stock[p] /\ sent[p] = stock[p]
          BY <1>4, <2>1, <3>1 DEF p
        <4>2. CASE Wins(VariantOf[p])
          <5>1. Shows(Marked, p)
            BY <1>2, <4>1 DEF Shows, Marked
          <5>2. ASSUME NEW u \in Workers, pc'[u] = "mark", CarriedPool(u) = p,
                       ~overtaken[u], reported'[VariantOf[p]].at <= stamp[u]
                PROVE  qty[u] = stock[p]
            <6>1. stamp[w] <= stamp[u]
              BY <1>2, <1>3, <1>6, <4>2, <5>2
            <6>2. qty[w] <= qty[u]
              BY <1>1, <1>2, <1>6, <5>2, <6>1, LaterCarriesNoLess DEF PublishWell
            <6>. QED BY <1>2, <1>4, <1>6, <4>1, <5>2, <6>2
          <5>. QED BY <1>2, <1>3, <1>4, <4>1, <4>2, <5>1, <5>2
        <4>3. CASE ~Wins(VariantOf[p])
          <5> DEFINE r == reported[VariantOf[p]]
          <5>1. r.at > stamp[w] /\ r.at \in Nat /\ r.view \in View
            BY <1>2, <4>3 DEF Wins, TypeOK
          <5>2. r.view.from # Nowhere /\ r.view.level \in Nat
            BY <1>2, <5>1 DEF PublishWell, ReportedWell, View
          <5>3. Shows(r.view, p)
            <6> SUFFICES ASSUME r.view.from = p, ~r.view.late
                         PROVE  r.view.level = stock[p]
              BY <5>2 DEF Shows
            <6>1. r.view.level <= sent[p]
              BY <1>2, <5>2 DEF PublishWell, ReportedWell
            <6>2. qty[w] <= r.view.level
              BY <1>1, <1>2, <5>1 DEF PublishWell, StampsWell
            <6>. QED BY <1>4, <4>1, <5>2, <6>1, <6>2
          <5>4. ASSUME NEW u \in Workers, pc'[u] = "mark", CarriedPool(u) = p,
                       ~overtaken[u], reported'[VariantOf[p]].at <= stamp[u]
                PROVE  qty[u] = stock[p]
            <6>1. stamp[w] <= stamp[u]
              BY <1>2, <1>3, <1>6, <4>3, <5>1, <5>4
            <6>2. qty[w] <= qty[u]
              BY <1>1, <1>2, <1>6, <5>4, <6>1, LaterCarriesNoLess DEF PublishWell
            <6>. QED BY <1>2, <1>4, <1>6, <4>1, <5>4, <6>2
          <5>. QED BY <1>2, <1>3, <1>4, <4>1, <4>3, <5>3, <5>4
        <4>. QED BY <4>2, <4>3
      <3>2. CASE j # i
        <4>1. SettledPool(q)
          BY <1>13, <1>14, <2>1, <3>2 DEF PublishWell, SettledWell
        <4>2. CASE Wins(VariantOf[q])
          <5>1. Shows(Marked, q)
            <6> SUFFICES ASSUME p = q, ~overtaken[w] PROVE qty[w] = stock[q]
              BY <1>2 DEF Shows, Marked
            <6>. QED BY <1>1, <1>2, <4>1, <4>2 DEF Wins, SettledPool
          <5>2. ASSUME NEW u \in Workers, pc'[u] = "mark", CarriedPool(u) = q,
                       ~overtaken[u], reported'[VariantOf[q]].at <= stamp[u]
                PROVE  qty[u] = stock[q]
            <6>1. reported[VariantOf[q]].at <= stamp[w] /\ stamp[w] <= stamp[u]
                    /\ reported[VariantOf[q]].at \in Nat
              BY <1>3, <1>6, <2>2, <4>2, <5>2 DEF Wins, TypeOK
            <6>2. reported[VariantOf[q]].at <= stamp[u]
              BY <1>2, <1>6, <5>2, <6>1
            <6>. QED BY <1>6, <4>1, <5>2, <6>2 DEF SettledPool
          <5>. QED BY <1>3, <2>2, <4>1, <4>2, <5>1, <5>2 DEF SettledPool
        <4>3. CASE ~Wins(VariantOf[q])
          <5>1. reported'[VariantOf[q]].view = reported[VariantOf[q]].view
            BY <1>3, <2>2, <4>3
          <5>2. ASSUME NEW u \in Workers, pc'[u] = "mark"
                PROVE  reported'[VariantOf[q]].at = reported[VariantOf[q]].at
                         /\ pc[u] = "mark"
            BY <1>3, <1>6, <2>2, <4>3, <5>2
          <5>. QED BY <4>1, <5>1, <5>2 DEF SettledPool
        <4>. QED BY <4>2, <4>3
      <3>. QED BY <3>1, <3>2
    <2>4. Shows(reported[VariantOf[q]].view, q)'
      BY <1>1, <2>3 DEF Shows
    <2>5. \A u \in Workers :
            /\ pc'[u] = "mark" /\ CarriedPool(u)' = q
            /\ ~overtaken'[u] /\ reported'[VariantOf[q]].at <= stamp'[u]
            => qty'[u] = stock'[q]
      BY <1>1, <1>6, <2>3 DEF SameHand
    <2>. QED BY <1>1, <2>3, <2>4, <2>5 DEF SettledPool
  <1>15. SettledWell'
    BY <1>14 DEF SettledWell, Publishable
  <1>16. /\ \A j \in DOMAIN outbox' : outbox'[j].pool \in tracked'
         /\ \A q \in Pools : sent'[q] <= stock'[q]
    BY <1>1 DEF KeepsRows, PublishWell, TypeOK
  <1>. QED BY <1>8, <1>9, <1>10, <1>12, <1>15, <1>16 DEF PublishWell

LEMMA PublishStep == TypeOK /\ PublishWell /\ [Next]_vars => PublishWell'
  <1> SUFFICES ASSUME TypeOK, PublishWell, [Next]_vars PROVE PublishWell'
    OBVIOUS
  <1> USE DEF shopVars, boundVars
  <1>0. DOMAIN outbox = 1 .. lastSequence /\ \A w \in Workers : todo[w] \subseteq 1 .. lastSequence
    BY DEF TypeOK
  <1>1. CASE \E p \in Pools, s \in Orders \cup {Elsewhere} : PostMovement(p, s)
    BY <1>1, PublishPosting
  <1>2. CASE KeepsRows
    <2>1. ASSUME NEW w \in Workers, ProcessBatch(w) PROVE PublishWell'
      <3> DEFINE S == {j \in DOMAIN outbox : Claimable(j)}
      <3>1. S \in SUBSET (1 .. lastSequence) /\ Claim(w, S, FALSE)
        BY <1>0, <2>1 DEF ProcessBatch
      <3>. QED BY <1>2, <3>1, QuietClaim, QuietFrame
    <2>2. ASSUME NEW w \in Workers, NEW o \in Orders, ProcessForUnasOrder(w, o)
          PROVE  PublishWell'
      <3> DEFINE S == {j \in DOMAIN outbox : Claimable(j) /\ outbox[j].source = o}
      <3>1. S \in SUBSET (1 .. lastSequence) /\ Claim(w, S, TRUE)
        BY <1>0, <2>2 DEF ProcessForUnasOrder
      <3>. QED BY <1>2, <3>1, QuietClaim, QuietFrame
    <2>3. ASSUME NEW w \in Workers, NEW i \in 1 .. lastSequence,
                 NEW s \in Statuses \ {"PROCESSING"}, NEW n \in Notes, NEW d \in BOOLEAN,
                 Mark(i, s, n, d), Finished(w, i),
                 UNCHANGED <<shop, reported, sent, clock>>,
                 s # "SUCCEEDED" \/ ~Newest(i) \/ ~Publishable(outbox[i].pool)
          PROVE  PublishWell'
      <3>1. /\ \A j \in 1 .. lastSequence : j # i => outbox'[j] = outbox[j]
            /\ outbox'[i].status = s
        BY <2>3, MarkRows
      <3>. QED BY <1>2, <2>3, <3>1, QuietClose, QuietFrame
    <2>4. \A i \in 1 .. lastSequence :
            /\ outbox[i].due \in BOOLEAN /\ outbox[i].note \in Notes
            /\ "superseded" \in Notes /\ "package" \in Notes
            /\ {"SUCCEEDED", "DEAD_LETTER", "FAILED"} \subseteq Statuses \ {"PROCESSING"}
      BY DEF TypeOK, Row, Notes, Statuses, Open
    <2>5. ASSUME NEW w \in Workers, NEW i \in todo[w], CloseSuperseded(w, i)
          PROVE  PublishWell'
      <3>1. i \in 1 .. lastSequence /\ ~Newest(i)
        BY <1>0, <2>5 DEF CloseSuperseded, Superseded
      <3>. QED BY <2>3, <2>4, <2>5, <3>1 DEF CloseSuperseded
    <2>6. ASSUME NEW w \in Workers, NEW i \in todo[w], ClosePackage(w, i)
          PROVE  PublishWell'
      <3>1. i \in 1 .. lastSequence /\ ~Publishable(outbox[i].pool)
        BY <1>0, <2>6 DEF ClosePackage, Publishable
      <3>. QED BY <2>3, <2>4, <2>6, <3>1 DEF ClosePackage
    <2>7. ASSUME NEW w \in Workers, NEW i \in todo[w], CloseUnmapped(w, i)
          PROVE  PublishWell'
      <3>1. i \in 1 .. lastSequence
        BY <1>0
      <3>. QED BY <2>3, <2>4, <2>7, <3>1 DEF CloseUnmapped
    <2>8. ASSUME NEW w \in Workers, HandleFailure(w) PROVE PublishWell'
      <3>1. cur[w] \in 1 .. lastSequence
        BY <1>0, <2>8 DEF HandleFailure, TypeOK
      <3>. QED BY <2>3, <2>4, <2>8, <3>1 DEF HandleFailure
    <2>9. ASSUME NEW w \in Workers, RowStep(w) PROVE PublishWell'
      <3>1. CASE \/ \E i \in todo[w] : StartRow(w, i)
                 \/ GetToken(w) \/ SetStockFails(w)
        BY <1>2, <3>1, QuietWorker, QuietFrame
      <3>2. CASE ReadStock(w)
        BY <3>2, PublishRead
      <3>3. CASE UnasApplies(w)
        BY <3>3, PublishApplies
      <3>4. CASE SetStockReturns(w)
        BY <3>4, PublishReturns
      <3>5. CASE MarkSucceeded(w)
        BY <1>2, <3>5, PublishMarks
      <3>. QED BY <2>5, <2>6, <2>7, <2>8, <2>9, <3>1, <3>2, <3>3, <3>4, <3>5 DEF RowStep
    <2>10. ASSUME NEW w \in Workers, MarkSucceededFails(w) \/ AbandonBatch(w)
           PROVE  PublishWell'
      BY <1>2, <2>10, QuietWorker, QuietFrame
    <2>11. ASSUME NEW i \in DOMAIN outbox,
                  LeaseExpires(i) \/ BackoffElapses(i) \/ ManualRetry(i)
           PROVE  PublishWell'
      BY <1>0, <1>2, <2>11, QuietTimer, QuietFrame
    <2>12. CASE UNCHANGED vars
      <3>1. QuietStep
        BY <1>2, <2>12 DEF vars, QuietStep, SameHand
      <3>. QED BY <3>1, QuietFrame
    <2>13. CASE \E p \in Pools, s \in Orders \cup {Elsewhere} : PostMovement(p, s)
      BY <2>13, PublishPosting
    <2>. QED BY <2>1, <2>2, <2>9, <2>10, <2>11, <2>12, <2>13 DEF Next
  <1>. QED BY <1>1, <1>2, RowsAreKept

LEMMA PublishIsCurrent == TypeOK /\ PublishWell => PublishedIsCurrent
  <1> SUFFICES ASSUME TypeOK, PublishWell, NEW i \in DOMAIN outbox, NEW p \in Pools,
                      p = outbox[i].pool, Newest(i), outbox[i].status = "SUCCEEDED",
                      Publishable(p)
               PROVE  /\ Shows(shop[VariantOf[p]], p)
                      /\ Shows(reported[VariantOf[p]].view, p)
    BY DEF PublishedIsCurrent, TypeOK, Row
  <1>1. SettledPool(p)
    BY DEF PublishWell, SettledWell
  <1>2. VariantOf[p] \in Variants
    BY ConfigAssumption
  <1>. QED BY <1>1, <1>2 DEF PublishWell, ShopWell, SettledPool, Shows

\* A settled newest row means what a reader takes it to mean, however many calls
\* of processClaimedRows overlap: the shop and the snapshot have the present level
\* of the warehouse they were last given, unless an overtaken call wrote it.
THEOREM PublishedHolds == Spec => []PublishedIsCurrent
  <1>1. TypeOK /\ PublishWell => PublishedIsCurrent
    BY PublishIsCurrent
  <1>2. Init => PublishWell
    BY PublishInit
  <1>3. TypeOK /\ PublishWell /\ [Next]_vars => PublishWell'
    BY PublishStep
  <1>. QED BY <1>1, <1>2, <1>3, TypeCorrect, PTL DEF Spec

(***************************************************************************)
(* The protocol implements the shop mirror                                 *)
(***************************************************************************)
LEMMA MirrorInit == Init => Mirror!Init
  BY ConfigAssumption DEF Init, Mirror!Init, Unseen

LEMMA MirrorStep ==
  TypeOK /\ BaselineGuarded /\ PublishWell /\ [Next]_vars => [Mirror!Next]_(Mirror!vars)
  <1> SUFFICES ASSUME TypeOK, BaselineGuarded, PublishWell, [Next]_vars
               PROVE  [Mirror!Next]_(Mirror!vars)
    OBVIOUS
  <1> USE DEF ledgerVars, queueVars, shopVars, boundVars
  <1>1. ASSUME NEW p \in Pools, NEW s \in Orders \cup {Elsewhere}, PostMovement(p, s)
        PROVE  Mirror!Next
    BY <1>1 DEF PostMovement, Mirror!Next, Mirror!Move
  <1>2. ASSUME NEW w \in Workers, NEW S, NEW t, Claim(w, S, t)
        PROVE  UNCHANGED Mirror!vars
    BY <1>2 DEF Claim, Mirror!vars
  <1>3. ASSUME NEW w \in Workers, UnasApplies(w) PROVE Mirror!Next
    <2>1. /\ pc[w] = "call" /\ cur[w] \in todo[w] /\ cur[w] \in 1 .. lastSequence
          /\ UNCHANGED <<stock, verified>>
      BY <1>3 DEF UnasApplies, TypeOK
    <2>2. PICK p \in Pools : p = outbox[cur[w]].pool /\ p = CarriedPool(w)
      BY <2>1 DEF TypeOK, Row, CarriedPool
    <2>3. p \in verified
      BY <2>1, <2>2 DEF BaselineGuarded
    <2>4. /\ shop' = [shop EXCEPT ![VariantOf[p]] =
                       [from |-> p, level |-> qty[w], late |-> overtaken[w]]]
          /\ sent' = [sent EXCEPT ![p] = IF qty[w] > sent[p] THEN qty[w] ELSE sent[p]]
      BY <1>3, <2>2 DEF UnasApplies
    <2>5. qty[w] \in Nat /\ sent[p] \in Nat /\ stock[p] \in Nat /\ overtaken[w] \in BOOLEAN
      BY DEF TypeOK
    <2>6. CASE overtaken[w] = FALSE
      <3>1. qty[w] \in sent[p] .. stock[p]
        BY <2>1, <2>2, <2>5, <2>6 DEF PublishWell, CarriesWell, Sending
      <3>2. sent' = [sent EXCEPT ![p] = qty[w]]
        <4>1. (IF qty[w] > sent[p] THEN qty[w] ELSE sent[p]) = qty[w]
          BY <2>5, <3>1
        <4>. QED BY <2>4, <4>1
      <3>3. Mirror!Show(p, qty[w], FALSE)
        BY <2>4, <2>6 DEF Mirror!Show
      <3>. QED BY <2>1, <2>3, <3>1, <3>2, <3>3 DEF Mirror!Next, Mirror!Publish
    <2>7. CASE overtaken[w] = TRUE
      <3>1. qty[w] \in 0 .. stock[p] /\ \E v, u \in Workers : v # u
        BY <2>1, <2>2, <2>5, <2>7 DEF PublishWell, CarriesWell, Sending
      <3>2. Mirror!Show(p, qty[w], TRUE)
        BY <2>4, <2>7 DEF Mirror!Show
      <3>. QED BY <2>1, <2>3, <2>4, <3>1, <3>2 DEF Mirror!Next, Mirror!PublishLate
    <2>. QED BY <2>5, <2>6, <2>7
  <1>4. ASSUME NEW w \in Workers, RowStep(w), ~UnasApplies(w)
        PROVE  UNCHANGED Mirror!vars
    BY <1>4 DEF RowStep, CloseSuperseded, ClosePackage, CloseUnmapped, StartRow,
                GetToken, ReadStock, SetStockFails, SetStockReturns, MarkSucceeded,
                HandleFailure, Mirror!vars
  <1>5. ASSUME NEW w \in Workers, MarkSucceededFails(w) \/ AbandonBatch(w)
        PROVE  UNCHANGED Mirror!vars
    BY <1>5 DEF MarkSucceededFails, AbandonBatch, Mirror!vars
  <1>6. ASSUME NEW i \in DOMAIN outbox, LeaseExpires(i) \/ BackoffElapses(i)
        PROVE  UNCHANGED Mirror!vars
    BY <1>6 DEF LeaseExpires, BackoffElapses, Mirror!vars
  <1>7. ASSUME NEW i \in DOMAIN outbox, ManualRetry(i) PROVE Mirror!Next
    <2>1. outbox[i].pool \in Pools
      BY DEF TypeOK, Row
    <2>. QED BY <1>7, <2>1 DEF ManualRetry, Mirror!Next, Mirror!Verify
  <1>8. CASE UNCHANGED vars
    BY <1>8 DEF vars, Mirror!vars
  <1>. QED BY <1>1, <1>2, <1>3, <1>4, <1>5, <1>6, <1>7, <1>8
           DEF Next, ProcessBatch, ProcessForUnasOrder

\* The whole protocol, its queue, leases, crashes, lost replies and overlapping
\* calls, promises the shop what ShopMirror says, for any pools and workers.
THEOREM MirrorRefined == Spec => MirrorSpec
  <1>1. Init => Mirror!Init
    BY MirrorInit
  <1>2. TypeOK /\ BaselineGuarded /\ PublishWell /\ [Next]_vars
          => [Mirror!Next]_(Mirror!vars)
    BY MirrorStep
  <1>3. Init => BaselineGuarded /\ PublishWell
    BY BaselineInit, PublishInit
  <1>4. TypeOK /\ BaselineGuarded /\ PublishWell /\ [Next]_vars
          => BaselineGuarded' /\ PublishWell'
    BY BaselineStep, PublishStep
  <1>. QED BY <1>1, <1>2, <1>3, <1>4, TypeCorrect, PTL
           DEF Spec, MirrorSpec, Mirror!Spec
=============================================================================
