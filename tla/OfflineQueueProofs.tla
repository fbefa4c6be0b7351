------------------------- MODULE OfflineQueueProofs -------------------------
(***************************************************************************)
(* What holds of the phone's queue for any operations, screens and bounds: *)
(* nothing saved vanishes, and nothing is recorded before its parent.      *)
(*                                                                         *)
(* Neither is inductive.  What is: an answer "ok" is held only for what    *)
(* the server has, a row carries its parent's address only once the server *)
(* has the parent, and so a pass picks up a dependant only then.           *)
(***************************************************************************)
EXTENDS OfflineQueue, TLAPS

AnyRow == Row \cup {NoRow}
Recorded == Creates \cup Photos

-----------------------------------------------------------------------------
(* The rows the actions write.                                             *)

\* An empty place in the table is no row.
LEMMA NoRowIsNoRow == NoRow \notin Row
BY DEF NoRow, Row, States

\* A row is queued as the code's types say.
LEMMA NewRowIsRow ==
    ASSUME NEW op \in Ops, NEW edits \in SUBSET Edits
    PROVE  NewRow(op, edits) \in Row /\ NewRow(op, edits).addressed = (Parent[op] = None)
BY Bounds DEF NewRow, Row, States

\* A row a human puts back is a row.
LEMMA RestoredIsRow ==
    ASSUME NEW row \in Row
    PROVE  Restored(row) \in Row /\ Restored(row).addressed = row.addressed
<1>1. 0 \in 0..Limit
  BY Bounds
<1>2. Restored(row) \in Row
  BY <1>1 DEF Restored, Row, States
<1> QED
  BY <1>2 DEF Restored, Row

\* An edit leaves a row with it in it.
LEMMA MergedIsRow ==
    ASSUME rows \in [Ops -> AnyRow], read \in [Edits -> AnyRow],
           NEW edit \in Edits, MayMerge(edit)
    PROVE  Merged(edit) \in Row
<1> DEFINE op == Body[edit]
           edits == read[edit].edits \cup {edit}
<1>1. op \in Ops
  BY BodiesAreUpdates DEF Ops
<1>2. CASE read[edit] = NoRow
  BY <1>1, <1>2, NewRowIsRow DEF Merged
<1>3. CASE read[edit] # NoRow
  <2>1. rows[op] \in Row
    BY <1>1, <1>3 DEF MayMerge, Sendable, NoRow, AnyRow
  <2>2. Restored(rows[op]) \in Row
    BY <2>1, RestoredIsRow
  <2>3. edits \in SUBSET Edits
    BY <1>3 DEF AnyRow, Row
  <2>4. Merged(edit) = [Restored(rows[op]) EXCEPT !.edits = edits]
    BY <1>3, <2>1 DEF Merged, Restored, Row
  <2> HIDE DEF edits
  <2> QED
    BY <2>2, <2>3, <2>4 DEF Row
<1> QED
  BY <1>2, <1>3

\* Marking a row keeps it, and keeps its parent's address.
LEMMA MarkedIsRow ==
    ASSUME NEW row \in AnyRow, NEW seen \in Row, NEW reply \in Replies
    PROVE  /\ Marked(row, seen, reply) \in AnyRow
           /\ Marked(row, seen, reply) = NoRow <=> row = NoRow
           /\ Marked(row, seen, reply).addressed = row.addressed
<1>1. CASE row = NoRow
  BY <1>1 DEF Marked, AnyRow
<1>2. CASE row # NoRow
  <2>1. row \in Row
    BY <1>2 DEF AnyRow
  <2>2. Decided(seen, reply) \in {"conflict", "stalled", "failed"}
    BY DEF Decided
  <2>3. (IF seen.tries < Limit THEN seen.tries + 1 ELSE Limit) \in 0..Limit
    BY Bounds DEF Row
  <2>4. /\ Marked(row, seen, reply) \in Row
        /\ Marked(row, seen, reply).addressed = row.addressed
    BY <1>2, <2>1, <2>2, <2>3 DEF Marked, Row, States
  <2> QED
    BY <1>2, <2>4, NoRowIsNoRow DEF AnyRow
<1> QED
  BY <1>1, <1>2

-----------------------------------------------------------------------------
(* The table: what a step may do to the row of an operation.               *)

Answers(op) == \E s \in Screens : drain[s].reply = "ok" /\ drain[s].op = op

\* A row goes only after its answer; it learns its parent's address only from
\* its parent's answer.
RowKept(op) ==
    /\ rows[op] # NoRow /\ rows'[op] = NoRow => Answers(op)
    /\ rows'[op] # NoRow /\ rows'[op].addressed /\ Parent[op] # None =>
          (rows[op] # NoRow /\ rows[op].addressed) \/ Answers(Parent[op])

TableMoves == rows' \in [Ops -> AnyRow] /\ \A op \in Ops : RowKept(op)

LEMMA RowReplaced ==
    ASSUME TypeOK, NEW op \in Ops, NEW row \in Row,
           rows' = [rows EXCEPT ![op] = row],
           row.addressed /\ Parent[op] # None => rows[op] # NoRow /\ rows[op].addressed
    PROVE  TableMoves
BY NoRowIsNoRow DEF TypeOK, TableMoves, RowKept, AnyRow

LEMMA TableUnchanged ==
    ASSUME TypeOK, UNCHANGED rows
    PROVE  TableMoves
BY DEF TypeOK, TableMoves, RowKept, AnyRow

LEMMA TableEnqueue ==
    ASSUME TypeOK, NEW item \in Recorded, Enqueue(item)
    PROVE  TableMoves
<1>1. item \in Ops
  BY DEF Recorded, Ops
<1>2. CASE Queued(item)
  BY <1>2, TableUnchanged DEF Enqueue
<1>3. CASE ~Queued(item)
  BY <1>1, <1>3, NewRowIsRow, RowReplaced DEF Enqueue
<1> QED
  BY <1>2, <1>3

LEMMA TableWriteBody ==
    ASSUME TypeOK, NEW edit \in Edits, WriteBody(edit)
    PROVE  TableMoves
<1>1. Body[edit] \in Ops /\ Parent[Body[edit]] = None
  BY BodiesAreUpdates, ParentsAreCreations DEF Ops
<1>2. CASE MayMerge(edit)
  <2>1. Merged(edit) \in Row
    BY <1>2, MergedIsRow DEF TypeOK, AnyRow
  <2> QED
    BY <1>1, <1>2, <2>1, RowReplaced DEF WriteBody
<1>3. CASE ~MayMerge(edit)
  BY <1>3, TableUnchanged DEF WriteBody
<1> QED
  BY <1>2, <1>3

LEMMA TableAttachOne ==
    ASSUME TypeOK, NEW s \in Screens, NEW r \in Ops, AttachOne(s, r)
    PROVE  TableMoves
<1>1. drain[s].reply = "ok" /\ drain[s].op = Parent[r]
  BY DEF TypeOK, DrainOK, AttachOne
<1>2. Answers(Parent[r])
  BY <1>1 DEF Answers
<1>3. CASE Queued(r)
  <2>1. rows[r] \in Row
    BY <1>3 DEF TypeOK, Queued
  <2>2. [rows[r] EXCEPT !.addressed = TRUE] \in Row
    BY <2>1 DEF Row
  <2>3. rows' = [rows EXCEPT ![r] = [rows[r] EXCEPT !.addressed = TRUE]]
    BY <1>3 DEF AttachOne
  <2> QED
    BY <1>2, <2>2, <2>3, NoRowIsNoRow DEF TypeOK, TableMoves, RowKept, AnyRow
<1>4. CASE ~Queued(r)
  BY <1>4, TableUnchanged DEF AttachOne
<1> QED
  BY <1>3, <1>4

LEMMA TableRemove ==
    ASSUME TypeOK, NEW s \in Screens, RemoveRow(s)
    PROVE  TableMoves
<1>1. drain[s].op \in Ops /\ drain[s].reply = "ok"
  BY DEF TypeOK, DrainOK, RemoveRow
<1>2. Answers(drain[s].op)
  BY <1>1 DEF Answers
<1>3. rows' = [rows EXCEPT ![drain[s].op] = NoRow]
  BY DEF RemoveRow
<1> QED
  BY <1>1, <1>2, <1>3 DEF TypeOK, TableMoves, RowKept, AnyRow

LEMMA TableMark ==
    ASSUME TypeOK, NEW s \in Screens, MarkRow(s)
    PROVE  TableMoves
<1> DEFINE op == drain[s].op
           row == Marked(rows[op], drain[s].batch[op], drain[s].reply)
<1>1. op \in Ops /\ drain[s].batch[op] # NoRow
  BY DEF TypeOK, DrainOK, MarkRow
<1>2. drain[s].batch[op] \in Row /\ drain[s].reply \in Replies
  BY <1>1 DEF TypeOK, Drain
<1>3. /\ row \in AnyRow
      /\ row = NoRow <=> rows[op] = NoRow
      /\ row.addressed = rows[op].addressed
  BY <1>1, <1>2, MarkedIsRow DEF TypeOK, AnyRow
<1>4. rows' = [rows EXCEPT ![op] = row]
  BY DEF MarkRow
<1> HIDE DEF op, row
<1> QED
  BY <1>1, <1>3, <1>4 DEF TypeOK, TableMoves, RowKept, AnyRow

LEMMA TableBackoff ==
    ASSUME TypeOK, NEW op \in Ops, BackoffElapses(op)
    PROVE  TableMoves
<1>1. rows[op] \in Row
  BY DEF TypeOK, BackoffElapses, NoRow
<1>2. /\ [rows[op] EXCEPT !.due = TRUE] \in Row
      /\ [rows[op] EXCEPT !.due = TRUE].addressed = rows[op].addressed
  BY <1>1 DEF Row
<1> QED
  BY <1>1, <1>2, NoRowIsNoRow, RowReplaced DEF BackoffElapses

LEMMA TableHuman ==
    ASSUME TypeOK, NEW op \in Ops, Human(op)
    PROVE  TableMoves
<1>1. CASE ~Queued(op)
  BY <1>1, TableUnchanged DEF Human, RetryRow, Resend, Discard, Queued, NoRow
<1>2. CASE Queued(op)
  <2>1. rows[op] \in Row
    BY <1>2 DEF TypeOK, Queued
  <2>2. CASE RetryRow(op) \/ Resend(op)
    BY <1>2, <2>1, <2>2, RestoredIsRow, NoRowIsNoRow, RowReplaced DEF RetryRow, Resend
  <2>3. CASE Discard(op)
    <3>1. /\ [rows[op] EXCEPT !.state = "discarded"] \in Row
          /\ [rows[op] EXCEPT !.state = "discarded"].addressed = rows[op].addressed
      BY <2>1 DEF Row, States
    <3> QED
      BY <2>1, <2>3, <3>1, NoRowIsNoRow, RowReplaced DEF Discard
  <2> QED
    BY <2>2, <2>3 DEF Human
<1> QED
  BY <1>1, <1>2

\* Every step keeps the table as it should.
LEMMA TableStep ==
    ASSUME TypeOK, [Next]_vars
    PROVE  TableMoves
<1>1. ASSUME NEW item \in Recorded, Record(item) PROVE TableMoves
  BY <1>1, TableEnqueue, TableUnchanged
     DEF Record, Save, SaveRefused, SaveUnreached, OpenUnder
<1>2. ASSUME NEW edit \in Edits, Change(edit) PROVE TableMoves
  BY <1>2, TableWriteBody, TableUnchanged
     DEF Change, Save, SaveRefused, SaveUnreached, ReadBody
<1>3. ASSUME NEW s \in Screens, DrainStep(s) PROVE TableMoves
  BY <1>3, TableAttachOne, TableRemove, TableMark, TableUnchanged
     DEF DrainStep, ReadPass, SendRow, AttachRecording
<1>4. CASE ShowQueue \/ Connect \/ Disconnect \/ Restart \/ UNCHANGED vars
  BY <1>4, TableUnchanged DEF ShowQueue, Connect, Disconnect, Restart, vars
<1> QED
  BY <1>1, <1>2, <1>3, <1>4, TableBackoff, TableHuman DEF Next, Recorded

-----------------------------------------------------------------------------
(* The drains: what a step may do to the drain of a screen.                *)

LEMMA ThreePasses == Len(Passes) = 3
BY DEF Passes

LEMMA IdleIsDrain == Idle \in Drain /\ Started \in Drain /\ DrainOK(Idle) /\ DrainOK(Started)
<1>1. Nothing \in [Ops -> Row \cup {NoRow}]
  BY DEF Nothing
<1> QED
  BY <1>1, ThreePasses DEF Idle, Started, Drain, DrainOK, Replies

\* A drain holds only what it held, or what a pass may read.
BatchKept(s) ==
    \A op \in Ops : drain'[s].batch[op] # NoRow =>
                        drain[s].batch[op] # NoRow \/ op \in NextBatch

\* An answer "ok" is an older one, or for what the server now has.
AnswerKept(s) ==
    drain'[s].reply = "ok" =>
        \/ drain[s].reply = "ok" /\ drain'[s].op = drain[s].op
        \/ (drain[s].op \in Recorded => OnServer(drain[s].op))'

DrainMoves ==
    /\ drain' \in [Screens -> Drain]
    /\ \A s \in Screens : DrainOK(drain'[s]) /\ BatchKept(s) /\ AnswerKept(s)

LEMMA DrainUnchanged ==
    ASSUME TypeOK, UNCHANGED drain
    PROVE  DrainMoves
BY DEF TypeOK, DrainMoves, BatchKept, AnswerKept

\* One screen's drain moves, the others stay.
LEMMA DrainReplaced ==
    ASSUME TypeOK, NEW s \in Screens, NEW d \in Drain, DrainOK(d),
           drain' = [drain EXCEPT ![s] = d],
           \A op \in Ops : d.batch[op] # NoRow =>
                               drain[s].batch[op] # NoRow \/ op \in NextBatch,
           d.reply = "ok" =>
               \/ drain[s].reply = "ok" /\ d.op = drain[s].op
               \/ d.op \in Recorded => OnServer(d.op)'
    PROVE  DrainMoves
<1>1. /\ drain' \in [Screens -> Drain]
      /\ drain'[s] = d
      /\ \A t \in Screens \ {s} : drain'[t] = drain[t]
  BY DEF TypeOK
<1>2. DrainOK(drain'[s]) /\ BatchKept(s) /\ AnswerKept(s)
  <2>1. DrainOK(drain'[s])
    BY <1>1
  <2>2. BatchKept(s)
    BY <1>1 DEF BatchKept
  <2>3. AnswerKept(s)
    BY <1>1 DEF AnswerKept, OnServer, Recorded
  <2> QED
    BY <2>1, <2>2, <2>3
<1>3. ASSUME NEW t \in Screens \ {s}
      PROVE  DrainOK(drain'[t]) /\ BatchKept(t) /\ AnswerKept(t)
  BY <1>1 DEF TypeOK, BatchKept, AnswerKept
<1> QED
  BY <1>1, <1>2, <1>3 DEF DrainMoves

\* A drain that begins holds nothing.
LEMMA StartedHoldsNothing ==
    /\ Started.reply = "none" /\ \A op \in Ops : Started.batch[op] = NoRow
    /\ Idle.reply = "none" /\ \A op \in Ops : Idle.batch[op] = NoRow
BY DEF Started, Idle, Nothing

LEMMA NextPassIsDrain ==
    ASSUME NEW d \in Drain
    PROVE  /\ NextPass(d) \in Drain /\ DrainOK(NextPass(d))
           /\ NextPass(d).reply = "none"
           /\ \A op \in Ops : NextPass(d).batch[op] = NoRow
<1>1. CASE d.pass = Len(Passes)
  BY <1>1, IdleIsDrain, StartedHoldsNothing DEF NextPass
<1>2. CASE d.pass # Len(Passes)
  <2>1. d.pass + 1 \in 1..Len(Passes)
    BY <1>2, ThreePasses DEF Drain
  <2>2. NextPass(d) = [Started EXCEPT !.pass = d.pass + 1]
    BY <1>2 DEF NextPass
  <2>3. Started \in Drain /\ Started.pc = "read" /\ Started.reply = "none"
    BY IdleIsDrain DEF Started, Idle
  <2>4. NextPass(d) \in Drain /\ NextPass(d).pc = "read" /\ NextPass(d).reply = "none"
    BY <2>1, <2>2, <2>3 DEF Drain
  <2>5. NextPass(d).batch = Started.batch /\ NextPass(d).todo = {}
    BY <2>2, <2>3 DEF Drain, Started, Idle
  <2> QED
    BY <2>4, <2>5, StartedHoldsNothing DEF DrainOK
<1> QED
  BY <1>1, <1>2

LEMMA AfterIsDrain ==
    ASSUME NEW d \in Drain, d.op \in Ops, d.todo = {}
    PROVE  /\ After(d) \in Drain /\ DrainOK(After(d))
           /\ After(d).reply = "none"
           /\ \A op \in Ops : After(d).batch[op] # NoRow => d.batch[op] # NoRow
<1> DEFINE batch == [d.batch EXCEPT ![d.op] = NoRow]
<1>1. /\ batch \in [Ops -> Row \cup {NoRow}]
      /\ \A op \in Ops : batch[op] # NoRow => d.batch[op] # NoRow
  BY DEF Drain
<1>2. After(d) = IF batch = Nothing THEN NextPass(d)
                 ELSE [d EXCEPT !.pc = "send", !.batch = batch, !.op = None, !.reply = "none"]
  BY DEF After
<1> HIDE DEF batch
<1>3. CASE batch = Nothing
  BY <1>2, <1>3, NextPassIsDrain
<1>4. CASE batch # Nothing
  <2>1. /\ After(d) \in Drain
        /\ After(d).pc = "send" /\ After(d).reply = "none" /\ After(d).batch = batch
        /\ After(d).todo = {}
    BY <1>1, <1>2, <1>4 DEF Drain, Replies
  <2> QED
    BY <1>1, <2>1 DEF DrainOK
<1> QED
  BY <1>3, <1>4

LEMMA DrainRead ==
    ASSUME TypeOK, NEW s \in Screens, ReadPass(s)
    PROVE  DrainMoves
<1> DEFINE pass == BatchForPass(drain[s].pass)
           seen == [op \in Ops |-> IF op \in pass THEN rows[op] ELSE NoRow]
           d == IF pass = {} THEN NextPass(drain[s])
                ELSE [drain[s] EXCEPT !.pc = "send", !.batch = seen]
<1>1. drain' = [drain EXCEPT ![s] = d]
  BY DEF ReadPass
<1>2. drain[s] \in Drain /\ drain[s].pc = "read" /\ drain[s].todo = {}
  BY DEF TypeOK, DrainOK, ReadPass
<1>3. /\ seen \in [Ops -> Row \cup {NoRow}]
      /\ \A op \in Ops : seen[op] # NoRow => op \in NextBatch
  BY DEF TypeOK, BatchForPass
<1>4. CASE pass = {}
  <2>1. d = NextPass(drain[s])
    BY <1>4
  <2> HIDE DEF d
  <2> QED
    BY <1>1, <1>2, <2>1, NextPassIsDrain, DrainReplaced
<1>5. CASE pass # {}
  <2> HIDE DEF pass, seen
  <2>1. /\ d \in Drain /\ d.pc = "send" /\ d.batch = seen
        /\ d.reply = drain[s].reply /\ d.op = drain[s].op /\ d.todo = {}
    BY <1>2, <1>3, <1>5 DEF Drain
  <2>2. DrainOK(d)
    BY <2>1 DEF DrainOK
  <2> HIDE DEF d
  <2> QED
    BY <1>1, <1>3, <2>1, <2>2, DrainReplaced
<1> QED
  BY <1>4, <1>5

LEMMA DrainSend ==
    ASSUME TypeOK, NEW s \in Screens, NEW op \in Ops, SendRow(s, op)
    PROVE  DrainMoves
<1>1. PICK reply \in Replies :
        /\ Answered(s, op, reply)
        /\ reply = "ok" => (op \in Recorded => OnServer(op)')
  BY DEF SendRow, Replies, DrainTakes, RecordsKeyed, RecordsBare, OnServer, Recorded
<1> DEFINE d == [drain[s] EXCEPT !.pc = "reply", !.op = op, !.reply = reply]
<1>2. drain[s] \in Drain /\ drain[s].batch[op] # NoRow /\ drain[s].todo = {}
  BY DEF TypeOK, DrainOK, SendRow
<1>3. drain' = [drain EXCEPT ![s] = d]
  BY <1>1, <1>2 DEF TypeOK, Answered
<1>4. /\ d \in Drain /\ d.pc = "reply" /\ d.op = op /\ d.reply = reply
      /\ d.batch = drain[s].batch /\ d.todo = {}
  BY <1>1, <1>2 DEF Drain
<1>5. DrainOK(d)
  BY <1>2, <1>4 DEF DrainOK
<1> HIDE DEF d
<1> QED
  BY <1>1, <1>3, <1>4, <1>5, DrainReplaced

LEMMA DrainAttach ==
    ASSUME TypeOK, NEW s \in Screens, AttachRecording(s)
    PROVE  DrainMoves
<1> DEFINE found == Dependants(drain[s].op)
           d == [drain[s] EXCEPT !.pc = "attach", !.todo = found]
<1>1. drain[s] \in Drain /\ DrainOK(drain[s]) /\ drain[s].pc = "reply" /\ drain[s].reply = "ok"
  BY DEF TypeOK, AttachRecording
<1>2. drain' = [drain EXCEPT ![s] = d]
  BY <1>1 DEF TypeOK, AttachRecording
<1>3. found \subseteq Ops /\ \A r \in found : Parent[r] = drain[s].op
  BY DEF Dependants
<1> HIDE DEF found
<1>4. /\ d \in Drain /\ d.pc = "attach" /\ d.op = drain[s].op /\ d.todo = found
      /\ d.reply = drain[s].reply /\ d.batch = drain[s].batch
  BY <1>1, <1>3 DEF Drain
<1>5. DrainOK(d)
  BY <1>1, <1>3, <1>4 DEF DrainOK
<1> HIDE DEF d
<1> QED
  BY <1>2, <1>4, <1>5, DrainReplaced

LEMMA DrainAttachOne ==
    ASSUME TypeOK, NEW s \in Screens, NEW r \in Ops, AttachOne(s, r)
    PROVE  DrainMoves
<1> DEFINE d == [drain[s] EXCEPT !.todo = drain[s].todo \ {r}]
<1>1. drain[s] \in Drain /\ DrainOK(drain[s])
  BY DEF TypeOK
<1>2. drain' = [drain EXCEPT ![s] = d]
  BY <1>1 DEF TypeOK, AttachOne
<1>3. /\ d \in Drain /\ d.pc = drain[s].pc /\ d.op = drain[s].op
      /\ d.todo \subseteq drain[s].todo
      /\ d.reply = drain[s].reply /\ d.batch = drain[s].batch
  BY <1>1 DEF Drain
<1>4. DrainOK(d)
  BY <1>1, <1>3 DEF DrainOK
<1> HIDE DEF d
<1> QED
  BY <1>2, <1>3, <1>4, DrainReplaced

LEMMA DrainAfter ==
    ASSUME TypeOK, NEW s \in Screens, RemoveRow(s) \/ MarkRow(s)
    PROVE  DrainMoves
<1>1. drain[s] \in Drain /\ drain[s].op \in Ops /\ drain[s].todo = {}
  BY DEF TypeOK, DrainOK, RemoveRow, MarkRow
<1>2. drain' = [drain EXCEPT ![s] = After(drain[s])]
  BY DEF RemoveRow, MarkRow
<1> QED
  BY <1>1, <1>2, AfterIsDrain, DrainReplaced

LEMMA DrainStarts ==
    ASSUME TypeOK, Connect \/ Restart
    PROVE  DrainMoves
<1>1. ASSUME NEW s \in Screens
      PROVE  drain'[s] = Started \/ drain'[s] = drain[s]
  BY <1>1 DEF Connect, Restart
<1>2. drain' \in [Screens -> Drain]
  <2>1. drain' = [s \in Screens |-> drain'[s]]
    BY DEF Connect, Restart
  <2> QED
    BY <1>1, <2>1, IdleIsDrain DEF TypeOK
<1>3. ASSUME NEW s \in Screens
      PROVE  DrainOK(drain'[s]) /\ BatchKept(s) /\ AnswerKept(s)
  BY <1>1, IdleIsDrain, StartedHoldsNothing DEF TypeOK, BatchKept, AnswerKept
<1> QED
  BY <1>2, <1>3 DEF DrainMoves

\* Every step keeps the drains as it should.
LEMMA DrainsStep ==
    ASSUME TypeOK, [Next]_vars
    PROVE  DrainMoves
<1>1. ASSUME NEW item, Record(item) \/ Change(item) PROVE DrainMoves
  BY <1>1, DrainUnchanged
     DEF Record, Change, Save, SaveRefused, SaveUnreached, Enqueue, OpenUnder,
         ReadBody, WriteBody
<1>2. ASSUME NEW s \in Screens, DrainStep(s) PROVE DrainMoves
  BY <1>2, DrainRead, DrainSend, DrainAttach, DrainAttachOne, DrainAfter DEF DrainStep
<1>3. ASSUME NEW op \in Ops, Human(op) \/ BackoffElapses(op) PROVE DrainMoves
  BY <1>3, DrainUnchanged DEF Human, RetryRow, Resend, Discard, BackoffElapses
<1>4. CASE ShowQueue \/ Connect \/ Disconnect \/ Restart \/ UNCHANGED vars
  BY <1>4, DrainStarts, DrainUnchanged DEF ShowQueue, Disconnect, vars
<1> QED
  BY <1>1, <1>2, <1>3, <1>4 DEF Next

-----------------------------------------------------------------------------
(* The forms and the server.                                               *)

\* The server forgets nothing, learns a dependant only from a drain that holds
\* it, and a form is done with only once the server or the table has its body.
ServerMoves ==
    /\ keyed \subseteq keyed' /\ bare \subseteq bare'
    /\ \A op \in Ops : OnServer(op)' /\ ~OnServer(op) /\ Parent[op] # None =>
           \E s \in Screens : drain[s].batch[op] # NoRow
    /\ \A op \in Recorded : form'[op] \in {"saved", "queued"} =>
           \/ form[op] \in {"saved", "queued"}
           \/ OnServer(op)'
           \/ rows'[op] # NoRow

OthersTyped ==
    /\ form \in [Items -> Forms]
    /\ keyed \subseteq Creates
    /\ bare \subseteq Creates \cup Photos
    /\ linked \subseteq Ops
    /\ applied \subseteq Edits
    /\ online \in BOOLEAN
    /\ faults \in 0..MaxFaults

LEMMA RecordedOrEdit ==
    /\ Recorded \subseteq Items /\ Recorded \subseteq Ops
    /\ Edits \subseteq Items /\ \A op \in Recorded : op \notin Edits
BY BodiesAreUpdates DEF Recorded, Items, Ops

LEMMA FormIsSaved ==
    ASSUME TypeOK, NEW item \in Recorded \cup Edits,
           Save(item) \/ SaveRefused(item) \/ SaveUnreached(item)
    PROVE  ServerMoves /\ OthersTyped'
<1>1. item \in Items /\ (item \in Recorded => item \in Ops)
  BY RecordedOrEdit
<1>2. /\ keyed \subseteq keyed' /\ bare \subseteq bare'
      /\ \A op \in Ops : OnServer(op)' => OnServer(op) \/ Parent[op] = None
  BY DEF Save, SaveRefused, SaveUnreached, ServerTakes, ServerIdle, RecordsKeyed,
         RecordsBare, DirectlySaved, OnServer
<1>3. \A op \in Recorded : form'[op] \in {"saved", "queued"} =>
          form[op] \in {"saved", "queued"} \/ OnServer(op)'
  <2>1. CASE Save(item)
    <3>1. item \in Recorded => OnServer(item)'
      BY <2>1, RecordedOrEdit
         DEF Save, ServerTakes, RecordsKeyed, RecordsBare, OnServer
    <3> QED
      BY <1>1, <2>1, <3>1, RecordedOrEdit DEF Save, TypeOK
  <2>2. CASE SaveRefused(item) \/ SaveUnreached(item)
    BY <1>1, <2>2, RecordedOrEdit DEF SaveRefused, SaveUnreached, TypeOK
  <2> QED
    BY <2>1, <2>2
<1>4. form' \in [Items -> Forms]
  BY <1>1 DEF Save, SaveRefused, SaveUnreached, TypeOK, Forms
<1>5. faults' \in 0..MaxFaults /\ online' \in BOOLEAN
  <2>1. online' = online \/ online' = FALSE
    BY Zenon DEF Save, SaveRefused, SaveUnreached
  <2>2. faults' = faults \/ GoesWrong
    BY DEF Save, SaveRefused, SaveUnreached
  <2>3. faults' \in 0..MaxFaults
    BY <2>2, Bounds DEF GoesWrong, TypeOK
  <2> QED
    BY <2>1, <2>3 DEF TypeOK
<1>6. /\ keyed' \subseteq Creates /\ bare' \subseteq Creates \cup Photos
      /\ linked' \subseteq Ops /\ applied' \subseteq Edits
  BY KeyedAreCreations
     DEF Save, SaveRefused, SaveUnreached, ServerTakes, ServerIdle, RecordsKeyed,
         RecordsBare, TypeOK, Recorded
<1> QED
  BY <1>2, <1>3, <1>4, <1>5, <1>6 DEF ServerMoves, OthersTyped

LEMMA FormIsQueued ==
    ASSUME TypeOK, NEW item \in Recorded, Enqueue(item)
    PROVE  ServerMoves /\ OthersTyped'
<1>1. UNCHANGED <<keyed, bare, linked, applied, online, faults>>
  BY DEF Enqueue, ServerIdle
<1>2. rows'[item] # NoRow
  <2>1. item \in Ops
    BY RecordedOrEdit
  <2>2. NewRow(item, {}) # NoRow
    BY <2>1, NewRowIsRow, NoRowIsNoRow
  <2> QED
    BY <2>1, <2>2 DEF Enqueue, Queued, TypeOK
<1>3. form' = FormsAfter(item)
  BY DEF Enqueue
<1>4. form' \in [Items -> Forms]
  BY <1>3 DEF FormsAfter, TypeOK, Forms
<1>5. \A op \in Recorded : form'[op] \in {"saved", "queued"} =>
          form[op] \in {"saved", "queued"} \/ op = item
  BY <1>3, RecordedOrEdit DEF FormsAfter
<1> QED
  BY <1>1, <1>2, <1>4, <1>5 DEF ServerMoves, OthersTyped, TypeOK, OnServer

\* The other steps of a screen, the connection and the restart leave the
\* server alone and finish no form of a recording.
LEMMA FormIsNotDone ==
    ASSUME TypeOK,
           \/ \E op \in Recorded : OpenUnder(op)
           \/ \E edit \in Edits : ReadBody(edit) \/ WriteBody(edit)
           \/ Restart
    PROVE  ServerMoves /\ OthersTyped'
<1>1. UNCHANGED <<keyed, bare, linked, applied>>
  BY DEF OpenUnder, ReadBody, WriteBody, Restart, ServerIdle
<1>2. form' \in [Items -> Forms]
  BY RecordedOrEdit
     DEF OpenUnder, ReadBody, WriteBody, Restart, TypeOK, Forms
<1>3. \A op \in Recorded : form'[op] \in {"saved", "queued"} => form[op] \in {"saved", "queued"}
  BY RecordedOrEdit
     DEF OpenUnder, ReadBody, WriteBody, Restart, TypeOK
<1>4. online' \in BOOLEAN /\ faults' \in 0..MaxFaults
  <2>1. online' = online \/ online' = TRUE
    BY Zenon DEF OpenUnder, ReadBody, WriteBody, Restart
  <2>2. faults' = faults \/ GoesWrong
    BY DEF OpenUnder, ReadBody, WriteBody, Restart
  <2>3. faults' \in 0..MaxFaults
    BY <2>2, Bounds DEF GoesWrong, TypeOK
  <2> QED
    BY <2>1, <2>3 DEF TypeOK
<1> QED
  BY <1>1, <1>2, <1>3, <1>4 DEF ServerMoves, OthersTyped, TypeOK, OnServer

LEMMA ServerSend ==
    ASSUME TypeOK, NEW s \in Screens, NEW op \in Ops, SendRow(s, op)
    PROVE  ServerMoves /\ OthersTyped'
<1> DEFINE row == drain[s].batch[op]
<1>1. row \in Row
  BY DEF TypeOK, Drain, SendRow
<1>2. DrainTakes(op, row) \/ ServerIdle
  BY DEF SendRow
<1>3. UNCHANGED <<form, online>> /\ faults' \in 0..MaxFaults
  BY Bounds DEF SendRow, GoesWrong, TypeOK
<1>4. /\ keyed \subseteq keyed' /\ bare \subseteq bare'
      /\ keyed' \subseteq keyed \cup {op} /\ bare' \subseteq bare \cup {op}
      /\ keyed' \subseteq Creates /\ bare' \subseteq Creates \cup Photos
  BY <1>2 DEF DrainTakes, ServerIdle, RecordsKeyed, RecordsBare, TypeOK
<1>5. linked' \subseteq Ops /\ applied' \subseteq Edits
  BY <1>1, <1>2 DEF DrainTakes, ServerIdle, TypeOK, Row
<1>6. \A o \in Ops : OnServer(o)' /\ ~OnServer(o) => o = op
  BY <1>4 DEF OnServer
<1>7. drain[s].batch[op] # NoRow
  BY DEF SendRow
<1> QED
  BY <1>3, <1>4, <1>5, <1>6, <1>7 DEF ServerMoves, OthersTyped, TypeOK

LEMMA ServerUnchanged ==
    ASSUME TypeOK, UNCHANGED <<form, keyed, bare, linked, applied, faults>>,
           online' \in BOOLEAN
    PROVE  ServerMoves /\ OthersTyped'
BY DEF ServerMoves, OthersTyped, TypeOK, OnServer

\* Every step keeps the forms and the server as it should.
LEMMA ServerStep ==
    ASSUME TypeOK, [Next]_vars
    PROVE  ServerMoves /\ OthersTyped'
<1>1. ASSUME NEW item \in Recorded, Record(item) PROVE ServerMoves /\ OthersTyped'
  BY <1>1, FormIsSaved, FormIsQueued, FormIsNotDone DEF Record
<1>2. ASSUME NEW edit \in Edits, Change(edit) PROVE ServerMoves /\ OthersTyped'
  BY <1>2, FormIsSaved, FormIsNotDone DEF Change
<1>3. ASSUME NEW s \in Screens, DrainStep(s) PROVE ServerMoves /\ OthersTyped'
  BY <1>3, ServerSend, ServerUnchanged
     DEF DrainStep, ReadPass, AttachRecording, AttachOne, RemoveRow, MarkRow, ServerIdle,
         TypeOK
<1>4. ASSUME NEW op \in Ops, Human(op) \/ BackoffElapses(op)
      PROVE  ServerMoves /\ OthersTyped'
  BY <1>4, ServerUnchanged
     DEF Human, RetryRow, Resend, Discard, BackoffElapses, ServerIdle, TypeOK
<1>5. CASE ShowQueue \/ Connect \/ Disconnect \/ UNCHANGED vars
  BY <1>5, ServerUnchanged DEF ShowQueue, Connect, Disconnect, ServerIdle, vars, TypeOK
<1> QED
  BY <1>1, <1>2, <1>3, <1>4, <1>5, FormIsNotDone DEF Next, Recorded

ListsTyped == read \in [Edits -> AnyRow] /\ listed \subseteq Ops

\* What the edit and the queue screen have read is rows of the table.
LEMMA ListsStep ==
    ASSUME TypeOK, [Next]_vars
    PROVE  ListsTyped'
<1>1. ListsTyped
  BY DEF TypeOK, ListsTyped, AnyRow
<1>2. CASE UNCHANGED <<read, listed>>
  BY <1>1, <1>2 DEF ListsTyped
<1>3. ASSUME NEW edit \in Edits, ReadBody(edit) \/ WriteBody(edit) PROVE ListsTyped'
  <2>1. rows[Body[edit]] \in AnyRow
    BY BodiesAreUpdates DEF TypeOK, AnyRow, Ops
  <2>2. /\ UNCHANGED listed
        /\ \/ UNCHANGED read
           \/ \E row \in AnyRow : read' = [read EXCEPT ![edit] = row]
    BY <1>3, <2>1 DEF ReadBody, WriteBody, AnyRow
  <2> QED
    BY <1>1, <2>2 DEF ListsTyped
<1>4. CASE ShowQueue
  BY <1>1, <1>4 DEF ShowQueue, ListsTyped
<1>5. CASE Restart
  BY <1>5 DEF Restart, ListsTyped, AnyRow
<1>6. ASSUME NEW item, Record(item) PROVE UNCHANGED <<read, listed>>
  BY <1>6 DEF Record, Save, SaveRefused, SaveUnreached, Enqueue, OpenUnder
<1>7. ASSUME NEW edit \in Edits, Change(edit)
      PROVE  UNCHANGED <<read, listed>> \/ ReadBody(edit) \/ WriteBody(edit)
  BY <1>7 DEF Change, Save, SaveRefused, SaveUnreached
<1>8. ASSUME NEW s \in Screens, DrainStep(s) PROVE UNCHANGED <<read, listed>>
  BY <1>8 DEF DrainStep, ReadPass, SendRow, AttachRecording, AttachOne, RemoveRow, MarkRow
<1>9. ASSUME NEW op \in Ops, Human(op) \/ BackoffElapses(op) PROVE UNCHANGED <<read, listed>>
  BY <1>9 DEF Human, RetryRow, Resend, Discard, BackoffElapses
<1>10. CASE Connect \/ Disconnect \/ UNCHANGED vars
  BY <1>2, <1>10 DEF Connect, Disconnect, vars
<1> QED
  BY <1>2, <1>3, <1>4, <1>5, <1>6, <1>7, <1>8, <1>9, <1>10 DEF Next

-----------------------------------------------------------------------------
(* The inductive invariant.                                                *)

\* A row knows its parent's address only once the server has the parent.
AddressesAreReal ==
    \A op \in Ops : rows[op] # NoRow /\ rows[op].addressed /\ Parent[op] # None =>
                        OnServer(Parent[op])

\* A drain holds a dependant only once the server has the parent.
BatchesAreReady ==
    \A s \in Screens, op \in Ops :
        drain[s].batch[op] # NoRow /\ Parent[op] # None => OnServer(Parent[op])

\* An answer "ok" is for what the server has.
AnswersAreTrue ==
    \A s \in Screens :
        drain[s].reply = "ok" /\ drain[s].op \in Recorded => OnServer(drain[s].op)

Inductive == /\ TypeOK /\ AddressesAreReal /\ BatchesAreReady /\ AnswersAreTrue
             /\ NothingVanishes /\ ParentsFirst

LEMMA ParentIsRecorded ==
    ASSUME NEW op \in Ops, Parent[op] # None
    PROVE  Parent[op] \in Recorded /\ Parent[op] \in Ops
BY ParentsAreCreations DEF Recorded, Ops

LEMMA InductiveInit == Init => Inductive
<1> SUFFICES ASSUME Init PROVE Inductive
  OBVIOUS
<1>1. rows \in [Ops -> AnyRow]
  BY NewRowIsRow DEF Init, AnyRow
<1>2. OthersTyped
  BY Bounds DEF Init, OthersTyped, Forms
<1>3. drain \in [Screens -> Drain] /\ \A s \in Screens : drain[s] = Started
  BY IdleIsDrain DEF Init
<1>4. TypeOK
  <2>1. ListsTyped
    BY DEF Init, ListsTyped, AnyRow
  <2> QED
    BY <1>1, <1>2, <1>3, <2>1, IdleIsDrain DEF TypeOK, OthersTyped, ListsTyped, AnyRow
<1>5. \A op \in Ops : rows[op] # NoRow => Parent[op] = None
  BY LeftAreUpdates, ParentsAreCreations DEF Init
<1>6. BatchesAreReady /\ AnswersAreTrue
  BY <1>3, StartedHoldsNothing DEF BatchesAreReady, AnswersAreTrue
<1>7. NothingVanishes /\ ParentsFirst
  BY RecordedOrEdit DEF Init, NothingVanishes, ParentsFirst, OnServer, Recorded
<1> QED
  BY <1>4, <1>5, <1>6, <1>7 DEF Inductive, AddressesAreReal

\* What a pass may read has a parent the server has.
LEMMA BatchIsReady ==
    ASSUME Inductive, NEW op \in NextBatch, Parent[op] # None
    PROVE  OnServer(Parent[op])
<1>1. op \in Waiting
  BY ParentsAreCreations DEF NextBatch, Free
<1>2. PICK d \in Due : Parent[d] = Parent[op] /\ Parent[d] # None /\ rows[d].addressed
  BY <1>1 DEF Waiting, Acknowledged
<1>3. d \in Ops /\ rows[d] # NoRow
  BY <1>2 DEF Due, NoRow, Sendable
<1> QED
  BY <1>2, <1>3 DEF Inductive, AddressesAreReal

LEMMA InductiveStep == Inductive /\ [Next]_vars => Inductive'
<1> SUFFICES ASSUME Inductive, [Next]_vars PROVE Inductive'
  OBVIOUS
<1>1. TableMoves /\ DrainMoves /\ ServerMoves /\ OthersTyped' /\ ListsTyped'
  BY TableStep, DrainsStep, ServerStep, ListsStep DEF Inductive
<1>2. TypeOK'
  BY <1>1 DEF TypeOK, OthersTyped, ListsTyped, AnyRow, TableMoves, DrainMoves
<1>3. \A op : OnServer(op) => OnServer(op)'
  BY <1>1 DEF ServerMoves, OnServer
<1>4. ASSUME NEW op \in Recorded, Answers(op) PROVE OnServer(op)
  BY <1>4 DEF Answers, Inductive, AnswersAreTrue
<1>5. AddressesAreReal'
  <2> SUFFICES ASSUME NEW op \in Ops, rows'[op] # NoRow, rows'[op].addressed,
                      Parent[op] # None
               PROVE  OnServer(Parent[op])'
    BY DEF AddressesAreReal
  <2>1. (rows[op] # NoRow /\ rows[op].addressed) \/ Answers(Parent[op])
    BY <1>1 DEF TableMoves, RowKept
  <2>2. OnServer(Parent[op])
    BY <1>4, <2>1, ParentIsRecorded DEF Inductive, AddressesAreReal
  <2> QED
    BY <1>3, <2>2
<1>6. BatchesAreReady'
  <2> SUFFICES ASSUME NEW s \in Screens, NEW op \in Ops,
                      drain'[s].batch[op] # NoRow, Parent[op] # None
               PROVE  OnServer(Parent[op])'
    BY DEF BatchesAreReady
  <2>1. drain[s].batch[op] # NoRow \/ op \in NextBatch
    BY <1>1 DEF DrainMoves, BatchKept
  <2>2. OnServer(Parent[op])
    BY <2>1, BatchIsReady DEF Inductive, BatchesAreReady
  <2> QED
    BY <1>3, <2>2
<1>7. AnswersAreTrue'
  <2> SUFFICES ASSUME NEW s \in Screens, (drain[s].reply = "ok")',
                      (drain[s].op \in Recorded)'
               PROVE  (OnServer(drain[s].op))'
    BY DEF AnswersAreTrue
  <2>1. CASE drain[s].reply = "ok" /\ drain'[s].op = drain[s].op
    <3>1. drain[s].op \in Recorded
      BY <2>1 DEF Recorded
    <3>2. OnServer(drain[s].op)
      BY <2>1, <3>1 DEF Inductive, AnswersAreTrue
    <3>3. OnServer(drain[s].op) => drain'[s].op \in keyed' \cup bare'
      BY <1>3, <2>1 DEF OnServer
    <3> QED
      BY <3>2, <3>3 DEF OnServer
  <2>2. CASE (drain[s].op \in Recorded => OnServer(drain[s].op))'
    BY <2>2
  <2> QED
    BY <1>1, <2>1, <2>2 DEF DrainMoves, AnswerKept
<1>8. NothingVanishes'
  <2> SUFFICES ASSUME NEW op \in Recorded, form'[op] \in {"saved", "queued"}
               PROVE  rows'[op] # NoRow \/ OnServer(op)'
    BY DEF NothingVanishes, Queued, Recorded
  <2>1. op \in Ops
    BY RecordedOrEdit
  <2>2. CASE form[op] \in {"saved", "queued"}
    <3>1. rows[op] # NoRow \/ OnServer(op)
      BY <2>2 DEF Inductive, NothingVanishes, Queued, Recorded
    <3>2. rows[op] # NoRow /\ rows'[op] = NoRow => OnServer(op)
      BY <1>1, <1>4, <2>1 DEF TableMoves, RowKept
    <3> QED
      BY <1>3, <3>1, <3>2
  <2>3. CASE form[op] \notin {"saved", "queued"}
    BY <1>1, <2>3 DEF ServerMoves
  <2> QED
    BY <2>2, <2>3
<1>9. ParentsFirst'
  <2> SUFFICES ASSUME NEW op \in Ops, Parent[op] # None, OnServer(op)'
               PROVE  OnServer(Parent[op])'
    BY DEF ParentsFirst
  <2>1. CASE OnServer(op)
    BY <1>3, <2>1 DEF Inductive, ParentsFirst
  <2>2. CASE ~OnServer(op)
    <3>1. PICK s \in Screens : drain[s].batch[op] # NoRow
      BY <1>1, <2>2 DEF ServerMoves
    <3> QED
      BY <1>3, <3>1 DEF Inductive, BatchesAreReady
  <2> QED
    BY <2>1, <2>2
<1> QED
  BY <1>2, <1>5, <1>6, <1>7, <1>8, <1>9 DEF Inductive

LEMMA InductiveHolds == Spec => []Inductive
<1> QED
  BY InductiveInit, InductiveStep, PTL DEF Spec

-----------------------------------------------------------------------------
\* The table, the forms and the drains hold what the code's types allow.
THEOREM QueueTyped == Spec => []TypeOK
<1>1. Inductive => TypeOK
  BY DEF Inductive
<1> QED
  BY <1>1, InductiveHolds, PTL

\* A recording the technician was told is saved is on the server or on the
\* phone, for any number of calls that go wrong and any number of screens
\* (queue-runner.ts).
THEOREM NothingIsLost == Spec => []NothingVanishes
<1>1. Inductive => NothingVanishes
  BY DEF Inductive
<1> QED
  BY <1>1, InductiveHolds, PTL

\* Nothing reaches the server before what it hangs on (queue-order.ts).
THEOREM ParentsComeFirst == Spec => []ParentsFirst
<1>1. Inductive => ParentsFirst
  BY DEF Inductive
<1> QED
  BY <1>1, InductiveHolds, PTL

=============================================================================
