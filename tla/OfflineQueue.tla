---------------------------- MODULE OfflineQueue ----------------------------
(***************************************************************************)
(* The queue of a technician's phone (apps/mobile/src/lib/offline): forms  *)
(* save to the server or, when it cannot be reached, to a table on the     *)
(* phone; a drain sends the rows when the connection comes back, what      *)
(* depends on nothing first, and a dependant only once its parent's        *)
(* server id is known.                                                     *)
(*                                                                         *)
(* Every await is a step of its own: between the request and the mark the  *)
(* technician may save, the phone may die, the home screen may be mounted  *)
(* a second time.                                                          *)
(***************************************************************************)
EXTENDS Naturals, Sequences

CONSTANTS
    Creates,    \* operations that record something new
    Photos,     \* operations that upload a photo
    Updates,    \* operations that change an asset the server has
    Edits,      \* fields changed on the edit screen
    Parent,     \* the creation an operation waits for, None if it waits for none
    Body,       \* the operation that carries an edit
    Keyed,      \* creations whose form sends the operation's id to the server
    Left,       \* updates an earlier session left in the queue
    Fixable,    \* operations the phone has a screen to repair
    Screens,    \* instances of the home screen
    None,       \* no operation
    Limit,      \* server errors after which a row stalls (8 in the code)
    MaxFaults   \* bound: calls that go wrong, and deaths of the app

Ops == Creates \cup Photos \cup Updates

ASSUME OpsAreApart == /\ Creates \cap Photos = {}
                      /\ Updates \cap (Creates \cup Photos) = {}
ASSUME NoneIsNoOp == None \notin Ops
ASSUME ParentsAreCreations == /\ Parent \in [Ops -> Creates \cup {None}]
                              /\ \A op \in Updates : Parent[op] = None
                              /\ \A op \in Creates : Parent[op] # op
ASSUME BodiesAreUpdates == /\ Body \in [Edits -> Updates]
                           /\ Edits \cap Ops = {}
ASSUME KeyedAreCreations == Keyed \subseteq Creates
ASSUME LeftAreUpdates == Left \subseteq Updates
ASSUME FixableAreOps == Fixable \subseteq Ops
ASSUME Bounds == Limit \in Nat \ {0} /\ MaxFaults \in Nat

VARIABLES
    rows,     \* the table sync_queue: a row for each queued operation
    form,     \* what became of each operation or edit on its screen
    keyed,    \* operations the server knows by their id
    bare,     \* operations the server recorded without an id
    linked,   \* dependants the server recorded under their parent
    applied,  \* edits the server has
    read,     \* what an edit found in the table before it is merged
    listed,   \* the rows the queue screen shows as stalled
    online,   \* what the phone believes of its connection
    drain,    \* the drain of each home screen
    faults    \* calls that went wrong so far

vars == <<rows, form, keyed, bare, linked, applied, read, listed, online, drain, faults>>

States == {"pending", "failed", "conflict", "stalled", "discarded"}
Sendable == {"pending", "failed"}
Row == [state : States, tries : 0..Limit, due : BOOLEAN, addressed : BOOLEAN,
        edits : SUBSET Edits]
NoRow == [state |-> "none", tries |-> 0, due |-> FALSE, addressed |-> FALSE, edits |-> {}]
NewRow(op, edits) == [state |-> "pending", tries |-> 0, due |-> TRUE,
                      addressed |-> Parent[op] = None, edits |-> edits]

Forms == {"new", "open", "unreached", "merging", "saved", "queued", "rejected", "gone"}
Items == Creates \cup Photos \cup Edits

\* The three passes of a drain, and how a send is answered.
Passes == <<"create", "update", "upload-photo">>
Replies == {"ok", "refused", "error", "none"}
Nothing == [op \in Ops |-> NoRow]
Idle == [pc |-> "idle", pass |-> 1, batch |-> Nothing, op |-> None, reply |-> "none",
         todo |-> {}]
Started == [Idle EXCEPT !.pc = "read"]

Queued(op) == rows[op] # NoRow
OnServer(op) == op \in keyed \cup bare
Kind(op) == IF op \in Creates THEN "create"
            ELSE IF op \in Updates THEN "update" ELSE "upload-photo"

-----------------------------------------------------------------------------
(* What goes in a pass (queue-order.ts).                                   *)

\* Mutant: a row that failed once is never sent again.
DueOnce == {op \in Ops : rows[op].state = "pending" /\ rows[op].due}

Due == {op \in Ops : rows[op].state \in Sendable /\ rows[op].due}

Acknowledged == {Parent[op] : op \in {d \in Due : Parent[d] # None /\ rows[d].addressed}}

Free == {op \in Due : op \notin Updates /\ Parent[op] = None}

\* Mutant: what waits goes with what it waits for.
AllWaiting == {op \in Due : Parent[op] # None}

Waiting == IF Free \subseteq Photos
           THEN {op \in Due : Parent[op] \in Acknowledged}
           ELSE {}

NextBatch == (Due \cap Updates) \cup Free \cup Waiting

BatchForPass(pass) == {op \in NextBatch : Kind(op) = Passes[pass]}

-----------------------------------------------------------------------------
(* What the server does with a request: it knows a creation by the id the  *)
(* phone gave it and answers the second request for it as the first.       *)

RecordsBare(op) == /\ bare' = bare \cup {op}
                   /\ UNCHANGED keyed

RecordsKeyed(op) == /\ keyed' = keyed \cup {op}
                    /\ UNCHANGED bare

ServerIdle == UNCHANGED <<keyed, bare, linked, applied>>

GoesWrong == /\ faults < MaxFaults
             /\ faults' = faults + 1

-----------------------------------------------------------------------------
(* The screens (save-or-queue.ts and the forms that call it).              *)

ServerTakes(item) ==
    IF item \in Edits
    THEN /\ applied' = applied \cup {item}
         /\ UNCHANGED <<keyed, bare, linked>>
    ELSE /\ IF item \in Keyed THEN RecordsKeyed(item) ELSE RecordsBare(item)
         /\ UNCHANGED <<linked, applied>>

DirectlySaved(item) == IF item \in Edits THEN TRUE ELSE Parent[item] = None

\* The server answers.
Save(item) ==
    /\ form[item] = "new" /\ online /\ DirectlySaved(item)
    /\ ServerTakes(item)
    /\ form' = [form EXCEPT ![item] = "saved"]
    /\ UNCHANGED <<rows, read, listed, online, drain, faults>>

SaveRefused(item) ==
    /\ form[item] = "new" /\ online /\ DirectlySaved(item)
    /\ GoesWrong
    /\ form' = [form EXCEPT ![item] = "rejected"]
    /\ ServerIdle
    /\ UNCHANGED <<rows, read, listed, online, drain>>

\* No answer comes: the request was lost, or its answer was.
SaveUnreached(item) ==
    /\ form[item] = "new" /\ online /\ DirectlySaved(item)
    /\ GoesWrong
    /\ ServerTakes(item) \/ ServerIdle
    /\ form' = [form EXCEPT ![item] = "unreached"]
    /\ online' = FALSE
    /\ UNCHANGED <<rows, read, listed, drain>>

MayQueue(item) ==
    \/ form[item] \in {"unreached", "open"}
    \/ form[item] = "new" /\ ~online /\ DirectlySaved(item)

\* Once a recording is queued, its screen queues the photos taken with it.
FormsAfter(op) ==
    [f \in Items |-> IF f = op THEN "queued"
                     ELSE IF f \in Photos /\ Parent[f] = op /\ form[f] = "new" THEN "open"
                     ELSE form[f]]

Enqueue(op) ==
    /\ op \in Creates \cup Photos /\ MayQueue(op)
    /\ rows' = IF Queued(op) THEN rows ELSE [rows EXCEPT ![op] = NewRow(op, {})]
    /\ form' = FormsAfter(op)
    /\ ServerIdle
    /\ UNCHANGED <<read, listed, online, drain, faults>>

\* An edit first reads the row of its body; when a human has to see to that
\* row, the technician is told to come back.
ReadBody(edit) ==
    /\ MayQueue(edit)
    /\ LET row == rows[Body[edit]]
       IN  IF row = NoRow \/ row.state \in Sendable
           THEN /\ form' = [form EXCEPT ![edit] = "merging"]
                /\ read' = [read EXCEPT ![edit] = row]
           ELSE /\ form' = [form EXCEPT ![edit] = "gone"]
                /\ UNCHANGED read
    /\ ServerIdle
    /\ UNCHANGED <<rows, listed, online, drain, faults>>

\* What it writes is the body it read with the edit in it.
Merged(edit) ==
    LET op == Body[edit]
    IN  IF read[edit] = NoRow THEN NewRow(op, {edit})
        ELSE [rows[op] EXCEPT !.state = "pending", !.tries = 0, !.due = TRUE,
                              !.edits = read[edit].edits \cup {edit}]

\* The insert collides with a row queued meanwhile; the update finds no row
\* that may still be changed.
MayMerge(edit) ==
    LET row == rows[Body[edit]]
    IN  IF read[edit] = NoRow THEN row = NoRow ELSE row.state \in Sendable

WriteBody(edit) ==
    /\ form[edit] = "merging"
    /\ IF MayMerge(edit)
       THEN /\ rows' = [rows EXCEPT ![Body[edit]] = Merged(edit)]
            /\ form' = [form EXCEPT ![edit] = "queued"]
       ELSE /\ form' = [form EXCEPT ![edit] = "gone"]
            /\ UNCHANGED rows
    /\ read' = [read EXCEPT ![edit] = NoRow]
    /\ ServerIdle
    /\ UNCHANGED <<listed, online, drain, faults>>

\* A worksheet is begun under a ticket that is still in the queue.
OpenUnder(op) ==
    /\ op \in Creates /\ Parent[op] # None
    /\ form[op] = "new" /\ Queued(Parent[op])
    /\ form' = [form EXCEPT ![op] = "open"]
    /\ ServerIdle
    /\ UNCHANGED <<rows, read, listed, online, drain, faults>>

-----------------------------------------------------------------------------
(* The connection and the home screen (use-queue-drain.ts).                *)

Connect ==
    /\ ~online
    /\ online' = TRUE
    /\ drain' = [s \in Screens |-> IF drain[s].pc = "idle" THEN Started ELSE drain[s]]
    /\ ServerIdle
    /\ UNCHANGED <<rows, form, read, listed, faults>>

Disconnect ==
    /\ online
    /\ online' = FALSE
    /\ ServerIdle
    /\ UNCHANGED <<rows, form, read, listed, drain, faults>>

\* The app dies and is opened again: only the table is left.
Restart ==
    /\ GoesWrong
    /\ form' = [f \in Items |-> IF form[f] \in {"open", "unreached", "merging"}
                                THEN "gone" ELSE form[f]]
    /\ read' = [edit \in Edits |-> NoRow]
    /\ listed' = {}
    /\ online' = TRUE
    /\ drain' = [s \in Screens |-> Started]
    /\ ServerIdle
    /\ UNCHANGED rows

-----------------------------------------------------------------------------
(* A drain (drain-offline-queue.ts, queue-runner.ts).                      *)

\* Mutant: a drain counts one pass too many.
OnePassMore(d) == IF d.pass > Len(Passes) THEN Idle
                  ELSE [Started EXCEPT !.pass = d.pass + 1]

NextPass(d) == IF d.pass = Len(Passes) THEN Idle
               ELSE [Started EXCEPT !.pass = d.pass + 1]

ReadPass(s) ==
    /\ drain[s].pc = "read"
    /\ LET batch == BatchForPass(drain[s].pass)
       IN  drain' = [drain EXCEPT ![s] =
               IF batch = {} THEN NextPass(@)
               ELSE [@ EXCEPT !.pc = "send",
                              !.batch = [op \in Ops |-> IF op \in batch THEN rows[op] ELSE NoRow]]]
    /\ ServerIdle
    /\ UNCHANGED <<rows, form, read, listed, online, faults>>

\* A photo whose owner is not known yet is not sent.
Sent(op, row) == op \in Photos => row.addressed

DrainTakes(op, row) ==
    /\ IF op \in Creates THEN RecordsKeyed(op)
       ELSE IF op \in Photos THEN RecordsBare(op)
       ELSE UNCHANGED <<keyed, bare>>
    /\ linked' = IF Parent[op] # None /\ row.addressed THEN linked \cup {op} ELSE linked
    /\ applied' = applied \cup row.edits

Answered(s, op, reply) ==
    drain' = [drain EXCEPT ![s].pc = "reply", ![s].op = op, ![s].reply = reply]

SendRow(s, op) ==
    /\ drain[s].pc = "send" /\ drain[s].batch[op] # NoRow
    /\ LET row == drain[s].batch[op]
       IN  \/ /\ Sent(op, row) /\ DrainTakes(op, row)
              /\ \/ Answered(s, op, "ok") /\ UNCHANGED faults
                 \/ Answered(s, op, "none") /\ GoesWrong
           \/ /\ Sent(op, row) /\ ServerIdle /\ GoesWrong
              /\ \E reply \in Replies \ {"ok"} : Answered(s, op, reply)
           \/ /\ ~Sent(op, row) /\ ServerIdle /\ UNCHANGED faults
              /\ Answered(s, op, "none")
    /\ UNCHANGED <<rows, form, read, listed, online>>

\* The row is done with; the next one of the batch, or the next pass.
After(d) ==
    LET batch == [d.batch EXCEPT ![d.op] = NoRow]
    IN  IF batch = Nothing THEN NextPass(d)
        ELSE [d EXCEPT !.pc = "send", !.batch = batch, !.op = None, !.reply = "none"]

\* The rows that wait for the recording's id; a photo that has one is left.
Dependants(op) == {r \in Ops : /\ Queued(r) /\ Parent[r] = op
                               /\ r \in Photos => ~rows[r].addressed}

AttachRecording(s) ==
    /\ drain[s].pc = "reply" /\ drain[s].reply = "ok"
    /\ drain' = [drain EXCEPT ![s].pc = "attach", ![s].todo = Dependants(drain[s].op)]
    /\ ServerIdle
    /\ UNCHANGED <<rows, form, read, listed, online, faults>>

\* Each dependant is written by a statement of its own, if it is still there.
AttachOne(s, r) ==
    /\ drain[s].pc = "attach" /\ r \in drain[s].todo
    /\ rows' = IF Queued(r) THEN [rows EXCEPT ![r].addressed = TRUE] ELSE rows
    /\ drain' = [drain EXCEPT ![s].todo = @ \ {r}]
    /\ ServerIdle
    /\ UNCHANGED <<form, read, listed, online, faults>>

RemoveRow(s) ==
    /\ drain[s].pc = "attach" /\ drain[s].todo = {}
    /\ rows' = [rows EXCEPT ![drain[s].op] = NoRow]
    /\ drain' = [drain EXCEPT ![s] = After(@)]
    /\ ServerIdle
    /\ UNCHANGED <<form, read, listed, online, faults>>

Decided(row, reply) ==
    IF reply = "refused" THEN "conflict"
    ELSE IF reply = "error" /\ row.tries + 1 >= Limit THEN "stalled"
    ELSE "failed"

\* Mutant: a row the server refuses is thrown away.
ThrownAway(row, seen, reply) ==
    IF reply = "refused" THEN NoRow ELSE [row EXCEPT !.state = "failed"]

Marked(row, seen, reply) ==
    LET state == Decided(seen, reply)
    IN  IF row = NoRow THEN NoRow
        ELSE IF state = "conflict" THEN [row EXCEPT !.state = state]
        ELSE [row EXCEPT !.state = state, !.due = FALSE,
                         !.tries = IF seen.tries < Limit THEN seen.tries + 1 ELSE Limit]

MarkRow(s) ==
    /\ drain[s].pc = "reply" /\ drain[s].reply # "ok"
    /\ LET d == drain[s]
       IN  rows' = [rows EXCEPT ![d.op] = Marked(@, d.batch[d.op], d.reply)]
    /\ drain' = [drain EXCEPT ![s] = After(@)]
    /\ ServerIdle
    /\ UNCHANGED <<form, read, listed, online, faults>>

BackoffElapses(op) ==
    /\ rows[op].state = "failed" /\ ~rows[op].due
    /\ rows' = [rows EXCEPT ![op].due = TRUE]
    /\ ServerIdle
    /\ UNCHANGED <<form, read, listed, online, drain, faults>>

-----------------------------------------------------------------------------
(* What a human does on the queue screen (app/queue.tsx).                  *)

Restored(row) == [row EXCEPT !.state = "pending", !.tries = 0, !.due = TRUE]

ShowQueue ==
    /\ listed' = {op \in Ops : rows[op].state = "stalled"}
    /\ ServerIdle
    /\ UNCHANGED <<rows, form, read, online, drain, faults>>

\* The button acts on the row by its id, whatever became of it since the list
\* was read.
RetryRow(op) ==
    /\ op \in listed
    /\ rows' = IF Queued(op) THEN [rows EXCEPT ![op] = Restored(@)] ELSE rows
    /\ ServerIdle
    /\ UNCHANGED <<form, read, listed, online, drain, faults>>

Resend(op) ==
    /\ rows[op].state = "conflict" /\ op \in Fixable
    /\ rows' = [rows EXCEPT ![op] = Restored(@)]
    /\ ServerIdle
    /\ UNCHANGED <<form, read, listed, online, drain, faults>>

Discard(op) ==
    /\ rows[op].state = "conflict"
    /\ rows' = [rows EXCEPT ![op].state = "discarded"]
    /\ ServerIdle
    /\ UNCHANGED <<form, read, listed, online, drain, faults>>

-----------------------------------------------------------------------------
Init ==
    /\ rows = [op \in Ops |-> IF op \in Left THEN NewRow(op, {}) ELSE NoRow]
    /\ form = [f \in Items |-> "new"]
    /\ keyed = {} /\ bare = {} /\ linked = {} /\ applied = {}
    /\ read = [edit \in Edits |-> NoRow] /\ listed = {}
    /\ online = TRUE
    /\ drain = [s \in Screens |-> Started]
    /\ faults = 0

Record(item) == \/ Save(item) \/ SaveRefused(item) \/ SaveUnreached(item)
                \/ Enqueue(item) \/ OpenUnder(item)

Change(edit) == \/ Save(edit) \/ SaveRefused(edit) \/ SaveUnreached(edit)
                \/ ReadBody(edit) \/ WriteBody(edit)

DrainStep(s) == \/ ReadPass(s) \/ (\E op \in Ops : SendRow(s, op))
                \/ AttachRecording(s) \/ (\E r \in Ops : AttachOne(s, r))
                \/ RemoveRow(s) \/ MarkRow(s)

Human(op) == RetryRow(op) \/ Resend(op) \/ Discard(op)

Next ==
    \/ \E item \in Creates \cup Photos : Record(item)
    \/ \E edit \in Edits : Change(edit)
    \/ \E s \in Screens : DrainStep(s)
    \/ \E op \in Ops : Human(op) \/ BackoffElapses(op)
    \/ ShowQueue \/ Connect \/ Disconnect \/ Restart

Spec == Init /\ [][Next]_vars

\* The connection keeps coming and going, a drain that runs goes on, and a
\* backoff ends.
Fairness ==
    /\ WF_vars(Connect) /\ WF_vars(Disconnect)
    /\ \A s \in Screens : WF_vars(DrainStep(s))
    /\ \A op \in Ops : WF_vars(BackoffElapses(op))

FairSpec == Spec /\ Fairness

-----------------------------------------------------------------------------
Drain == [pc : {"idle", "read", "send", "reply", "attach"}, pass : 1..Len(Passes),
          batch : [Ops -> Row \cup {NoRow}], op : Ops \cup {None}, reply : Replies,
          todo : SUBSET Ops]

DrainOK(d) ==
    /\ d.pc \in {"reply", "attach"} => d.op \in Ops /\ d.batch[d.op] # NoRow
    /\ d.pc = "attach" => d.reply = "ok"
    /\ \A r \in d.todo : d.pc = "attach" /\ Parent[r] = d.op

\* The table, the forms and the drains hold what the code's types allow; a
\* drain that waits for an answer holds the row it sent, as it read it.
TypeOK ==
    /\ rows \in [Ops -> Row \cup {NoRow}]
    /\ form \in [Items -> Forms]
    /\ keyed \subseteq Creates
    /\ bare \subseteq Creates \cup Photos
    /\ linked \subseteq Ops
    /\ applied \subseteq Edits
    /\ read \in [Edits -> Row \cup {NoRow}]
    /\ listed \subseteq Ops
    /\ online \in BOOLEAN
    /\ faults \in 0..MaxFaults
    /\ drain \in [Screens -> Drain]
    /\ \A s \in Screens : DrainOK(drain[s])

\* A recording or photo the technician was told is saved is on the server or
\* still on the phone, whatever is lost, sent twice, or cut short: a row goes
\* only once the server has what is in it (queue-runner.ts).
NothingVanishes ==
    \A op \in Creates \cup Photos :
        form[op] \in {"saved", "queued"} => Queued(op) \/ OnServer(op)

\* Nothing reaches the server before what it hangs on (queue-order.ts): not
\* in a pass that works on rows read before another change, nor after a death
\* that leaves some dependants with their parent's id, others without it, and
\* the parent's row in the queue.
ParentsFirst ==
    \A op \in Ops : Parent[op] # None /\ OnServer(op) => OnServer(Parent[op])

Stopped(op) == rows[op].state \in {"conflict", "stalled", "discarded"}

\* A row that has its parent's id, or whose parent's row can still tell it.
HasWayUp(op) ==
    /\ Queued(op)
    /\ \/ rows[op].addressed
       \/ /\ Queued(Parent[op])
          /\ \A s \in Screens : drain[s].pc = "attach" /\ drain[s].op = Parent[op] =>
                                 op \in drain[s].todo

Settled(op) ==
    \/ ~Queued(op) \/ Stopped(op)
    \/ Parent[op] # None /\ Stopped(Parent[op])

\* What is in the queue goes up or waits for a human, itself or with what it
\* hangs on: no order of failures, backoffs and passes leaves it waiting
\* (drain-offline-queue.ts).
EveryRowSettles == \A op \in Ops : HasWayUp(op) ~> Settled(op)

-----------------------------------------------------------------------------
(* Promises of comments that the code does not keep.                       *)

\* queue-store.ts:158-167: a body under way is not rewritten, because one of
\* the two would be lost without a word.
EditsKept ==
    \A edit \in Edits :
        form[edit] \in {"saved", "queued"} =>
            edit \in applied \/ edit \in rows[Body[edit]].edits

\* queue-order.ts:290-296: a row whose parent is lost is not sent.
RecordedUnderParent ==
    \A op \in Creates : Parent[op] # None /\ OnServer(op) => op \in linked

\* idokorlat.ts:15-22: a save cut short and queued does not record twice.
RecordedOnce == keyed \cap bare = {}

\* sync-queue.ts:309-310: a row that waits for a human moves only by a human.
StopsForHumans ==
    [][\A op \in Ops : Stopped(op) /\ ~Stopped(op)' => Human(op)]_vars

=============================================================================
