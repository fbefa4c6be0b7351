------------------------ MODULE StockPostingProofs ------------------------
(***************************************************************************)
(* Theorems about StockPosting for every set of pools, jobs and requests:  *)
(* type correctness, one row per pool and level, circles of waiting        *)
(* transactions, enough tries; and, where a pool's first row is created by *)
(* callers of one isolation level, the refinement of the ledger.           *)
(***************************************************************************)
EXTENDS StockPosting, FiniteSums, SequenceTheorems

(***************************************************************************)
(* A step of a request either moves it on, writes one row under its lock,  *)
(* ends its transaction, or commits.                                       *)
(***************************************************************************)
Places == Active \cup {"idle", "retry", "done", "refused"}

PlaceFor(r, v, n, s) ==
  /\ v \in Places /\ n \in Nat \ {0} /\ s \in Seq(Pools)
  /\ v \in {"check", "register", "lines"} => n <= Len(Postings[JobOf[r]])
  /\ v = "lines" => s \in Seq(DOMAIN Postings[JobOf[r]][n]) \ {<<>>}
  /\ v \in {"baseline", "after"} => s \in Seq(DOMAIN Expected[JobOf[r]]) \ {<<>>}

MovesTo(r, v, n, s) ==
  /\ PlaceFor(r, v, n, s)
  /\ pc' = [pc EXCEPT ![r] = v]
  /\ posting' = [posting EXCEPT ![r] = n]
  /\ left' = [left EXCEPT ![r] = s]

Moves(r) == \E v \in Active, n \in Nat, s \in Seq(Pools) : MovesTo(r, v, n, s)

GoesOn(r) ==
  /\ Moves(r)
  /\ attempt' \in [Requests -> Nat]
  /\ UNCHANGED <<database, snapshot, locks, writes, mishaps>>
  /\ \E K \in SUBSET (Jobs \X Nat) : keys' = [keys EXCEPT ![r] = K]

WritesRow(r, id, quantity) ==
  /\ Pool(id) \in Pools /\ Pool(id) \in Touched(r)
  /\ id \in Targets(r, Pool(id))
  /\ Free(r, Pool(id))
  /\ ~ Conflicts(r, id)
  /\ quantity \in Int
  /\ LockAndWrite(r, id, quantity)

Writes(r) ==
  /\ Moves(r)
  /\ \E id \in RowIds, quantity \in Int : WritesRow(r, id, quantity)

Ends(r) ==
  /\ \E next \in {"retry", "refused"} : Rollback(r, next)
  /\ faults' \in 0..MaxFaults /\ victims' \subseteq Requests

-----------------------------------------------------------------------------
(* Where a step leads. *)

LEMMA OrdersTyped ==
  ASSUME NEW S, S \subseteq Pools, NEW s \in Orders(S)
  PROVE  s \in Seq(S) /\ s \in Seq(Pools)
<1>1. IsFiniteSet(S)
  BY FS_Subset, JobAssumption
<1>2. Cardinality(S) \in Nat
  BY <1>1, FS_CardinalityType
<1>3. s \in [1..Cardinality(S) -> S] /\ s \in [1..Cardinality(S) -> Pools]
  BY DEF Orders
<1> QED
  BY <1>2, <1>3, SeqDef

LEMMA PostingsTyped ==
  ASSUME NEW r \in Requests, NEW k \in 1..Len(Postings[JobOf[r]])
  PROVE  /\ DOMAIN Postings[JobOf[r]][k] \subseteq Pools
         /\ DOMAIN Postings[JobOf[r]][k] # {}
         /\ \A p \in DOMAIN Postings[JobOf[r]][k] : Postings[JobOf[r]][k][p] \in Int
  BY JobAssumption DEF IsQuantities

LEMMA ExpectedTyped ==
  ASSUME NEW r \in Requests
  PROVE  /\ DOMAIN Expected[JobOf[r]] \subseteq Pools
         /\ \A p \in DOMAIN Expected[JobOf[r]] : Expected[JobOf[r]][p] \in Int
         /\ Differing(JobOf[r]) \subseteq DOMAIN Expected[JobOf[r]]
         /\ Matching(JobOf[r]) \subseteq DOMAIN Expected[JobOf[r]]
<1>1. JobOf[r] \in Jobs
  BY JobAssumption
<1>2. IsQuantities(Expected[JobOf[r]])
  BY <1>1, JobAssumption
<1>3. ASSUME JobOf[r] \in Counts, Len(Postings[JobOf[r]]) > 0
      PROVE  DOMAIN Postings[JobOf[r]][1] \subseteq DOMAIN Expected[JobOf[r]]
  <2>1. 1 \in 1..Len(Postings[JobOf[r]])
    BY <1>1, <1>3, JobAssumption
  <2> QED
    BY <1>3, <2>1, CountAssumption
<1> QED
  BY <1>2, <1>3 DEF IsQuantities, Differing, Matching

LEMMA ProceedMoves ==
  ASSUME TypeOK, NEW r \in Requests, NEW k \in Nat, Proceed(r, k)
  PROVE  Moves(r)
<1>0. JobOf[r] \in Jobs /\ Len(Postings[JobOf[r]]) \in Nat
  BY JobAssumption
<1>1. CASE k < Len(Postings[JobOf[r]])
  <2>1. /\ pc' = [pc EXCEPT ![r] = "check"]
        /\ posting' = [posting EXCEPT ![r] = k + 1]
        /\ left' = [left EXCEPT ![r] = <<>>]
    BY <1>1 DEF Proceed
  <2>2. PlaceFor(r, "check", k + 1, <<>>)
    BY <1>0, <1>1, EmptySeq DEF PlaceFor, Places, Active
  <2>3. MovesTo(r, "check", k + 1, <<>>)
    BY <2>1, <2>2 DEF MovesTo
  <2>4. k + 1 \in Nat /\ <<>> \in Seq(Pools) /\ "check" \in Active
    BY EmptySeq DEF Active
  <2> QED
    BY <2>3, <2>4 DEF Moves
<1>2. CASE ~ (k < Len(Postings[JobOf[r]]))
  <2> DEFINE S == UntrackedIn(r, Matching(JobOf[r]))
  <2>1. PICK s \in Orders(S) :
          /\ pc' = [pc EXCEPT ![r] = IF s = <<>> THEN "commit" ELSE "after"]
          /\ left' = [left EXCEPT ![r] = s]
          /\ UNCHANGED posting
    BY <1>2 DEF Proceed
  <2>2. S \subseteq Pools /\ S \subseteq DOMAIN Expected[JobOf[r]]
    BY ExpectedTyped DEF UntrackedIn
  <2>3. s \in Seq(S) /\ s \in Seq(Pools)
    BY <2>2, OrdersTyped
  <2>4. s \in Seq(DOMAIN Expected[JobOf[r]])
    BY <2>2, <2>3, SeqMonotonic
  <2>5. posting[r] \in Nat \ {0} /\ posting' = [posting EXCEPT ![r] = posting[r]]
    BY <2>1 DEF TypeOK, PlaceOK
  <2>6. CASE s = <<>>
    <3>1. PlaceFor(r, "commit", posting[r], s)
      BY <2>3, <2>5 DEF PlaceFor, Places, Active
    <3> QED
      BY <2>1, <2>3, <2>5, <2>6, <3>1 DEF Moves, MovesTo, Active
  <2>7. CASE s # <<>>
    <3>1. PlaceFor(r, "after", posting[r], s)
      BY <2>3, <2>4, <2>5, <2>7 DEF PlaceFor, Places, Active
    <3> QED
      BY <2>1, <2>3, <2>5, <2>7, <3>1 DEF Moves, MovesTo, Active
  <2> QED
    BY <2>6, <2>7
<1> QED
  BY <1>1, <1>2

LEMMA BeginGoesOn ==
  ASSUME TypeOK, NEW r \in Requests, Begin(r)
  PROVE  GoesOn(r)
<1> DEFINE S == UntrackedIn(r, Differing(JobOf[r]))
<1>1. PICK s \in Orders(S) :
        IF s = <<>> THEN Proceed(r, 0)
        ELSE /\ pc' = [pc EXCEPT ![r] = "baseline"]
             /\ left' = [left EXCEPT ![r] = s]
             /\ UNCHANGED posting
  BY DEF Begin
<1>2. Moves(r)
  <2>1. CASE s = <<>>
    BY <1>1, <2>1, ProceedMoves
  <2>2. CASE s # <<>>
    <3>1. S \subseteq Pools /\ S \subseteq DOMAIN Expected[JobOf[r]]
      BY ExpectedTyped DEF UntrackedIn
    <3>2. s \in Seq(S) /\ s \in Seq(Pools)
      BY <3>1, OrdersTyped
    <3>3. s \in Seq(DOMAIN Expected[JobOf[r]])
      BY <3>1, <3>2, SeqMonotonic
    <3>4. posting[r] \in Nat \ {0} /\ posting' = [posting EXCEPT ![r] = posting[r]]
      BY <1>1, <2>2 DEF TypeOK, PlaceOK
    <3>5. PlaceFor(r, "baseline", posting[r], s)
      BY <3>2, <3>3, <3>4, <2>2 DEF PlaceFor, Places, Active
    <3> QED
      BY <1>1, <2>2, <3>2, <3>4, <3>5 DEF Moves, MovesTo, Active
  <2> QED
    BY <2>1, <2>2
<1>3. attempt' \in [Requests -> Nat]
  BY DEF Begin, TypeOK, PlaceOK
<1>4. keys' = [keys EXCEPT ![r] = keys[r]] /\ keys[r] \in SUBSET (Jobs \X Nat)
  BY DEF Begin, TypeOK, DataOK
<1>5. UNCHANGED <<database, snapshot, locks, writes, mishaps>>
  BY DEF Begin
<1> QED
  BY <1>2, <1>3, <1>4, <1>5 DEF GoesOn

\* The pool a waiting write is for, and what is left after it.
LEMMA HeadTyped ==
  ASSUME TypeOK, NEW r \in Requests, pc[r] \in {"baseline", "lines", "after"}
  PROVE  /\ Head(left[r]) \in Pools /\ Head(left[r]) \in Touched(r)
         /\ pc[r] = "lines" =>
              /\ Lines(r)[Head(left[r])] \in Int
              /\ Len(left[r]) > 1 => Tail(left[r]) \in Seq(DOMAIN Lines(r)) \ {<<>>}
         /\ pc[r] \in {"baseline", "after"} =>
              /\ Expected[JobOf[r]][Head(left[r])] \in Int
              /\ Len(left[r]) > 1 =>
                   Tail(left[r]) \in Seq(DOMAIN Expected[JobOf[r]]) \ {<<>>}
         /\ Tail(left[r]) \in Seq(Pools)
<1>1. ASSUME NEW S, left[r] \in Seq(S) \ {<<>>}
      PROVE  /\ Head(left[r]) \in S /\ Tail(left[r]) \in Seq(S)
             /\ Len(left[r]) > 1 => Tail(left[r]) \in Seq(S) \ {<<>>}
  <2>1. left[r] \in Seq(S) /\ left[r] # <<>>
    BY <1>1
  <2>2. /\ Head(left[r]) \in S /\ Tail(left[r]) \in Seq(S)
        /\ Len(Tail(left[r])) = Len(left[r]) - 1
    BY <2>1, HeadTailProperties
  <2>3. ASSUME Len(left[r]) > 1 PROVE Tail(left[r]) # <<>>
    <3> DEFINE t == Tail(left[r])
               n == Len(left[r])
    <3>1. n \in Nat /\ n > 1 /\ Len(t) = n - 1
      BY <2>1, <2>2, <2>3, LenProperties
    <3> HIDE DEF t, n
    <3>2. Len(t) # 0
      BY <3>1
    <3>3. t # <<>>
      BY <3>2
    <3> QED
      BY <3>3 DEF t
  <2> QED
    BY <2>2, <2>3
<1>2. CASE pc[r] = "lines"
  <2>1. left[r] \in Seq(DOMAIN Lines(r)) \ {<<>>}
    BY <1>2 DEF TypeOK, PlaceOK
  <2>2. posting[r] \in 1..Len(Postings[JobOf[r]])
    BY <1>2, JobAssumption DEF TypeOK, PlaceOK
  <2>3. DOMAIN Lines(r) \subseteq Pools /\ \A p \in DOMAIN Lines(r) : Lines(r)[p] \in Int
    BY <2>2, PostingsTyped DEF Lines
  <2>4. /\ Head(left[r]) \in DOMAIN Lines(r) /\ Tail(left[r]) \in Seq(DOMAIN Lines(r))
        /\ Len(left[r]) > 1 => Tail(left[r]) \in Seq(DOMAIN Lines(r)) \ {<<>>}
    BY <1>1, <2>1
  <2>5. Tail(left[r]) \in Seq(Pools)
    BY <2>3, <2>4, SeqMonotonic
  <2>6. Head(left[r]) \in Touched(r)
    BY <2>2, <2>4 DEF Touched, Lines
  <2> QED
    BY <1>2, <2>3, <2>4, <2>5, <2>6
<1>3. CASE pc[r] \in {"baseline", "after"}
  <2> DEFINE E == Expected[JobOf[r]]
  <2>1. left[r] \in Seq(DOMAIN E) \ {<<>>}
    BY <1>3 DEF TypeOK, PlaceOK
  <2>2. DOMAIN E \subseteq Pools /\ \A p \in DOMAIN E : E[p] \in Int
    BY ExpectedTyped
  <2>3. /\ Head(left[r]) \in DOMAIN E /\ Tail(left[r]) \in Seq(DOMAIN E)
        /\ Len(left[r]) > 1 => Tail(left[r]) \in Seq(DOMAIN E) \ {<<>>}
    BY <1>1, <2>1
  <2>4. Tail(left[r]) \in Seq(Pools)
    BY <2>2, <2>3, SeqMonotonic
  <2>5. Head(left[r]) \in Touched(r)
    BY <2>3 DEF Touched
  <2> QED
    BY <1>3, <2>2, <2>3, <2>4, <2>5
<1> QED
  BY <1>2, <1>3

\* SetBaseline and PostLine write one row and move on.
LEMMA TargetTyped ==
  ASSUME TypeOK, NEW r \in Requests, NEW p \in Pools, NEW id \in Targets(r, p)
  PROVE  id \in RowIds /\ Pool(id) = p /\ OnHandSeen(r, id) \in Int
<1>1. id \in RowIds /\ Pool(id) = p
  BY DEF Targets, RowsSeen, RowsOf, RowIds, Pool, TypeOK, DataOK
<1>2. OnHandSeen(r, id) \in Int
  BY DEF OnHandSeen, TypeOK, DataOK
<1> QED
  BY <1>1, <1>2

LEMMA SetBaselineWrites ==
  ASSUME TypeOK, NEW r \in Requests, SetBaseline(r)
  PROVE  Writes(r)
<1> DEFINE p == Head(left[r])
           q == Expected[JobOf[r]][p]
<1>0. pc[r] \in {"baseline", "after"}
  BY DEF SetBaseline
<1>1. p \in Pools /\ p \in Touched(r) /\ q \in Int
  BY <1>0, HeadTyped
<1>2. PICK id \in Targets(r, p) : ~ Conflicts(r, id) /\ LockAndWrite(r, id, q)
  BY DEF SetBaseline
<1>3. id \in RowIds /\ Pool(id) = p
  BY <1>1, <1>2, TargetTyped
<1>4. Free(r, p)
  BY DEF SetBaseline
<1>5. WritesRow(r, id, q)
  BY <1>1, <1>2, <1>3, <1>4 DEF WritesRow
<1>6. Moves(r)
  <2>1. posting[r] \in Nat \ {0}
    BY DEF TypeOK, PlaceOK
  <2>2. CASE Len(left[r]) > 1
    <3>1. left' = [left EXCEPT ![r] = Tail(left[r])] /\ UNCHANGED <<pc, posting>>
      BY <2>2 DEF SetBaseline
    <3>2. pc' = [pc EXCEPT ![r] = pc[r]] /\ posting' = [posting EXCEPT ![r] = posting[r]]
      BY <3>1 DEF TypeOK, PlaceOK
    <3>3. Tail(left[r]) \in Seq(Pools)
          /\ Tail(left[r]) \in Seq(DOMAIN Expected[JobOf[r]]) \ {<<>>}
      BY <1>0, <2>2, HeadTyped
    <3>4. MovesTo(r, pc[r], posting[r], Tail(left[r]))
      BY <1>0, <2>1, <3>1, <3>2, <3>3 DEF MovesTo, PlaceFor, Places, Active
    <3> QED
      BY <1>0, <2>1, <3>3, <3>4 DEF Moves, Active
  <2>3. CASE ~ (Len(left[r]) > 1) /\ pc[r] = "baseline"
    <3>1. Proceed(r, 0)
      BY <2>3 DEF SetBaseline
    <3> QED
      BY <3>1, ProceedMoves
  <2>4. CASE ~ (Len(left[r]) > 1) /\ pc[r] # "baseline"
    <3>1. /\ pc' = [pc EXCEPT ![r] = "commit"]
          /\ left' = [left EXCEPT ![r] = <<>>]
          /\ UNCHANGED posting
      BY <2>4 DEF SetBaseline
    <3>2. posting' = [posting EXCEPT ![r] = posting[r]]
      BY <3>1 DEF TypeOK, PlaceOK
    <3>3. <<>> \in Seq(Pools)
      BY EmptySeq
    <3>4. MovesTo(r, "commit", posting[r], <<>>)
      BY <2>1, <3>1, <3>2, <3>3 DEF MovesTo, PlaceFor, Places, Active
    <3> QED
      BY <2>1, <3>3, <3>4 DEF Moves, Active
  <2> QED
    BY <2>2, <2>3, <2>4
<1> QED
  BY <1>1, <1>3, <1>5, <1>6 DEF Writes

LEMMA PostLineWrites ==
  ASSUME TypeOK, NEW r \in Requests, PostLine(r)
  PROVE  Writes(r)
<1> DEFINE p == Head(left[r])
<1>0. pc[r] = "lines"
  BY DEF PostLine
<1>1. p \in Pools /\ p \in Touched(r) /\ Lines(r)[p] \in Int
  BY <1>0, HeadTyped
<1>2. PICK id \in Targets(r, p) :
        ~ Conflicts(r, id) /\ LockAndWrite(r, id, OnHandSeen(r, id) + Lines(r)[p])
  BY DEF PostLine
<1>3. id \in RowIds /\ Pool(id) = p /\ OnHandSeen(r, id) \in Int
  BY <1>1, <1>2, TargetTyped
<1>4. Free(r, p)
  BY DEF PostLine
<1>5. WritesRow(r, id, OnHandSeen(r, id) + Lines(r)[p])
  BY <1>1, <1>2, <1>3, <1>4 DEF WritesRow
<1>6. Moves(r)
  <2>1. posting[r] \in Nat \ {0} /\ posting[r] <= Len(Postings[JobOf[r]])
    BY <1>0 DEF TypeOK, PlaceOK
  <2>2. CASE Len(left[r]) > 1
    <3>1. left' = [left EXCEPT ![r] = Tail(left[r])] /\ UNCHANGED <<pc, posting>>
      BY <2>2 DEF PostLine
    <3>2. pc' = [pc EXCEPT ![r] = "lines"] /\ posting' = [posting EXCEPT ![r] = posting[r]]
      BY <1>0, <3>1 DEF TypeOK, PlaceOK
    <3>3. Tail(left[r]) \in Seq(Pools)
          /\ Tail(left[r]) \in Seq(DOMAIN Lines(r)) \ {<<>>}
      BY <1>0, <2>2, HeadTyped
    <3>4. MovesTo(r, "lines", posting[r], Tail(left[r]))
      BY <2>1, <3>1, <3>2, <3>3 DEF MovesTo, PlaceFor, Places, Active, Lines
    <3> QED
      BY <2>1, <3>3, <3>4 DEF Moves, Active
  <2>3. CASE ~ (Len(left[r]) > 1)
    <3>1. Proceed(r, posting[r])
      BY <2>3 DEF PostLine
    <3> QED
      BY <2>1, <3>1, ProceedMoves
  <2> QED
    BY <2>2, <2>3
<1> QED
  BY <1>1, <1>3, <1>5, <1>6 DEF Writes

-----------------------------------------------------------------------------
(* The kinds of steps. *)

LEMMA MishapsTyped ==
  ASSUME TypeOK,
         UNCHANGED mishaps \/ (faults < MaxFaults /\ faults' = faults + 1 /\ victims' = victims)
  PROVE  faults' \in 0..MaxFaults /\ victims' \subseteq Requests
  BY JobAssumption DEF TypeOK, DataOK, mishaps

NextOf(r) == Begin(r) \/ Step(r) \/ TransactionFails(r) \/ FalseConflict(r)

LEMMA StepKinds ==
  ASSUME TypeOK, NEW r \in Requests, NextOf(r)
  PROVE  GoesOn(r) \/ Writes(r) \/ Ends(r) \/ Commit(r)
<1>2. ASSUME UNCHANGED mishaps PROVE faults' \in 0..MaxFaults /\ victims' \subseteq Requests
  BY <1>2, MishapsTyped
<1>3. ASSUME Refuse(r) \/ RetryOrRefuse(r)
      PROVE  \E next \in {"retry", "refused"} : Rollback(r, next)
  BY <1>3 DEF Refuse, RetryOrRefuse
<1>4. CASE Begin(r)
  BY <1>4, BeginGoesOn
<1>5. CASE SetBaseline(r)
  BY <1>5, SetBaselineWrites
<1>6. CASE AlreadyPosted(r)
  <2>1. CASE JobOf[r] \in Counts
    <3>1. Refuse(r) /\ UNCHANGED mishaps
      BY <1>6, <2>1 DEF AlreadyPosted
    <3> QED
      BY <1>2, <1>3, <3>1 DEF Ends
  <2>2. CASE JobOf[r] \notin Counts
    <3>1. /\ Proceed(r, posting[r])
          /\ UNCHANGED <<database, snapshot, attempt, locks, keys, writes, mishaps>>
      BY <1>6, <2>2 DEF AlreadyPosted
    <3>2. posting[r] \in Nat
      BY DEF TypeOK, PlaceOK
    <3>3. Moves(r)
      BY <3>1, <3>2, ProceedMoves
    <3>4. keys' = [keys EXCEPT ![r] = keys[r]] /\ keys[r] \in SUBSET (Jobs \X Nat)
      BY <3>1 DEF TypeOK, DataOK
    <3>5. attempt' \in [Requests -> Nat]
      BY <3>1 DEF TypeOK, PlaceOK
    <3> QED
      BY <3>1, <3>3, <3>4, <3>5 DEF GoesOn
  <2> QED
    BY <2>1, <2>2
<1>7. CASE NotYetPosted(r)
  <2>1. /\ pc[r] = "check"
        /\ pc' = [pc EXCEPT ![r] = "register"]
        /\ UNCHANGED <<database, snapshot, attempt, posting, left, locks, keys, writes, mishaps>>
    BY <1>7 DEF NotYetPosted
  <2>2. /\ posting' = [posting EXCEPT ![r] = posting[r]]
        /\ left' = [left EXCEPT ![r] = left[r]]
        /\ keys' = [keys EXCEPT ![r] = keys[r]] /\ keys[r] \in SUBSET (Jobs \X Nat)
        /\ attempt' \in [Requests -> Nat]
    BY <2>1 DEF TypeOK, PlaceOK, DataOK
  <2>3. /\ posting[r] \in Nat \ {0} /\ left[r] \in Seq(Pools)
        /\ posting[r] <= Len(Postings[JobOf[r]])
    BY <2>1 DEF TypeOK, PlaceOK
  <2>4. MovesTo(r, "register", posting[r], left[r])
    BY <2>1, <2>2, <2>3 DEF MovesTo, PlaceFor, Places, Active
  <2>5. Moves(r)
    BY <2>3, <2>4 DEF Moves, Active
  <2> QED
    BY <2>1, <2>2, <2>5 DEF GoesOn
<1>8. CASE CreateMovement(r)
  <2>1. PICK s \in PostingOrders(r) : left' = [left EXCEPT ![r] = s]
    BY <1>8 DEF CreateMovement
  <2>2. /\ pc[r] = "register"
        /\ pc' = [pc EXCEPT ![r] = "lines"]
        /\ keys' = [keys EXCEPT ![r] = keys[r] \cup {Key(r)}]
        /\ UNCHANGED <<database, snapshot, attempt, posting, locks, writes, mishaps>>
    BY <1>8 DEF CreateMovement
  <2>3. posting[r] \in 1..Len(Postings[JobOf[r]]) /\ posting[r] \in Nat \ {0}
    BY <2>2, JobAssumption DEF TypeOK, PlaceOK
  <2>4. DOMAIN Lines(r) \subseteq Pools /\ DOMAIN Lines(r) # {}
    BY <2>3, PostingsTyped DEF Lines
  <2>5. s \in Seq(DOMAIN Lines(r)) /\ s \in Seq(Pools)
    BY <2>1, <2>4, OrdersTyped DEF PostingOrders
  <2>6. s # <<>>
    <3>1. IsFiniteSet(DOMAIN Lines(r))
      BY <2>4, FS_Subset, JobAssumption
    <3>2. Cardinality(DOMAIN Lines(r)) \in Nat /\ Cardinality(DOMAIN Lines(r)) # 0
      BY <2>4, <3>1, FS_CardinalityType, FS_EmptySet
    <3>3. s \in [1..Cardinality(DOMAIN Lines(r)) -> DOMAIN Lines(r)]
      BY <2>1 DEF PostingOrders, Orders
    <3>4. Len(s) = Cardinality(DOMAIN Lines(r))
      BY <3>2, <3>3, <2>5, LenProperties
    <3> QED
      BY <3>2, <3>4
  <2>7. posting' = [posting EXCEPT ![r] = posting[r]] /\ attempt' \in [Requests -> Nat]
    BY <2>2 DEF TypeOK, PlaceOK
  <2>8. keys[r] \cup {Key(r)} \in SUBSET (Jobs \X Nat)
    <3>1. Key(r) \in Jobs \X Nat
      BY <2>3, JobAssumption DEF Key
    <3>2. keys[r] \subseteq Jobs \X Nat
      BY DEF TypeOK, DataOK
    <3> QED
      BY <3>1, <3>2
  <2>9. MovesTo(r, "lines", posting[r], s)
    <3>1. s \in Seq(DOMAIN Postings[JobOf[r]][posting[r]]) \ {<<>>}
      BY <2>5, <2>6 DEF Lines
    <3>2. PlaceFor(r, "lines", posting[r], s)
      BY <2>3, <2>5, <3>1 DEF PlaceFor, Places, Active
    <3> QED
      BY <2>1, <2>2, <2>7, <3>2 DEF MovesTo
  <2>10. Moves(r)
    BY <2>3, <2>5, <2>9 DEF Moves, Active
  <2> QED
    BY <2>2, <2>7, <2>8, <2>10 DEF GoesOn
<1>9. CASE CreateMovementFails(r)
  <2>1. Refuse(r) \/ RetryOrRefuse(r)
    BY <1>9 DEF CreateMovementFails
  <2>2. UNCHANGED mishaps
    BY <1>9 DEF CreateMovementFails
  <2> QED
    BY <1>2, <1>3, <2>1, <2>2 DEF Ends
<1>10. CASE PostLine(r)
  BY <1>10, PostLineWrites
<1>11. CASE WriteConflicts(r)
  BY <1>2, <1>3, <1>11 DEF WriteConflicts, Ends
<1>12. CASE DeadlockVictim(r)
  <2>1. faults' \in 0..MaxFaults /\ victims' \subseteq Requests
    BY <1>12 DEF DeadlockVictim, TypeOK, DataOK
  <2> QED
    BY <1>3, <1>12, <2>1 DEF DeadlockVictim, Ends
<1>13. CASE TransactionFails(r)
  BY <1>3, <1>13, MishapsTyped DEF TransactionFails, Ends
<1>14. CASE FalseConflict(r)
  BY <1>3, <1>14, MishapsTyped DEF FalseConflict, Ends
<1>15. CASE Commit(r)
  BY <1>15
<1> QED
  BY <1>4, <1>5, <1>6, <1>7, <1>8, <1>9, <1>10, <1>11, <1>12, <1>13, <1>14,
     <1>15 DEF NextOf, Step

-----------------------------------------------------------------------------
(* Type correctness. *)

LEMMA InitTyped == Init => TypeOK
<1> SUFFICES ASSUME Init PROVE TypeOK
  OBVIOUS
<1>1. PlaceOK
  <2>1. <<>> \in Seq(Pools)
    BY EmptySeq
  <2> QED
    BY <2>1 DEF Init, PlaceOK, Active
<1>2. DataOK
  <2>1. items = [id \in DOMAIN items |-> items[id]]
    BY DEF Init
  <2>2. DOMAIN items = (DOMAIN Opening) \X {Initially}
    BY DEF Init
  <2>3. DOMAIN Opening \subseteq Pools /\ \A p \in DOMAIN Opening : Opening[p] \in Int
    BY JobAssumption DEF IsQuantities
  <2>4. DOMAIN items \subseteq RowIds
    BY <2>2, <2>3 DEF RowIds
  <2>5. \A id \in DOMAIN items : items[id] \in Int
    BY <2>2, <2>3 DEF Init, Pool
  <2>6. writes = [r \in Requests |-> writes[r]]
    BY DEF Init
  <2>7. \A r \in Requests : DOMAIN writes[r] = {}
    <3>1. DOMAIN <<>> = {}
      OBVIOUS
    <3> QED
      BY <3>1 DEF Init
  <2>8. faults \in 0..MaxFaults /\ victims \subseteq Requests
    BY JobAssumption DEF Init
  <2>9. /\ movements \subseteq Jobs \X Nat
        /\ locks \in [Requests -> SUBSET Pools]
        /\ keys \in [Requests -> SUBSET (Jobs \X Nat)]
        /\ unseen \in [Requests -> SUBSET RowIds]
        /\ changed \in [Requests -> SUBSET RowIds]
        /\ unseenKeys \in [Requests -> SUBSET (Jobs \X Nat)]
    BY DEF Init
  <2> QED
    BY <2>1, <2>4, <2>5, <2>6, <2>7, <2>8, <2>9 DEF DataOK
<1>3. AtRest
  <2>1. DOMAIN <<>> = {}
    OBVIOUS
  <2> QED
    BY <2>1 DEF Init, AtRest
<1> QED
  BY <1>1, <1>2, <1>3 DEF TypeOK

LEMMA MovesPlace ==
  ASSUME TypeOK, NEW r \in Requests, Moves(r), attempt' \in [Requests -> Nat]
  PROVE  PlaceOK' /\ pc'[r] \in Active /\ \A q \in Requests \ {r} : pc'[q] = pc[q]
<1>1. PICK v \in Active, n \in Nat, s \in Seq(Pools) : MovesTo(r, v, n, s)
  BY DEF Moves
<1>2. /\ PlaceFor(r, v, n, s)
      /\ pc' = [pc EXCEPT ![r] = v]
      /\ posting' = [posting EXCEPT ![r] = n]
      /\ left' = [left EXCEPT ![r] = s]
  BY <1>1 DEF MovesTo
<1>3. /\ pc \in [Requests -> Places] /\ posting \in [Requests -> Nat \ {0}]
      /\ left \in [Requests -> Seq(Pools)]
  BY DEF TypeOK, PlaceOK, Places
<1>4. /\ pc' \in [Requests -> Places] /\ posting' \in [Requests -> Nat \ {0}]
      /\ left' \in [Requests -> Seq(Pools)]
  BY <1>2, <1>3 DEF PlaceFor
<1>5. /\ pc'[r] = v /\ posting'[r] = n /\ left'[r] = s
      /\ \A q \in Requests \ {r} :
           pc'[q] = pc[q] /\ posting'[q] = posting[q] /\ left'[q] = left[q]
  BY <1>2, <1>3
<1>6. ASSUME NEW q \in Requests PROVE PlaceFor(q, pc'[q], posting'[q], left'[q])
  <2>1. CASE q = r
    BY <1>2, <1>5, <2>1
  <2>2. CASE q # r
    <3>1. PlaceFor(q, pc[q], posting[q], left[q])
      BY <1>3 DEF TypeOK, PlaceOK, PlaceFor, Lines
    <3> QED
      BY <1>5, <2>2, <3>1
  <2> QED
    BY <2>1, <2>2
<1>7. PlaceOK'
  BY <1>4, <1>6 DEF PlaceOK, PlaceFor, Places, Lines
<1> QED
  BY <1>5, <1>7

LEMMA LeavesPlace ==
  ASSUME TypeOK, NEW r \in Requests, NEW v \in {"retry", "refused", "done"},
         pc' = [pc EXCEPT ![r] = v], left' = [left EXCEPT ![r] = <<>>],
         UNCHANGED <<attempt, posting>>
  PROVE  PlaceOK' /\ \A q \in Requests \ {r} : pc'[q] = pc[q]
<1>1. /\ pc \in [Requests -> Places] /\ posting \in [Requests -> Nat \ {0}]
      /\ left \in [Requests -> Seq(Pools)]
  BY DEF TypeOK, PlaceOK, Places
<1>2. <<>> \in Seq(Pools)
  BY EmptySeq
<1>3. /\ pc' \in [Requests -> Places] /\ posting' \in [Requests -> Nat \ {0}]
      /\ left' \in [Requests -> Seq(Pools)] /\ attempt' \in [Requests -> Nat]
  BY <1>1, <1>2 DEF Places, TypeOK, PlaceOK
<1>4. /\ pc'[r] = v
      /\ \A q \in Requests \ {r} : pc'[q] = pc[q] /\ left'[q] = left[q]
  BY <1>1
<1>5. ASSUME NEW q \in Requests PROVE PlaceFor(q, pc'[q], posting'[q], left'[q])
  <2>1. CASE q = r
    BY <1>3, <1>4, <2>1 DEF PlaceFor
  <2>2. CASE q # r
    <3>1. PlaceFor(q, pc[q], posting[q], left[q])
      BY <1>1 DEF TypeOK, PlaceOK, PlaceFor, Lines
    <3> QED
      BY <1>4, <2>2, <3>1
  <2> QED
    BY <2>1, <2>2
<1>6. PlaceOK'
  BY <1>3, <1>5 DEF PlaceOK, PlaceFor, Places, Lines
<1> QED
  BY <1>4, <1>6

LEMMA GoesOnTyped ==
  ASSUME TypeOK, NEW r \in Requests, GoesOn(r)
  PROVE  TypeOK'
<1>1. PlaceOK' /\ pc'[r] \in Active /\ \A q \in Requests \ {r} : pc'[q] = pc[q]
  BY MovesPlace DEF GoesOn
<1>2. PICK K \in SUBSET (Jobs \X Nat) : keys' = [keys EXCEPT ![r] = K]
  BY DEF GoesOn
<1>3. UNCHANGED <<items, movements, unseen, changed, unseenKeys, locks, writes, faults, victims>>
  BY DEF GoesOn, database, snapshot, mishaps
<1>4. keys' \in [Requests -> SUBSET (Jobs \X Nat)]
      /\ \A q \in Requests \ {r} : keys'[q] = keys[q]
  BY <1>2 DEF TypeOK, DataOK
<1>5. DataOK'
  BY <1>3, <1>4 DEF TypeOK, DataOK
<1>6. AtRest'
  BY <1>1, <1>3, <1>4 DEF TypeOK, AtRest
<1> QED
  BY <1>1, <1>5, <1>6 DEF TypeOK

LEMMA WritesTyped ==
  ASSUME TypeOK, NEW r \in Requests, Writes(r)
  PROVE  TypeOK'
<1>1. PICK id \in RowIds, quantity \in Int : WritesRow(r, id, quantity)
  BY DEF Writes
<1>2. Pool(id) \in Pools /\ LockAndWrite(r, id, quantity)
  BY <1>1 DEF WritesRow
<1>3. UNCHANGED <<items, movements, unseen, changed, unseenKeys, attempt, keys, faults, victims>>
  BY <1>2 DEF LockAndWrite, database, snapshot, mishaps
<1>4. attempt' \in [Requests -> Nat]
  BY <1>3 DEF TypeOK, PlaceOK
<1>5. PlaceOK' /\ pc'[r] \in Active /\ \A q \in Requests \ {r} : pc'[q] = pc[q]
  BY <1>4, MovesPlace DEF Writes
<1>6. /\ locks' \in [Requests -> SUBSET Pools]
      /\ locks'[r] = locks[r] \cup {Pool(id)}
      /\ \A q \in Requests \ {r} : locks'[q] = locks[q]
  BY <1>2 DEF LockAndWrite, TypeOK, DataOK
<1>7. writes = [q \in Requests |-> writes[q]]
  BY DEF TypeOK, DataOK
<1> DEFINE W == [i \in DOMAIN writes[r] \cup {id} |->
                   IF i = id THEN quantity ELSE writes[r][i]]
<1>8. writes' = [writes EXCEPT ![r] = W]
  BY <1>2 DEF LockAndWrite
<1> HIDE DEF W
<1>9. /\ writes' = [q \in Requests |-> writes'[q]]
      /\ writes'[r] = W
      /\ \A q \in Requests \ {r} : writes'[q] = writes[q]
  BY <1>7, <1>8
<1>10. /\ DOMAIN W \subseteq RowIds
       /\ \A i \in DOMAIN W : W[i] \in Int /\ Pool(i) \in locks'[r]
  <2>1. /\ DOMAIN writes[r] \subseteq RowIds
        /\ \A i \in DOMAIN writes[r] : writes[r][i] \in Int /\ Pool(i) \in locks[r]
    BY DEF TypeOK, DataOK
  <2> QED
    BY <1>6, <2>1 DEF W
<1>11. DataOK'
  <2>1. ASSUME NEW q \in Requests
        PROVE  /\ DOMAIN writes'[q] \subseteq RowIds
               /\ \A i \in DOMAIN writes'[q] : writes'[q][i] \in Int /\ Pool(i) \in locks'[q]
    <3>1. CASE q = r
      BY <1>9, <1>10, <3>1
    <3>2. CASE q # r
      BY <1>6, <1>9, <3>2 DEF TypeOK, DataOK
    <3> QED
      BY <3>1, <3>2
  <2> QED
    BY <1>3, <1>6, <1>9, <2>1 DEF TypeOK, DataOK, Pool
<1>12. AtRest'
  BY <1>3, <1>5, <1>6, <1>9 DEF TypeOK, AtRest
<1> QED
  BY <1>5, <1>11, <1>12 DEF TypeOK

\* What is left of a transaction when it is over.
LEMMA ForgetTyped ==
  ASSUME TypeOK, NEW r \in Requests, Forget(r)
  PROVE  /\ locks' \in [Requests -> SUBSET Pools]
         /\ keys' \in [Requests -> SUBSET (Jobs \X Nat)]
         /\ writes' = [q \in Requests |-> writes'[q]]
         /\ locks'[r] = {} /\ keys'[r] = {} /\ DOMAIN writes'[r] = {}
         /\ \A q \in Requests \ {r} :
              locks'[q] = locks[q] /\ keys'[q] = keys[q] /\ writes'[q] = writes[q]
         /\ \A q \in Requests :
              /\ DOMAIN writes'[q] \subseteq RowIds
              /\ \A id \in DOMAIN writes'[q] :
                   writes'[q][id] \in Int /\ Pool(id) \in locks'[q]
<1>1. DOMAIN <<>> = {}
  OBVIOUS
<1>2. /\ writes = [q \in Requests |-> writes[q]]
      /\ locks \in [Requests -> SUBSET Pools]
      /\ keys \in [Requests -> SUBSET (Jobs \X Nat)]
  BY DEF TypeOK, DataOK
<1>3. /\ locks' = [locks EXCEPT ![r] = {}] /\ keys' = [keys EXCEPT ![r] = {}]
      /\ writes' = [writes EXCEPT ![r] = <<>>]
  BY DEF Forget
<1>4. /\ writes' = [q \in Requests |-> writes'[q]]
      /\ locks'[r] = {} /\ keys'[r] = {} /\ writes'[r] = <<>>
      /\ \A q \in Requests \ {r} :
           locks'[q] = locks[q] /\ keys'[q] = keys[q] /\ writes'[q] = writes[q]
  BY <1>2, <1>3
<1>5. ASSUME NEW q \in Requests
      PROVE  /\ DOMAIN writes'[q] \subseteq RowIds
             /\ \A id \in DOMAIN writes'[q] :
                  writes'[q][id] \in Int /\ Pool(id) \in locks'[q]
  <2>1. CASE q = r
    BY <1>1, <1>4, <2>1
  <2>2. CASE q # r
    BY <1>4, <2>2 DEF TypeOK, DataOK
  <2> QED
    BY <2>1, <2>2
<1> QED
  BY <1>1, <1>2, <1>3, <1>4, <1>5

LEMMA EndsTyped ==
  ASSUME TypeOK, NEW r \in Requests, Ends(r)
  PROVE  TypeOK'
<1>1. PICK v \in {"retry", "refused"} : Rollback(r, v)
  BY DEF Ends
<1>2. /\ pc' = [pc EXCEPT ![r] = v] /\ left' = [left EXCEPT ![r] = <<>>]
      /\ Forget(r) /\ NoSnapshot(r)
      /\ UNCHANGED <<items, movements, attempt, posting>>
  BY <1>1 DEF Rollback, Forget, database
<1>3. PlaceOK' /\ \A q \in Requests \ {r} : pc'[q] = pc[q]
  BY <1>2, LeavesPlace
<1>4. /\ unseen' \in [Requests -> SUBSET RowIds]
      /\ changed' \in [Requests -> SUBSET RowIds]
      /\ unseenKeys' \in [Requests -> SUBSET (Jobs \X Nat)]
  BY <1>2 DEF NoSnapshot, TypeOK, DataOK
<1>5. DataOK'
  BY <1>2, <1>4, ForgetTyped DEF Ends, TypeOK, DataOK, Pool
<1>6. AtRest'
  BY <1>2, <1>3, ForgetTyped DEF TypeOK, AtRest
<1> QED
  BY <1>3, <1>5, <1>6 DEF TypeOK

LEMMA CommitTyped ==
  ASSUME TypeOK, NEW r \in Requests, Commit(r)
  PROVE  TypeOK'
<1>1. /\ pc' = [pc EXCEPT ![r] = "done"] /\ left' = [left EXCEPT ![r] = <<>>]
      /\ Forget(r) /\ UNCHANGED <<attempt, posting, faults, victims>>
  BY DEF Commit, Forget, mishaps
<1>2. PlaceOK' /\ \A q \in Requests \ {r} : pc'[q] = pc[q]
  BY <1>1, LeavesPlace
<1>3. /\ DOMAIN writes[r] \subseteq RowIds
      /\ \A id \in DOMAIN writes[r] : writes[r][id] \in Int
      /\ DOMAIN items \subseteq RowIds /\ \A id \in DOMAIN items : items[id] \in Int
      /\ keys[r] \subseteq Jobs \X Nat
  BY DEF TypeOK, DataOK
<1>4. /\ items' = [id \in DOMAIN items' |-> items'[id]]
      /\ DOMAIN items' \subseteq RowIds /\ \A id \in DOMAIN items' : items'[id] \in Int
  BY <1>3 DEF Commit
<1>5. movements' \subseteq Jobs \X Nat
  BY <1>3 DEF Commit, TypeOK, DataOK
<1>6. unseen' \in [Requests -> SUBSET RowIds]
  <2>1. \A q \in Requests : unseen[q] \subseteq RowIds
    BY DEF TypeOK, DataOK
  <2> QED
    BY <1>3, <2>1 DEF Commit
<1>7. changed' \in [Requests -> SUBSET RowIds]
  <2>1. \A q \in Requests : changed[q] \subseteq RowIds
    BY DEF TypeOK, DataOK
  <2> QED
    BY <1>3, <2>1 DEF Commit
<1>8. unseenKeys' \in [Requests -> SUBSET (Jobs \X Nat)]
  <2>1. \A q \in Requests : unseenKeys[q] \subseteq Jobs \X Nat
    BY DEF TypeOK, DataOK
  <2> QED
    BY <1>3, <2>1 DEF Commit
<1>9. DataOK'
  BY <1>1, <1>4, <1>5, <1>6, <1>7, <1>8, ForgetTyped DEF TypeOK, DataOK, Pool
<1>10. AtRest'
  BY <1>1, <1>2, ForgetTyped DEF TypeOK, AtRest
<1> QED
  BY <1>2, <1>9, <1>10 DEF TypeOK

LEMMA NextTyped == TypeOK /\ [Next]_vars => TypeOK'
<1> SUFFICES ASSUME TypeOK, [Next]_vars PROVE TypeOK'
  OBVIOUS
<1>1. CASE Next
  <2>1. PICK r \in Requests : NextOf(r)
    BY <1>1 DEF Next, NextOf
  <2> QED
    BY <2>1, StepKinds, GoesOnTyped, WritesTyped, EndsTyped, CommitTyped
<1>2. CASE UNCHANGED vars
  <2>1. PlaceOK'
    BY <1>2 DEF vars, TypeOK, PlaceOK, Lines
  <2>2. DataOK'
    BY <1>2 DEF vars, TypeOK, DataOK, Pool
  <2>3. AtRest'
    BY <1>2 DEF vars, TypeOK, AtRest
  <2> QED
    BY <2>1, <2>2, <2>3 DEF TypeOK
<1> QED
  BY <1>1, <1>2

\* Everything has its type in every reachable state, and what a transaction
\* holds (locks, uncommitted keys and writes) never outlives it.
THEOREM TypeCorrect == Spec => []TypeOK
  BY InitTyped, NextTyped, PTL DEF Spec

-----------------------------------------------------------------------------
(***************************************************************************)
(* One row per pool.  A pool's rows are looked up and created under its    *)
(* lock, so the rows a request has not committed are of pools nobody else  *)
(* writes (LocksExclusive).  What remains is a row that the lookup itself  *)
(* misses: one committed after a serializable snapshot.  It is found only  *)
(* by the conflict check, which knows the rows of serializable creators.   *)
(***************************************************************************)
LEMMA InitRows == Init => RowInv
<1> SUFFICES ASSUME Init PROVE RowInv
  OBVIOUS
<1>1. TypeOK
  BY InitTyped
<1>2. DOMAIN <<>> = {}
  OBVIOUS
<1>3. /\ DOMAIN items = (DOMAIN Opening) \X {Initially}
      /\ \A r \in Requests : locks[r] = {} /\ unseen[r] = {} /\ DOMAIN writes[r] = {}
  BY <1>2 DEF Init
<1>4. LocksExclusive /\ NewRows /\ OpeningStays
  BY <1>3 DEF LocksExclusive, NewRows, OpeningStays
<1>5. OneSeenPerLevel
  BY <1>3 DEF OneSeenPerLevel, Apart, Pool
<1> QED
  BY <1>1, <1>4, <1>5 DEF RowInv

\* A row is created where there is none, committed or one's own, but for those
\* of READ COMMITTED callers that a serializable snapshot misses.
LEMMA CreatesApart ==
  ASSUME RowInv, NEW r \in Requests, NEW p \in Pools, RowsSeen(r, p) = {},
         NEW id, Pool(id) = p, ~ Conflicts(r, id),
         NEW b \in DOMAIN items \cup DOMAIN writes[r], Pool(b) = p
  PROVE  /\ Serializable(r) /\ Creator(b) \in Requests /\ ~ Serializable(Creator(b))
         /\ NewRow(b) /\ p \notin DOMAIN Opening
<1>1. b \notin DOMAIN writes[r]
  BY DEF RowsSeen
<1>2. b \in RowsOf(p)
  BY <1>1 DEF RowsOf
<1>3. Serializable(r) /\ b \in unseen[r]
  BY <1>2 DEF RowsSeen
<1>4. NewRow(b) /\ Creator(b) \in Requests
  BY <1>3 DEF RowInv, NewRows, NewRow, Creator
<1>5. p \notin DOMAIN Opening
  <2> SUFFICES ASSUME p \in DOMAIN Opening PROVE FALSE
    OBVIOUS
  <2>1. <<p, Initially>> \in RowsOf(p)
    BY DEF RowInv, OpeningStays, RowsOf, Pool
  <2>2. <<p, Initially>> \notin unseen[r]
    BY CreatorAssumption DEF RowInv, NewRows, NewRow
  <2> QED
    BY <2>1, <2>2 DEF RowsSeen
<1> QED
  BY <1>3, <1>4, <1>5 DEF Conflicts

LEMMA WritesRows ==
  ASSUME RowInv, NEW r \in Requests, Writes(r)
  PROVE  RowInv'
<1>1. TypeOK /\ TypeOK'
  BY WritesTyped DEF RowInv
<1>2. PICK id \in RowIds, quantity \in Int : WritesRow(r, id, quantity)
  BY DEF Writes
<1> DEFINE p == Pool(id)
<1>3. /\ p \in Pools /\ p \in Touched(r)
      /\ id \in Targets(r, p) /\ Free(r, p) /\ ~ Conflicts(r, id)
      /\ LockAndWrite(r, id, quantity)
  BY <1>2 DEF WritesRow
<1>4. items' = items /\ unseen' = unseen
  BY <1>3 DEF LockAndWrite, database, snapshot
<1>5. /\ locks'[r] = locks[r] \cup {p}
      /\ \A q \in Requests \ {r} : locks'[q] = locks[q]
  BY <1>1, <1>3 DEF LockAndWrite, TypeOK, DataOK
<1>6. /\ DOMAIN writes'[r] = DOMAIN writes[r] \cup {id}
      /\ \A q \in Requests \ {r} : writes'[q] = writes[q]
  <2>1. writes = [q \in Requests |-> writes[q]]
    BY <1>1 DEF TypeOK, DataOK
  <2> DEFINE W == [i \in DOMAIN writes[r] \cup {id} |->
                     IF i = id THEN quantity ELSE writes[r][i]]
  <2>2. writes' = [writes EXCEPT ![r] = W]
    BY <1>3 DEF LockAndWrite
  <2>3. DOMAIN W = DOMAIN writes[r] \cup {id}
    OBVIOUS
  <2> HIDE DEF W
  <2> QED
    BY <2>1, <2>2, <2>3
<1>7. LocksExclusive'
  BY <1>3, <1>5 DEF RowInv, LocksExclusive, Free
<1>8. \A a \in DOMAIN items \cup DOMAIN writes[r] : Apart(a, id) /\ Apart(id, a)
  <2>1. CASE RowsSeen(r, p) = {}
    <3>1. id = <<p, r>>
      BY <1>3, <2>1 DEF Targets
    <3>2. Creator(id) = r /\ r # Initially
      BY <3>1, CreatorAssumption DEF Creator
    <3>3. ASSUME NEW a \in DOMAIN items \cup DOMAIN writes[r], Pool(a) = p
          PROVE  {CreatorLevel(a), CreatorLevel(id)} = Levels
      <4>1. Serializable(r) /\ Creator(a) \in Requests /\ ~ Serializable(Creator(a))
        BY <1>3, <2>1, <3>3, CreatesApart
      <4>2. CreatorLevel(id) = "Serializable"
        BY <3>2, <4>1 DEF CreatorLevel, Serializable
      <4>3. CreatorLevel(a) = "ReadCommitted"
        BY <4>1, CreatorAssumption, JobAssumption DEF CreatorLevel, Serializable, Levels
      <4> QED
        BY <4>2, <4>3 DEF Levels
    <3> QED
      BY <3>3 DEF Apart
  <2>2. CASE RowsSeen(r, p) # {}
    <3>1. id \in DOMAIN items \cup DOMAIN writes[r]
      BY <1>3, <2>2 DEF Targets, RowsSeen, RowsOf
    <3> QED
      BY <3>1 DEF RowInv, OneSeenPerLevel
  <2> QED
    BY <2>1, <2>2
<1>9. OneSeenPerLevel'
  <2>1. ASSUME NEW q \in Requests,
               NEW a \in DOMAIN items \cup DOMAIN writes'[q],
               NEW b \in DOMAIN items \cup DOMAIN writes'[q]
        PROVE  Apart(a, b)
    <3>1. CASE q # r
      BY <1>6, <2>1, <3>1 DEF RowInv, OneSeenPerLevel
    <3>2. CASE q = r
      <4>1. /\ a \in DOMAIN items \cup DOMAIN writes[r] \cup {id}
            /\ b \in DOMAIN items \cup DOMAIN writes[r] \cup {id}
        BY <1>6, <3>2
      <4>2. Apart(id, id)
        BY DEF Apart
      <4> QED
        BY <1>8, <4>1, <4>2 DEF RowInv, OneSeenPerLevel
    <3> QED
      BY <3>1, <3>2
  <2> QED
    BY <1>4, <2>1 DEF OneSeenPerLevel, Apart, CreatorLevel, Pool, Creator
<1>10. id \in DOMAIN items \/ NewRow(id)
  <2>1. id \in DOMAIN items \cup DOMAIN writes[r] \cup {<<p, r>>}
    BY <1>3 DEF Targets, RowsSeen, RowsOf
  <2>2. CASE id \in DOMAIN writes[r] \ DOMAIN items
    BY <2>2 DEF RowInv, NewRows
  <2>3. CASE id = <<p, r>>
    <3>1. Creator(id) = r
      BY <2>3 DEF Creator
    <3> QED
      BY <1>3, <2>3, <3>1 DEF NewRow
  <2>4. CASE id \in DOMAIN items
    BY <2>4
  <2> QED
    BY <2>1, <2>2, <2>3, <2>4
<1>11. NewRows'
  <2>1. \A x : NewRow(x)' <=> NewRow(x)
    BY DEF NewRow, Pool, Creator, Touched
  <2>2. \A q \in Requests : \A x \in unseen[q] \cup (DOMAIN writes'[q] \ DOMAIN items) : NewRow(x)
    BY <1>6, <1>10 DEF RowInv, NewRows
  <2> QED
    BY <1>4, <2>1, <2>2 DEF RowInv, NewRows
<1>12. OpeningStays'
  BY <1>4 DEF RowInv, OpeningStays
<1> QED
  BY <1>1, <1>7, <1>9, <1>11, <1>12 DEF RowInv

LEMMA CommitRows ==
  ASSUME RowInv, NEW r \in Requests, Commit(r)
  PROVE  RowInv'
<1>1. TypeOK /\ TypeOK'
  BY CommitTyped DEF RowInv
<1>2. DOMAIN items' = DOMAIN items \cup DOMAIN writes[r]
  BY DEF Commit
<1>3. /\ locks'[r] = {} /\ DOMAIN writes'[r] = {}
      /\ \A q \in Requests \ {r} : locks'[q] = locks[q] /\ writes'[q] = writes[q]
  BY <1>1, ForgetTyped DEF Commit
<1>4. LocksExclusive'
  BY <1>3 DEF RowInv, LocksExclusive
<1>5. OneSeenPerLevel'
  <2>1. \A a, b \in DOMAIN items \cup DOMAIN writes[r] : Apart(a, b)
    BY DEF RowInv, OneSeenPerLevel
  <2>2. ASSUME NEW q \in Requests \ {r}, NEW a \in DOMAIN writes[q],
               NEW b \in DOMAIN writes[r]
        PROVE  Apart(a, b) /\ Apart(b, a)
    <3>1. Pool(a) \in locks[q] /\ Pool(b) \in locks[r]
      BY <1>1 DEF TypeOK, DataOK
    <3>2. Pool(a) # Pool(b)
      BY <3>1 DEF RowInv, LocksExclusive
    <3> QED
      BY <3>2 DEF Apart
  <2>3. ASSUME NEW q \in Requests,
               NEW a \in DOMAIN items' \cup DOMAIN writes'[q],
               NEW b \in DOMAIN items' \cup DOMAIN writes'[q]
        PROVE  Apart(a, b)
    <3>1. CASE q = r
      BY <1>2, <1>3, <2>1, <2>3, <3>1
    <3>2. CASE q # r
      <4>1. \A c, d \in DOMAIN items \cup DOMAIN writes[q] : Apart(c, d)
        BY DEF RowInv, OneSeenPerLevel
      <4> QED
        BY <1>2, <1>3, <2>1, <2>2, <2>3, <3>2, <4>1
    <3> QED
      BY <3>1, <3>2
  <2> QED
    BY <2>3 DEF OneSeenPerLevel, Apart, CreatorLevel, Pool, Creator
<1>6. NewRows'
  <2>1. ASSUME NEW q \in Requests
        PROVE  unseen'[q] \subseteq unseen[q] \cup (DOMAIN writes[r] \ DOMAIN items)
    BY DEF Commit
  <2> QED
    BY <1>2, <1>3, <2>1 DEF RowInv, NewRows, NewRow, Pool, Creator, Touched
<1>7. OpeningStays'
  BY <1>2 DEF RowInv, OpeningStays
<1> QED
  BY <1>1, <1>4, <1>5, <1>6, <1>7 DEF RowInv

LEMMA EndsRows ==
  ASSUME RowInv, NEW r \in Requests, Ends(r)
  PROVE  RowInv'
<1>1. TypeOK /\ TypeOK'
  BY EndsTyped DEF RowInv
<1>2. Forget(r) /\ NoSnapshot(r) /\ items' = items
  BY DEF Ends, Rollback, database
<1>3. /\ locks'[r] = {} /\ DOMAIN writes'[r] = {}
      /\ \A q \in Requests \ {r} : locks'[q] = locks[q] /\ writes'[q] = writes[q]
  BY <1>1, <1>2, ForgetTyped
<1>4. \A q \in Requests : unseen'[q] \subseteq unseen[q]
  BY <1>1, <1>2 DEF NoSnapshot, TypeOK, DataOK
<1>5. LocksExclusive' /\ OpeningStays'
  BY <1>2, <1>3 DEF RowInv, LocksExclusive, OpeningStays
<1>6. OneSeenPerLevel'
  BY <1>2, <1>3 DEF RowInv, OneSeenPerLevel, Apart, CreatorLevel, Pool, Creator
<1>7. NewRows'
  BY <1>2, <1>3, <1>4 DEF RowInv, NewRows, NewRow, Pool, Creator, Touched
<1> QED
  BY <1>1, <1>5, <1>6, <1>7 DEF RowInv

LEMMA NextRows == RowInv /\ [Next]_vars => RowInv'
<1> SUFFICES ASSUME RowInv, [Next]_vars PROVE RowInv'
  OBVIOUS
<1>1. TypeOK /\ TypeOK'
  BY NextTyped DEF RowInv
<1>2. ASSUME UNCHANGED <<items, locks, writes, unseen>>
      PROVE  RowInv'
  <2>1. LocksExclusive' /\ OneSeenPerLevel' /\ NewRows' /\ OpeningStays'
    BY <1>2 DEF RowInv, LocksExclusive, OneSeenPerLevel, NewRows, NewRow, OpeningStays,
                Apart, CreatorLevel, Pool, Creator, Touched
  <2> QED
    BY <1>1, <2>1 DEF RowInv
<1>3. CASE UNCHANGED vars
  BY <1>2, <1>3 DEF vars
<1>4. CASE Next
  <2>1. PICK r \in Requests : NextOf(r)
    BY <1>4 DEF Next, NextOf
  <2>2. CASE GoesOn(r)
    BY <1>2, <2>2 DEF GoesOn, database, snapshot
  <2> QED
    BY <1>1, <2>1, <2>2, StepKinds, WritesRows, EndsRows, CommitRows
<1> QED
  BY <1>3, <1>4

\* A pool has one whole-warehouse row, and a second one only where a serializable
\* caller's snapshot misses the first of a READ COMMITTED one, for any pools,
\* callers, isolation levels and interleaving.
THEOREM OneRow == Spec => []OneRowPerLevel
<1>1. ASSUME RowInv PROVE OneRowPerLevel
  <2>1. CASE Requests # {}
    BY <1>1, <2>1 DEF RowInv, OneSeenPerLevel, OneRowPerLevel
  <2>2. CASE Requests = {}
    <3>1. DOMAIN items \subseteq Pools \X {Initially}
      BY <1>1, <2>2 DEF RowInv, TypeOK, DataOK, RowIds
    <3> QED
      BY <3>1 DEF OneRowPerLevel, Apart, Pool
  <2> QED
    BY <2>1, <2>2
<1>2. RowInv /\ [Next]_vars => RowInv'
  BY NextRows
<1> QED
  BY <1>1, <1>2, InitRows, PTL DEF Spec

\* So there is one row where the callers that may create it agree.
LEMMA AgreeingRows ==
  ASSUME FirstRowsAgree, RowInv
  PROVE  SoleRows
<1> SUFFICES ASSUME NEW r \in Requests, NEW a \in DOMAIN items \cup DOMAIN writes[r],
                    NEW b \in DOMAIN items \cup DOMAIN writes[r], Pool(a) = Pool(b), a # b
             PROVE  FALSE
  BY DEF SoleRows, OneRowSeen
<1>1. {CreatorLevel(a), CreatorLevel(b)} = Levels
  BY DEF RowInv, OneSeenPerLevel, Apart
<1>2. CreatorLevel(a) # "any" /\ CreatorLevel(b) # "any" /\ CreatorLevel(a) # CreatorLevel(b)
  BY <1>1 DEF Levels
<1>3. \A c \in {a, b} : Creator(c) # Initially
  BY <1>2 DEF CreatorLevel
<1>4. \A c \in {a, b} : NewRow(c)
  BY <1>3 DEF RowInv, NewRows, Creator
<1>5. /\ Creator(a) \in Requests /\ Creator(b) \in Requests /\ Pool(a) \in Pools
      /\ Pool(a) \in Touched(Creator(a)) \cap Touched(Creator(b))
  BY <1>4 DEF NewRow, Creator, Pool
<1>6. Pool(a) \in DOMAIN Opening
  <2>1. Serializable(Creator(a)) <=> ~ Serializable(Creator(b))
    <3>1. \A q \in Requests : Level[JobOf[q]] \in {"ReadCommitted", "Serializable"}
      BY JobAssumption DEF Levels
    <3>2. Level[JobOf[Creator(a)]] # Level[JobOf[Creator(b)]]
      BY <1>2, <1>3 DEF CreatorLevel
    <3> QED
      BY <1>5, <3>1, <3>2 DEF Serializable
  <2> QED
    BY <1>5, <2>1 DEF FirstRowsAgree
<1> DEFINE c == <<Pool(a), Initially>>
<1>7. c \in DOMAIN items /\ Creator(c) = Initially /\ Pool(c) = Pool(a)
  <2>1. \A p \in DOMAIN Opening : <<p, Initially>> \in DOMAIN items
    BY DEF RowInv, OpeningStays
  <2> QED
    BY <1>6, <2>1 DEF Creator, Pool
<1> HIDE DEF c
<1>8. {CreatorLevel(a), CreatorLevel(c)} = Levels
  BY <1>3, <1>7 DEF RowInv, OneSeenPerLevel, Apart
<1>9. CreatorLevel(c) = "any"
  BY <1>7 DEF CreatorLevel
<1> QED
  BY <1>8, <1>9 DEF Levels

LEMMA CreatesFirst ==
  ASSUME FirstRowsAgree, RowInv, NEW r \in Requests, NEW p \in Pools,
         p \in Touched(r), RowsSeen(r, p) = {}, NEW id, Pool(id) = p, ~ Conflicts(r, id),
         NEW b \in DOMAIN items \cup DOMAIN writes[r]
  PROVE  Pool(b) # p
<1> SUFFICES ASSUME Pool(b) = p PROVE FALSE
  OBVIOUS
<1>1. /\ Serializable(r) /\ Creator(b) \in Requests /\ ~ Serializable(Creator(b))
      /\ NewRow(b) /\ p \notin DOMAIN Opening
  BY CreatesApart
<1> QED
  BY <1>1 DEF FirstRowsAgree, NewRow

-----------------------------------------------------------------------------
(***************************************************************************)
(* Only long ones cycle.  A first posting that waits for a pool holds only *)
(* lower ones, so along a wait cycle without a count and without a second  *)
(* posting the pools waited for would rise for ever.                       *)
(***************************************************************************)
LEMMA HasMaximum ==
  ASSUME NEW H, IsFiniteSet(H), H \subseteq Int, H # {}
  PROVE  \E m \in H : \A x \in H : x <= m
<1> DEFINE Above(p) == {x \in H : p < x}
           Sizes == {Cardinality(Above(p)) : p \in H}
<1>1. \A p \in H : IsFiniteSet(Above(p)) /\ Cardinality(Above(p)) \in Nat
  BY FS_Subset, FS_CardinalityType
<1>2. Sizes \subseteq Nat /\ Sizes # {}
  BY <1>1
<1>3. PICK n \in Sizes : \A k \in Sizes : ~ (<<k, n>> \in OpToRel(<, Nat))
  BY <1>2, WFMin, NatLessThanWellFounded, Zenon
<1>4. PICK m \in H : n = Cardinality(Above(m))
  BY <1>3
<1>5. ASSUME NEW x \in H, m < x PROVE FALSE
  <2>1. Above(x) \subseteq Above(m) /\ x \in Above(m) /\ x \notin Above(x)
    <3>1. x \in Int /\ m \in Int /\ H \subseteq Int
      OBVIOUS
    <3>2. \A y \in H : x < y => m < y
      BY <1>5, <3>1
    <3>3. ~ (x < x)
      BY <3>1
    <3> QED
      BY <1>5, <3>2, <3>3, Zenon
  <2>2. Cardinality(Above(x)) <= Cardinality(Above(m))
        /\ Cardinality(Above(x)) # Cardinality(Above(m))
    BY <1>1, <2>1, FS_Subset
  <2>3. Cardinality(Above(x)) \in Nat /\ Cardinality(Above(m)) \in Nat
    BY <1>1
  <2>4. Cardinality(Above(x)) < n
    BY <1>4, <2>2, <2>3
  <2>5. <<Cardinality(Above(x)), n>> \in OpToRel(<, Nat)
    BY <1>4, <2>3, <2>4, Zenon DEF OpToRel
  <2> QED
    BY <1>3, <2>5, Zenon
<1> QED
  BY <1>5

\* A step of one request leaves the place of the others alone.
LEMMA OthersStay ==
  ASSUME TypeOK, NEW r \in Requests, NextOf(r), NEW q \in Requests \ {r}
  PROVE  /\ pc'[q] = pc[q] /\ posting'[q] = posting[q] /\ left'[q] = left[q]
         /\ locks'[q] = locks[q] /\ keys'[q] = keys[q]
<1>1. ASSUME Moves(r)
      PROVE  pc'[q] = pc[q] /\ posting'[q] = posting[q] /\ left'[q] = left[q]
  BY <1>1 DEF Moves, MovesTo, TypeOK, PlaceOK
<1>2. CASE GoesOn(r)
  BY <1>1, <1>2 DEF GoesOn, TypeOK, DataOK
<1>3. CASE Writes(r)
  <2>1. PICK id \in RowIds, quantity \in Int : WritesRow(r, id, quantity)
    BY <1>3 DEF Writes
  <2>2. locks'[q] = locks[q] /\ keys'[q] = keys[q]
    BY <2>1 DEF WritesRow, LockAndWrite, TypeOK, DataOK
  <2> QED
    BY <1>1, <1>3, <2>2 DEF Writes
<1>4. CASE Ends(r)
  <2>1. PICK v \in {"retry", "refused"} : Rollback(r, v)
    BY <1>4 DEF Ends
  <2> QED
    BY <2>1, ForgetTyped DEF Rollback, Forget, TypeOK, PlaceOK
<1>5. CASE Commit(r)
  BY <1>5, ForgetTyped DEF Commit, Forget, TypeOK, PlaceOK
<1> QED
  BY <1>2, <1>3, <1>4, <1>5, StepKinds

\* Only a count waits for a baseline.
LEMMA NoBaseline ==
  ASSUME TypeOK, NEW r \in Requests, ~ Long(r)
  PROVE  pc[r] \notin {"baseline", "after"}
<1> SUFFICES ASSUME pc[r] \in {"baseline", "after"} PROVE FALSE
  OBVIOUS
<1>1. DOMAIN Expected[JobOf[r]] = {}
  BY JobAssumption, CountAssumption DEF Long
<1>2. left[r] \in Seq({}) /\ left[r] # <<>>
  BY <1>1 DEF TypeOK, PlaceOK
<1> QED
  BY <1>2, HeadTailProperties

\* After a posting comes a further one, or the transaction has none to order.
LEMMA LastProceed ==
  ASSUME TypeOK, NEW r \in Requests, NEW k \in Nat, k >= 1, Proceed(r, k), ~ Long(r)'
  PROVE  pc'[r] \in {"commit", "after"}
<1>1. CASE k < Len(Postings[JobOf[r]])
  <2>1. posting'[r] = k + 1 /\ posting'[r] > 1
    BY <1>1 DEF Proceed, TypeOK, PlaceOK
  <2> QED
    BY <2>1 DEF Long
<1>2. CASE ~ (k < Len(Postings[JobOf[r]]))
  BY <1>2 DEF Proceed, TypeOK, PlaceOK
<1> QED
  BY <1>1, <1>2

LEMMA NextInOrder == OrderInv /\ [Next]_vars => OrderInv'
<1> SUFFICES ASSUME OrderInv, [Next]_vars PROVE OrderInv'
  OBVIOUS
<1>1. TypeOK /\ TypeOK'
  BY NextTyped DEF OrderInv
<1>2. CASE UNCHANGED vars
  BY <1>1, <1>2 DEF vars, OrderInv, InOrder, Long
<1>3. ASSUME NEW r \in Requests, NextOf(r), ~ Long(r)' PROVE InOrder(r)'
  <2>0. posting[r] \in Nat /\ posting[r] >= 1 /\ JobOf[r] \notin Counts
    BY <1>1, <1>3 DEF TypeOK, PlaceOK, Long
  <2>00. ASSUME posting' = posting PROVE ~ Long(r) /\ InOrder(r)
    BY <1>3, <2>00 DEF OrderInv, Long
  <2>1. CASE Begin(r)
    <3>1. locks[r] = {} /\ keys[r] = {} /\ locks' = locks /\ keys' = keys
      BY <1>1, <2>1 DEF Begin, TypeOK, AtRest, Active
    <3>2. pc'[r] # "lines"
      BY <1>1, <2>1 DEF Begin, Proceed, TypeOK, PlaceOK
    <3> QED
      BY <3>1, <3>2 DEF InOrder
  <2>2. CASE SetBaseline(r)
    <3>1. DOMAIN Expected[JobOf[r]] = {} /\ left[r] \in Seq(DOMAIN Expected[JobOf[r]])
          /\ left[r] # <<>>
      BY <1>1, <2>0, <2>2, CountAssumption, JobAssumption DEF SetBaseline, TypeOK, PlaceOK
    <3>2. left[r] \in Seq({})
      BY <3>1
    <3> QED
      BY <3>1, <3>2, HeadTailProperties
  <2>3. CASE AlreadyPosted(r)
    <3>2. Proceed(r, posting[r])
      BY <2>0, <2>3 DEF AlreadyPosted
    <3>3. pc'[r] \in {"commit", "after"}
      BY <1>1, <1>3, <2>0, <3>2, LastProceed
    <3> QED
      BY <3>3 DEF InOrder
  <2>4. CASE NotYetPosted(r)
    <3>1. /\ pc[r] = "check" /\ pc'[r] = "register" /\ locks' = locks /\ keys' = keys
          /\ posting' = posting
      BY <1>1, <2>4 DEF NotYetPosted, TypeOK, PlaceOK
    <3> QED
      BY <2>00, <3>1 DEF InOrder
  <2>5. CASE CreateMovement(r)
    <3>1. PICK s \in PostingOrders(r) : left' = [left EXCEPT ![r] = s]
      BY <2>5 DEF CreateMovement
    <3>2. pc[r] = "register" /\ pc'[r] = "lines" /\ locks' = locks /\ posting' = posting
      BY <1>1, <2>5 DEF CreateMovement, TypeOK, PlaceOK
    <3>3. left'[r] = s
      BY <1>1, <3>1 DEF TypeOK, PlaceOK
    <3>4. \A m, n \in 1..Len(s) : m < n => s[m] < s[n]
      <4>1. DOMAIN Lines(r) \subseteq Pools
        BY <1>1, <3>2, PostingsTyped, JobAssumption DEF TypeOK, PlaceOK, Lines
      <4>2. s \in Seq(DOMAIN Lines(r))
        BY <3>1, <4>1, OrdersTyped DEF PostingOrders
      <4>3. IsFiniteSet(DOMAIN Lines(r))
        BY <4>1, FS_Subset, JobAssumption
      <4>4. Len(s) = Cardinality(DOMAIN Lines(r))
        BY <3>1, <4>2, <4>3, FS_CardinalityType, LenProperties DEF PostingOrders, Orders
      <4> QED
        BY <3>1, <4>4 DEF PostingOrders
    <3> QED
      BY <2>00, <3>2, <3>3, <3>4 DEF InOrder
  <2>6. CASE PostLine(r)
    <3>1. CASE Len(left[r]) > 1
      <4> DEFINE s == left[r]
      <4>1. pc[r] = "lines" /\ left' = [left EXCEPT ![r] = Tail(s)] /\ posting' = posting
        BY <2>6, <3>1 DEF PostLine
      <4>2. s \in Seq(Pools) /\ s # <<>> /\ left'[r] = Tail(s)
        BY <1>1, <4>1 DEF TypeOK, PlaceOK
      <4>3. PICK id \in Targets(r, Head(s)) :
              LockAndWrite(r, id, OnHandSeen(r, id) + Lines(r)[Head(s)])
        BY <2>6 DEF PostLine
      <4>4. Pool(id) = Head(s)
        BY <1>1, <4>1, <4>3, HeadTyped, TargetTyped
      <4>5. locks'[r] = locks[r] \cup {Head(s)}
        BY <1>1, <4>3, <4>4 DEF LockAndWrite, TypeOK, DataOK
      <4>6. /\ Len(Tail(s)) = Len(s) - 1 /\ Len(s) \in Nat
            /\ \A n \in 1..Len(Tail(s)) : Tail(s)[n] = s[n + 1]
        BY <4>2, HeadTailProperties, LenProperties
      <4>7. Head(s) = s[1]
        BY <4>2
      <4>8. \A n \in 1..Len(s) :
              /\ \A p \in locks[r] : p < s[n]
              /\ \A m \in 1..Len(s) : m < n => s[m] < s[n]
        BY <2>00, <4>1 DEF InOrder
      <4> HIDE DEF s
      <4>9. ASSUME NEW n \in 1..Len(Tail(s))
            PROVE  /\ \A p \in locks'[r] : p < Tail(s)[n]
                   /\ \A m \in 1..Len(Tail(s)) : m < n => Tail(s)[m] < Tail(s)[n]
        <5>1. n + 1 \in 1..Len(s) /\ 1 \in 1..Len(s) /\ 1 < n + 1
          BY <4>6, <4>9
        <5>2. \A p \in locks'[r] : p < s[n + 1]
          BY <4>5, <4>7, <4>8, <5>1
        <5>3. ASSUME NEW m \in 1..Len(Tail(s)), m < n PROVE s[m + 1] < s[n + 1]
          <6>1. m + 1 \in 1..Len(s) /\ m + 1 < n + 1
            BY <4>6, <4>9, <5>3
          <6> QED
            BY <4>8, <5>1, <6>1
        <5> QED
          BY <4>6, <5>2, <5>3
      <4>10. pc'[r] = "lines"
        BY <2>6, <3>1, <4>1 DEF PostLine
      <4> QED
        BY <4>2, <4>9, <4>10 DEF InOrder
    <3>2. CASE ~ (Len(left[r]) > 1)
      <4>1. Proceed(r, posting[r])
        BY <2>6, <3>2 DEF PostLine
      <4>2. pc'[r] \in {"commit", "after"}
        BY <1>1, <1>3, <2>0, <4>1, LastProceed
      <4> QED
        BY <4>2 DEF InOrder
    <3> QED
      BY <3>1, <3>2
  <2>7. ASSUME Refuse(r) \/ RetryOrRefuse(r) PROVE InOrder(r)'
    <3>1. pc'[r] \in {"retry", "refused"}
      BY <1>1, <2>7 DEF Refuse, RetryOrRefuse, Rollback, TypeOK, PlaceOK
    <3> QED
      BY <3>1 DEF InOrder
  <2>8. CASE CreateMovementFails(r) \/ WriteConflicts(r) \/ DeadlockVictim(r)
             \/ TransactionFails(r) \/ FalseConflict(r)
    <3>1. Refuse(r) \/ RetryOrRefuse(r)
      BY <2>8 DEF CreateMovementFails, WriteConflicts, DeadlockVictim, TransactionFails,
                  FalseConflict
    <3> QED
      BY <2>7, <3>1
  <2>9. CASE Commit(r)
    <3>1. pc'[r] = "done"
      BY <1>1, <2>9 DEF Commit, TypeOK, PlaceOK
    <3> QED
      BY <3>1 DEF InOrder
  <2> QED
    BY <1>3, <2>1, <2>2, <2>3, <2>4, <2>5, <2>6, <2>8, <2>9 DEF NextOf, Step
<1>4. CASE Next
  <2>1. PICK r \in Requests : NextOf(r)
    BY <1>4 DEF Next, NextOf
  <2>2. ASSUME NEW q \in Requests \ {r}, ~ Long(q)' PROVE InOrder(q)'
    <3>1. posting'[q] = posting[q]
      BY <1>1, <2>1, OthersStay
    <3>2. InOrder(q)
      BY <2>2, <3>1 DEF OrderInv, Long
    <3> QED
      BY <1>1, <2>1, <3>2, OthersStay DEF InOrder
  <2> QED
    BY <1>1, <1>3, <2>1, <2>2 DEF OrderInv
<1> QED
  BY <1>2, <1>4

LEMMA NoCycleInOrder ==
  ASSUME OrderInv
  PROVE  OnlyLongOnesCycle
<1> SUFFICES ASSUME NEW S \in SUBSET Requests, Deadlocked(S), \A r \in S : ~ Long(r)
             PROVE  FALSE
  BY DEF OnlyLongOnesCycle
<1>1. TypeOK /\ \A r \in S : ~ Long(r) /\ InOrder(r)
  BY DEF OrderInv
<1> DEFINE T == {r \in S : pc[r] = "lines"}
           H == {Head(left[r]) : r \in T}
<1>2. \A r \in S : \E q \in S : WaitsFor(r, q)
  BY DEF Deadlocked
<1>3. ASSUME NEW r \in S, NEW q \in S, WaitsFor(r, q) PROVE q \in T
  <2>1. locks[q] # {} \/ keys[q] # {}
    BY <1>3 DEF WaitsFor, WaitsForLock, WaitsForKey
  <2>2. pc[q] # "register"
    BY <1>1, <2>1 DEF InOrder
  <2>3. pc[q] \notin {"baseline", "after"}
    BY <1>1, NoBaseline
  <2>4. \E x \in S : WaitsFor(q, x)
    BY <1>2
  <2> QED
    BY <2>2, <2>3, <2>4 DEF WaitsFor, WaitsForLock, WaitsForKey
<1>4. T # {}
  BY <1>2, <1>3 DEF Deadlocked
<1>5. H # {} /\ H \subseteq Pools
  BY <1>1, <1>4, HeadTyped
<1>6. IsFiniteSet(H) /\ H \subseteq Int
  BY <1>5, FS_Subset, JobAssumption
<1>7. PICK m \in H : \A x \in H : x <= m
  BY <1>5, <1>6, HasMaximum
<1>8. PICK r \in T : m = Head(left[r])
  BY <1>7
<1>9. PICK q \in S : WaitsFor(r, q)
  BY <1>2, <1>8
<1>10. q \in T /\ m \in locks[q]
  BY <1>3, <1>8, <1>9 DEF WaitsFor, WaitsForLock, WaitsForKey
<1>11. m < Head(left[q])
  <2>1. left[q] \in Seq(Pools) /\ left[q] # <<>>
    BY <1>1, <1>10 DEF TypeOK, PlaceOK
  <2>2. 1 \in 1..Len(left[q]) /\ Head(left[q]) = left[q][1]
    BY <2>1
  <2> QED
    BY <1>1, <1>10, <2>2 DEF InOrder
<1>12. Head(left[q]) <= m
  BY <1>7, <1>10
<1>13. m \in Int /\ Head(left[q]) \in Int
  BY <1>6, <1>7, <1>10
<1> QED
  BY <1>11, <1>12, <1>13

\* For any pools, jobs, counts and numbers of postings: in every circle of
\* waiting transactions there is a count or a transaction in its second posting;
\* among all others the writer's sorted lines suffice.
THEOREM NoCircle == Spec => []OnlyLongOnesCycle
<1>1. Init => OrderInv
  <2>1. Init => \A r \in Requests : InOrder(r)
    BY DEF Init, InOrder
  <2> QED
    BY <2>1, InitTyped DEF OrderInv
<1>2. OrderInv /\ [Next]_vars => OrderInv'
  BY NextInOrder
<1>3. OrderInv => OnlyLongOnesCycle
  BY NoCycleInOrder
<1> QED
  BY <1>1, <1>2, <1>3, PTL DEF Spec

-----------------------------------------------------------------------------
(***************************************************************************)
(* The idempotency keys.                                                   *)
(***************************************************************************)

\* A step of one request leaves another's transaction alone, but for what a
\* commit means for its snapshot.
LEMMA OthersKeep ==
  ASSUME TypeOK, NEW r \in Requests, NextOf(r), NEW q \in Requests \ {r}
  PROVE  /\ pc'[q] = pc[q] /\ posting'[q] = posting[q] /\ left'[q] = left[q]
         /\ locks'[q] = locks[q] /\ keys'[q] = keys[q] /\ writes'[q] = writes[q]
<1> SUFFICES writes'[q] = writes[q]
  BY OthersStay
<1>1. CASE GoesOn(r)
  BY <1>1 DEF GoesOn
<1>2. CASE Writes(r)
  <2>1. PICK id \in RowIds, quantity \in Int : WritesRow(r, id, quantity)
    BY <1>2 DEF Writes
  <2> QED
    BY <2>1 DEF WritesRow, LockAndWrite, TypeOK, DataOK
<1>3. CASE Ends(r)
  <2>1. PICK v \in {"retry", "refused"} : Rollback(r, v)
    BY <1>3 DEF Ends
  <2> QED
    BY <2>1, ForgetTyped DEF Rollback, Forget
<1>4. CASE Commit(r)
  BY <1>4, ForgetTyped DEF Commit, Forget
<1> QED
  BY <1>1, <1>2, <1>3, <1>4, StepKinds

\* Only a commit changes the database and other requests' snapshots.
LEMMA DatabaseStays ==
  ASSUME TypeOK, NEW r \in Requests, NextOf(r), ~ Commit(r)
  PROVE  /\ items' = items /\ movements' = movements
         /\ pc'[r] # "done" /\ pc[r] # "done"
         /\ \A q \in Requests \ {r} :
              unseen'[q] = unseen[q] /\ changed'[q] = changed[q] /\ unseenKeys'[q] = unseenKeys[q]
<1>1. ASSUME Moves(r) PROVE pc'[r] # "done"
  BY <1>1 DEF Moves, MovesTo, Active, TypeOK, PlaceOK
<1>2. ASSUME UNCHANGED <<database, snapshot>>
      PROVE  /\ items' = items /\ movements' = movements
             /\ \A q \in Requests \ {r} : /\ unseen'[q] = unseen[q] /\ changed'[q] = changed[q]
                                          /\ unseenKeys'[q] = unseenKeys[q]
  BY <1>2 DEF database, snapshot
<1>3. pc[r] # "done"
  <2> SUFFICES ASSUME pc[r] = "done" PROVE FALSE
    OBVIOUS
  <2>1. \A S \in SUBSET Requests : r \in S => ~ Deadlocked(S)
    BY DEF Deadlocked, WaitsFor, WaitsForLock, WaitsForKey
  <2> QED
    BY <2>1 DEF NextOf, Begin, Step, SetBaseline, AlreadyPosted, NotYetPosted, CreateMovement,
                CreateMovementFails, PostLine, WriteConflicts, Commit, DeadlockVictim,
                TransactionFails, FalseConflict, Active
<1>4. CASE GoesOn(r)
  <2>1. UNCHANGED <<database, snapshot>>
    BY <1>4 DEF GoesOn
  <2> QED
    BY <1>1, <1>2, <1>3, <1>4, <2>1 DEF GoesOn
<1>5. CASE Writes(r)
  <2>1. UNCHANGED <<database, snapshot>>
    BY <1>5 DEF Writes, WritesRow, LockAndWrite
  <2> QED
    BY <1>1, <1>2, <1>3, <1>5, <2>1 DEF Writes
<1>6. CASE Ends(r)
  <2>1. PICK v \in {"retry", "refused"} : Rollback(r, v)
    BY <1>6 DEF Ends
  <2>2. items' = items /\ movements' = movements /\ pc'[r] # "done"
    BY <2>1 DEF Rollback, TypeOK, PlaceOK, database
  <2>3. \A q \in Requests \ {r} : /\ unseen'[q] = unseen[q] /\ changed'[q] = changed[q]
                                  /\ unseenKeys'[q] = unseenKeys[q]
    BY <2>1 DEF Rollback, NoSnapshot, TypeOK, DataOK
  <2> QED
    BY <1>3, <2>2, <2>3
<1> QED
  BY <1>4, <1>5, <1>6, StepKinds

\* Where Proceed leads.
LEMMA ProceedTo ==
  ASSUME TypeOK, NEW r \in Requests, NEW k \in Nat, Proceed(r, k)
  PROVE  \/ /\ k < Len(Postings[JobOf[r]]) /\ pc'[r] = "check"
            /\ posting'[r] = k + 1 /\ left'[r] = <<>>
         \/ /\ ~ (k < Len(Postings[JobOf[r]])) /\ posting'[r] = posting[r]
            /\ left'[r] \in Orders(UntrackedIn(r, Matching(JobOf[r])))
            /\ pc'[r] = (IF left'[r] = <<>> THEN "commit" ELSE "after")
  BY DEF Proceed, TypeOK, PlaceOK

\* Only a count waits for a baseline.
LEMMA CountWaits ==
  ASSUME TypeOK, NEW r \in Requests, pc[r] \in {"baseline", "after"}
  PROVE  JobOf[r] \in Counts
<1> SUFFICES ASSUME JobOf[r] \notin Counts PROVE FALSE
  OBVIOUS
<1>1. DOMAIN Expected[JobOf[r]] = {}
  BY JobAssumption, CountAssumption
<1>2. left[r] \in Seq({}) /\ left[r] # <<>>
  BY <1>1 DEF TypeOK, PlaceOK
<1> QED
  BY <1>2, HeadTailProperties

LEMMA OtherJobs ==
  ASSUME NEW r \in Requests, JobOf[r] \notin Counts
  PROVE  /\ DOMAIN Expected[JobOf[r]] = {} /\ Matching(JobOf[r]) = {}
         /\ Differing(JobOf[r]) = {} /\ Len(Postings[JobOf[r]]) \in Nat \ {0}
<1>1. JobOf[r] \in Jobs
  BY JobAssumption
<1>2. DOMAIN Expected[JobOf[r]] = {} /\ Len(Postings[JobOf[r]]) > 0
  BY <1>1, CountAssumption
<1> QED
  BY <1>1, <1>2, JobAssumption DEF Matching, Differing

\* A job that is not a count goes from its last posting to the commit.
LEMMA ProceedsToCommit ==
  ASSUME TypeOK, NEW r \in Requests, JobOf[r] \notin Counts, NEW k \in Nat, Proceed(r, k)
  PROVE  \/ /\ k < Len(Postings[JobOf[r]]) /\ pc'[r] = "check" /\ posting'[r] = k + 1
         \/ ~ (k < Len(Postings[JobOf[r]])) /\ pc'[r] = "commit"
<1>1. UntrackedIn(r, Matching(JobOf[r])) = {}
  BY OtherJobs DEF UntrackedIn
<1>2. ASSUME NEW s \in Orders({}) PROVE s = <<>>
  <2>1. Cardinality({}) = 0
    BY FS_EmptySet
  <2>2. s \in [1..0 -> {}]
    BY <1>2, <2>1 DEF Orders
  <2> QED
    BY <2>2
<1> QED
  BY <1>1, <1>2, ProceedTo

KeysTo(r, n) == {<<JobOf[r], k>> : k \in 1..n}

LEMMA KeysToPuts ==
  ASSUME NEW r, NEW n \in Nat \ {0}
  PROVE  KeysTo(r, n) = KeysTo(r, n - 1) \cup {<<JobOf[r], n>>}
<1>1. \A k : k \in 1..n <=> k \in 1..(n - 1) \/ k = n
  OBVIOUS
<1> QED
  BY <1>1 DEF KeysTo

LEMMA KeysToAll ==
  ASSUME NEW r
  PROVE  KeysTo(r, Len(Postings[JobOf[r]])) = JobKeys(JobOf[r]) /\ KeysTo(r, 0) = {}
  BY DEF KeysTo, JobKeys

\* A job with one committed key is done, and has all of them committed.
LEMMA CommittedKeys ==
  ASSUME KeysInv, NEW r \in Requests, NEW k \in Nat, <<JobOf[r], k>> \in movements
  PROVE  JobKeys(JobOf[r]) \subseteq movements
<1>1. PICK j \in Booked : <<JobOf[r], k>> \in JobKeys(j)
  BY DEF KeysInv
<1>2. j = JobOf[r]
  BY <1>1 DEF JobKeys
<1> QED
  BY <1>1, <1>2 DEF KeysInv

\* A request that does not replay and finds its key has posted nothing yet.
LEMMA FindsJobDone ==
  ASSUME TypeOK, KeysInv, NEW r \in Requests, pc[r] = "check", KeySeen(r),
         JobOf[r] \notin Counts
  PROVE  Replays(r)
<1>1. posting[r] \in Nat \ {0} /\ posting[r] <= Len(Postings[JobOf[r]])
      /\ Len(Postings[JobOf[r]]) \in Nat
  BY JobAssumption DEF TypeOK, PlaceOK
<1>2. KeysOK(r) /\ pc[r] \in Active
  BY DEF KeysInv, Active
<1> SUFFICES ASSUME ~ Replays(r) PROVE FALSE
  OBVIOUS
<1>3. keys[r] = KeysTo(r, posting[r] - 1)
  BY <1>2 DEF KeysOK, Passed, KeysTo
<1>4. Key(r) \notin keys[r]
  BY <1>1, <1>3 DEF KeysTo, Key
<1>5. Key(r) \in movements /\ (Serializable(r) => Key(r) \notin unseenKeys[r])
  BY <1>4 DEF KeySeen
<1>6. JobKeys(JobOf[r]) \subseteq movements
  BY <1>1, <1>5, CommittedKeys DEF Key
<1>7. Key(r) \in JobKeys(JobOf[r])
  BY <1>1 DEF Key, JobKeys
<1>8. Serializable(r) => JobKeys(JobOf[r]) \cap unseenKeys[r] = {}
  BY <1>5, <1>7, JobAssumption DEF KeysInv
<1>9. keys[r] = {}
  <2> SUFFICES ASSUME NEW x \in keys[r] PROVE FALSE
    OBVIOUS
  <2>1. x \in JobKeys(JobOf[r])
    BY <1>1, <1>3 DEF KeysTo, JobKeys
  <2> QED
    BY <1>6, <2>1 DEF KeysInv
<1>10. DOMAIN writes[r] = {}
  BY <1>2, <1>9 DEF KeysOK
<1> QED
  BY <1>6, <1>8, <1>9, <1>10 DEF Replays

\* A step that adds no key keeps the conditions on them.
LEMMA SameKeys ==
  ASSUME KeysInv, NEW r \in Requests, keys'[r] = keys[r] \/ keys'[r] = {},
         movements' = movements, \A q \in Requests \ {r} : keys'[q] = keys[q]
  PROVE  /\ keys'[r] \cap movements' = {}
         /\ \A q \in Requests \ {r} : keys'[r] \cap keys'[q] = {}
  BY DEF KeysInv

LEMMA ReplayGoesOn ==
  ASSUME TypeOK, KeysInv, NEW r \in Requests, Replays(r), pc[r] = "check", AlreadyPosted(r)
  PROVE  KeysOK(r)' /\ Replays(r)' /\ keys' = keys
<1>1. JobOf[r] \notin Counts
  BY DEF Replays
<1>2. /\ Proceed(r, posting[r])
      /\ UNCHANGED <<database, snapshot, attempt, locks, keys, writes, mishaps>>
  BY <1>1 DEF AlreadyPosted
<1>3. pc'[r] \in {"check", "commit"}
  BY <1>1, <1>2, ProceedsToCommit DEF TypeOK, PlaceOK
<1>4. movements' = movements /\ keys' = keys /\ writes' = writes /\ unseenKeys' = unseenKeys
  BY <1>2 DEF database, snapshot
<1>5. Replays(r)'
  BY <1>3, <1>4 DEF Replays, Serializable
<1> QED
  BY <1>4, <1>5 DEF KeysOK, Replays

LEMMA PostsNothing ==
  ASSUME TypeOK, KeysInv, NEW r \in Requests, NextOf(r), Begin(r) \/ SetBaseline(r)
  PROVE  KeysOK(r)' /\ keys'[r] = keys[r]
<1>1. CASE Begin(r)
  <2>1. keys'[r] = keys[r] /\ writes' = writes /\ keys[r] = {} /\ DOMAIN writes[r] = {}
    BY <1>1 DEF Begin, TypeOK, AtRest, Active
  <2>2. PICK s \in Orders(UntrackedIn(r, Differing(JobOf[r]))) :
          IF s = <<>> THEN Proceed(r, 0) ELSE pc' = [pc EXCEPT ![r] = "baseline"]
    BY <1>1 DEF Begin
  <2>3. keys'[r] = KeysTo(r, Passed(r)')
    <3>1. CASE s # <<>>
      BY <2>1, <2>2, <3>1, KeysToAll DEF Passed, TypeOK, PlaceOK
    <3>2. CASE s = <<>>
      <4>1. Proceed(r, 0)
        BY <2>2, <3>2
      <4>2. Len(Postings[JobOf[r]]) \in Nat
        BY JobAssumption
      <4>3. Passed(r)' = 0
        BY <4>1, <4>2, ProceedTo DEF Passed
      <4> QED
        BY <2>1, <4>3, KeysToAll
    <3> QED
      BY <3>1, <3>2
  <2> QED
    BY <2>1, <2>3 DEF KeysOK, KeysTo
<1>2. CASE SetBaseline(r)
  <2>1. keys'[r] = keys[r] /\ pc[r] \in {"baseline", "after"} /\ JobOf[r] \in Counts
    BY <1>2, CountWaits DEF SetBaseline, LockAndWrite
  <2>2. keys[r] = KeysTo(r, Passed(r))
    BY <2>1 DEF KeysInv, KeysOK, KeysTo, Replays, Active
  <2>3. Len(Postings[JobOf[r]]) \in Nat
    BY JobAssumption
  <2>4. Passed(r)' = Passed(r)
    <3>1. CASE Len(left[r]) > 1
      BY <1>2, <3>1 DEF SetBaseline, Passed
    <3>2. CASE ~ (Len(left[r]) > 1) /\ pc[r] = "baseline"
      <4>1. Proceed(r, 0)
        BY <1>2, <3>2 DEF SetBaseline
      <4> QED
        BY <2>3, <3>2, <4>1, ProceedTo DEF Passed
    <3>3. CASE ~ (Len(left[r]) > 1) /\ pc[r] # "baseline"
      <4>1. pc[r] = "after" /\ pc'[r] = "commit"
        BY <1>2, <2>1, <3>3 DEF SetBaseline, TypeOK, PlaceOK
      <4> QED
        BY <4>1 DEF Passed
    <3> QED
      BY <3>1, <3>2, <3>3
  <2> QED
    BY <2>1, <2>2, <2>4 DEF KeysOK, KeysTo
<1> QED
  BY <1>1, <1>2

LEMMA RegistersKey ==
  ASSUME TypeOK, TypeOK', KeysInv, NEW r \in Requests, CreateMovement(r)
  PROVE  /\ KeysOK(r)' /\ keys'[r] = keys[r] \cup {Key(r)}
         /\ Key(r) \notin movements /\ KeyFree(r)
<1>1. posting[r] \in Nat \ {0} /\ posting[r] <= Len(Postings[JobOf[r]])
      /\ pc[r] = "register" /\ pc'[r] = "lines" /\ posting' = posting /\ writes' = writes
  BY DEF CreateMovement, TypeOK, PlaceOK
<1>2. keys[r] = KeysTo(r, posting[r] - 1)
  BY <1>1 DEF KeysInv, KeysOK, KeysTo, Replays, Active, Passed
<1>3. keys'[r] = keys[r] \cup {Key(r)} /\ Key(r) \notin movements /\ KeyFree(r)
  BY DEF CreateMovement, TypeOK, DataOK
<1>4. keys'[r] = KeysTo(r, posting[r]) /\ keys'[r] # {}
  BY <1>1, <1>2, <1>3, KeysToPuts DEF Key
<1>5. keys'[r] = KeysTo(r, Passed(r)')
  BY <1>1, <1>4 DEF Passed
<1> QED
  BY <1>3, <1>4, <1>5 DEF KeysOK, KeysTo

LEMMA LinesKeepKeys ==
  ASSUME TypeOK, KeysInv, NEW r \in Requests, PostLine(r)
  PROVE  KeysOK(r)' /\ keys'[r] = keys[r]
<1>1. posting[r] \in Nat \ {0} /\ posting[r] <= Len(Postings[JobOf[r]])
      /\ pc[r] = "lines" /\ Len(Postings[JobOf[r]]) \in Nat
  BY JobAssumption DEF PostLine, TypeOK, PlaceOK
<1>2. keys[r] = KeysTo(r, posting[r])
  BY <1>1 DEF KeysInv, KeysOK, KeysTo, Replays, Active, Passed
<1>3. keys'[r] = keys[r]
  BY DEF PostLine, LockAndWrite
<1>4. keys[r] # {}
  <2>1. <<JobOf[r], posting[r]>> \in KeysTo(r, posting[r])
    BY <1>1 DEF KeysTo
  <2> QED
    BY <1>2, <2>1
<1>5. Passed(r)' = posting[r]
  <2>1. CASE Len(left[r]) > 1
    BY <1>1, <2>1 DEF PostLine, Passed
  <2>2. CASE ~ (Len(left[r]) > 1)
    <3>1. Proceed(r, posting[r])
      BY <2>2 DEF PostLine
    <3> QED
      BY <1>1, <3>1, ProceedTo DEF Passed
  <2> QED
    BY <2>1, <2>2
<1> QED
  BY <1>2, <1>3, <1>4, <1>5 DEF KeysOK, KeysTo

LEMMA NotSeenKeepsKeys ==
  ASSUME TypeOK, KeysInv, NEW r \in Requests, NotYetPosted(r)
  PROVE  KeysOK(r)' /\ keys'[r] = keys[r] /\ ~ Replays(r)
<1>1. /\ posting[r] \in Nat \ {0} /\ posting[r] <= Len(Postings[JobOf[r]])
      /\ pc[r] = "check" /\ pc'[r] = "register" /\ posting' = posting
      /\ keys' = keys /\ writes' = writes /\ ~ KeySeen(r)
  BY DEF NotYetPosted, TypeOK, PlaceOK
<1>2. ~ Replays(r)
  <2>1. Key(r) \in JobKeys(JobOf[r])
    BY <1>1 DEF Key, JobKeys
  <2> QED
    BY <1>1, <2>1 DEF Replays, KeySeen
<1>3. keys[r] = KeysTo(r, Passed(r)) /\ (keys[r] = {} /\ JobOf[r] \notin Counts => DOMAIN writes[r] = {})
  BY <1>1, <1>2 DEF KeysInv, KeysOK, KeysTo, Active
<1>4. Passed(r)' = Passed(r)
  BY <1>1 DEF Passed
<1> QED
  BY <1>1, <1>2, <1>3, <1>4 DEF KeysOK, KeysTo

LEMMA EndKinds ==
  ASSUME NEW r \in Requests,
         \/ CreateMovementFails(r) \/ WriteConflicts(r) \/ DeadlockVictim(r)
         \/ TransactionFails(r) \/ FalseConflict(r)
         \/ AlreadyPosted(r) /\ JobOf[r] \in Counts
  PROVE  Refuse(r) \/ RetryOrRefuse(r)
  BY DEF CreateMovementFails, WriteConflicts, DeadlockVictim, TransactionFails, FalseConflict,
         AlreadyPosted

LEMMA Ended ==
  ASSUME TypeOK, NEW r \in Requests, Refuse(r) \/ RetryOrRefuse(r)
  PROVE  /\ pc'[r] \in {"retry", "refused"} /\ keys'[r] = {} /\ locks'[r] = {}
         /\ DOMAIN writes'[r] = {}
         /\ unseen'[r] = {} /\ changed'[r] = {} /\ unseenKeys'[r] = {}
<1>1. PICK v \in {"retry", "refused"} : Rollback(r, v)
  BY DEF Refuse, RetryOrRefuse
<1>2. pc'[r] \in {"retry", "refused"}
  BY <1>1 DEF Rollback, TypeOK, PlaceOK
<1>3. unseen'[r] = {} /\ changed'[r] = {} /\ unseenKeys'[r] = {}
  BY <1>1 DEF Rollback, NoSnapshot, TypeOK, DataOK
<1> QED
  BY <1>1, <1>2, <1>3, ForgetTyped DEF Rollback

\* What a request does to its own snapshot before it commits.
LEMMA OwnSnapshot ==
  ASSUME TypeOK, NEW r \in Requests, NextOf(r), ~ Commit(r)
  PROVE  \/ UNCHANGED snapshot
         \/ unseen'[r] = {} /\ changed'[r] = {} /\ unseenKeys'[r] = {}
<1>1. CASE Refuse(r) \/ RetryOrRefuse(r)
  BY <1>1, Ended
<1>2. CASE GoesOn(r) \/ Writes(r)
  BY <1>2 DEF GoesOn, Writes, WritesRow, LockAndWrite
<1>3. CASE Ends(r)
  <2>1. PICK v \in {"retry", "refused"} : Rollback(r, v)
    BY <1>3 DEF Ends
  <2> QED
    BY <2>1 DEF Rollback, NoSnapshot, TypeOK, DataOK
<1> QED
  BY <1>2, <1>3, StepKinds

LEMMA OwnKeys ==
  ASSUME TypeOK, TypeOK', KeysInv, NEW r \in Requests, NextOf(r), ~ Commit(r)
  PROVE  /\ KeysOK(r)'
         /\ \/ keys'[r] = keys[r] \/ keys'[r] = {}
            \/ keys'[r] = keys[r] \cup {Key(r)} /\ Key(r) \notin movements /\ KeyFree(r)
<1>1. CASE Begin(r) \/ SetBaseline(r)
  BY <1>1, PostsNothing
<1>2. CASE AlreadyPosted(r) /\ JobOf[r] \notin Counts
  <2>1. pc[r] = "check" /\ KeySeen(r)
    BY <1>2 DEF AlreadyPosted
  <2>2. Replays(r)
    BY <1>2, <2>1, FindsJobDone
  <2> QED
    BY <1>2, <2>1, <2>2, ReplayGoesOn
<1>3. CASE NotYetPosted(r)
  BY <1>3, NotSeenKeepsKeys
<1>4. CASE CreateMovement(r)
  BY <1>4, RegistersKey
<1>5. CASE PostLine(r)
  BY <1>5, LinesKeepKeys
<1>6. ASSUME Refuse(r) \/ RetryOrRefuse(r) PROVE KeysOK(r)' /\ keys'[r] = {}
  BY <1>6, Ended DEF KeysOK, Active
<1> QED
  BY <1>1, <1>2, <1>3, <1>4, <1>5, <1>6, EndKinds DEF NextOf, Step

LEMMA KeepsKeys ==
  ASSUME TypeOK, TypeOK', KeysInv, NEW r \in Requests, NextOf(r), ~ Commit(r)
  PROVE  KeysInv'
<1>1. /\ movements' = movements /\ pc[r] # "done" /\ pc'[r] # "done"
      /\ \A q \in Requests \ {r} : unseenKeys'[q] = unseenKeys[q]
  BY DatabaseStays
<1>2. \A q \in Requests \ {r} :
        /\ pc'[q] = pc[q] /\ posting'[q] = posting[q]
        /\ keys'[q] = keys[q] /\ writes'[q] = writes[q]
  BY OthersKeep
<1>3. Booked' = Booked
  <2>1. \A q \in Requests : pc'[q] = "done" <=> pc[q] = "done"
    BY <1>1, <1>2
  <2> QED
    BY <2>1 DEF Booked
<1>4. movements' = UNION {JobKeys(j) : j \in Booked'}
  BY <1>1, <1>3 DEF KeysInv
<1>5. /\ KeysOK(r)'
      /\ \/ keys'[r] = keys[r] \/ keys'[r] = {}
         \/ keys'[r] = keys[r] \cup {Key(r)} /\ Key(r) \notin movements /\ KeyFree(r)
  BY OwnKeys
<1>6. unseenKeys'[r] = unseenKeys[r] \/ unseenKeys'[r] = {}
  BY OwnSnapshot DEF snapshot
<1>7. ASSUME NEW q \in Requests PROVE KeysOK(q)'
  <2>1. CASE q # r
    BY <1>1, <1>2, <2>1 DEF KeysInv, KeysOK, Replays, Passed, Key, Serializable
  <2> QED
    BY <1>5, <2>1
<1>8. ASSUME NEW q \in Requests PROVE keys'[q] \cap movements' = {}
  BY <1>1, <1>2, <1>5 DEF KeysInv
<1>9. ASSUME NEW q \in Requests, NEW s \in Requests \ {q} PROVE keys'[q] \cap keys'[s] = {}
  <2>1. keys[q] \cap keys[s] = {}
    BY DEF KeysInv
  <2>2. CASE q # r /\ s # r
    BY <1>2, <2>1, <2>2
  <2>3. CASE q = r
    BY <1>2, <1>5, <2>1, <2>3 DEF KeyFree
  <2>4. CASE s = r
    BY <1>2, <1>5, <2>1, <2>4 DEF KeyFree
  <2> QED
    BY <2>2, <2>3, <2>4
<1>10. ASSUME NEW q \in Requests, NEW j \in Jobs
       PROVE  JobKeys(j) \subseteq unseenKeys'[q] \/ JobKeys(j) \cap unseenKeys'[q] = {}
  BY <1>1, <1>6 DEF KeysInv
<1>11. \A j : JobKeys(j)' = JobKeys(j)
  BY DEF JobKeys
<1> QED
  BY <1>4, <1>7, <1>8, <1>9, <1>10 DEF KeysInv, JobKeys

LEMMA CommitsKeys ==
  ASSUME TypeOK, TypeOK', KeysInv, NEW r \in Requests, Commit(r)
  PROVE  KeysInv'
<1>1. /\ pc[r] = "commit" /\ pc'[r] = "done" /\ movements' = movements \cup keys[r]
      /\ \A q \in Requests \ {r} :
           unseenKeys'[q] = IF LeavesSnapshot(r, q) THEN unseenKeys[q] \cup keys[r]
                            ELSE unseenKeys[q]
      /\ unseenKeys'[r] = {}
  BY DEF Commit, TypeOK, PlaceOK, LeavesSnapshot
<1>2. \A q \in Requests \ {r} :
        /\ pc'[q] = pc[q] /\ posting'[q] = posting[q]
        /\ keys'[q] = keys[q] /\ writes'[q] = writes[q]
  BY OthersKeep DEF NextOf, Step
<1>3. keys'[r] = {}
  BY ForgetTyped DEF Commit
<1>4. Booked' = Booked \cup {JobOf[r]}
  <2>1. \A q \in Requests : pc'[q] = "done" <=> pc[q] = "done" \/ q = r
    BY <1>1, <1>2
  <2> QED
    BY <2>1 DEF Booked
<1>5. \/ keys[r] = {} /\ JobKeys(JobOf[r]) \subseteq movements
      \/ keys[r] = JobKeys(JobOf[r])
  <2>1. Replays(r) \/ keys[r] = KeysTo(r, Len(Postings[JobOf[r]]))
    BY <1>1 DEF KeysInv, KeysOK, KeysTo, Passed, Active
  <2> QED
    BY <2>1, KeysToAll DEF Replays
<1>6. movements' = UNION {JobKeys(j) : j \in Booked'}
  <2>1. movements = UNION {JobKeys(j) : j \in Booked}
    BY DEF KeysInv
  <2>2. \A x : x \in movements' <=> \E j \in Booked' : x \in JobKeys(j)
    BY <1>1, <1>4, <1>5, <2>1
  <2> QED
    BY <2>2
<1>7. ASSUME NEW q \in Requests PROVE KeysOK(q)'
  <2>1. CASE q = r
    BY <1>1, <2>1 DEF KeysOK, Active
  <2>2. CASE q # r
    <3>1. KeysOK(q)
      BY DEF KeysInv
    <3>2. ASSUME Replays(q) PROVE Replays(q)'
      <4>1. Serializable(q) => JobKeys(JobOf[q]) \cap unseenKeys'[q] = {}
        <5> SUFFICES ASSUME Serializable(q), NEW x \in JobKeys(JobOf[q]), x \in unseenKeys'[q]
                     PROVE  FALSE
          OBVIOUS
        <5>1. x \notin unseenKeys[q] /\ x \in movements
          BY <3>2 DEF Replays
        <5>2. x \in keys[r]
          BY <1>1, <2>2, <5>1
        <5> QED
          BY <5>1, <5>2 DEF KeysInv
      <4> QED
        BY <1>1, <1>2, <2>2, <3>2, <4>1 DEF Replays, Serializable, JobKeys
    <3> QED
      BY <1>2, <2>2, <3>1, <3>2 DEF KeysOK, Passed
  <2> QED
    BY <2>1, <2>2
<1>8. ASSUME NEW q \in Requests PROVE keys'[q] \cap movements' = {}
  BY <1>1, <1>2, <1>3 DEF KeysInv
<1>9. ASSUME NEW q \in Requests, NEW s \in Requests \ {q} PROVE keys'[q] \cap keys'[s] = {}
  BY <1>2, <1>3 DEF KeysInv
<1>10. ASSUME NEW q \in Requests, NEW j \in Jobs
       PROVE  JobKeys(j) \subseteq unseenKeys'[q] \/ JobKeys(j) \cap unseenKeys'[q] = {}
  <2>1. JobKeys(j) \subseteq unseenKeys[q] \/ JobKeys(j) \cap unseenKeys[q] = {}
    BY DEF KeysInv
  <2>2. keys[r] = {} \/ JobKeys(j) = keys[r] \/ JobKeys(j) \cap keys[r] = {}
    BY <1>5 DEF JobKeys
  <2>3. unseenKeys'[q] \in {unseenKeys[q], unseenKeys[q] \cup keys[r], {}}
    BY <1>1
  <2> QED
    BY <2>1, <2>2, <2>3
<1> QED
  BY <1>6, <1>7, <1>8, <1>9, <1>10 DEF KeysInv, JobKeys

LEMMA InitKeys == Init => KeysInv
<1> SUFFICES ASSUME Init PROVE KeysInv
  OBVIOUS
<1>1. Booked = {}
  BY DEF Init, Booked
<1>2. \A r \in Requests : pc[r] = "idle" /\ keys[r] = {} /\ unseenKeys[r] = {}
  BY DEF Init
<1>3. movements = UNION {JobKeys(j) : j \in Booked}
  BY <1>1 DEF Init
<1> QED
  BY <1>2, <1>3 DEF KeysInv, KeysOK, Active, Init

LEMMA NextKeys == TypeOK /\ KeysInv /\ [Next]_vars => KeysInv'
<1> SUFFICES ASSUME TypeOK, KeysInv, [Next]_vars PROVE KeysInv'
  OBVIOUS
<1>1. TypeOK'
  BY NextTyped
<1>2. CASE UNCHANGED vars
  BY <1>2 DEF vars, KeysInv, KeysOK, Replays, Passed, Booked, JobKeys, Serializable
<1>3. CASE Next
  <2>1. PICK r \in Requests : NextOf(r)
    BY <1>3 DEF Next, NextOf
  <2> QED
    BY <1>1, <2>1, KeepsKeys, CommitsKeys
<1> QED
  BY <1>2, <1>3

-----------------------------------------------------------------------------
(***************************************************************************)
(* The quantities.                                                         *)
(***************************************************************************)

LEMMA OrdersCover ==
  ASSUME NEW S, S \subseteq Pools, NEW s \in Orders(S)
  PROVE  /\ \A p \in S : \E n \in 1..Len(s) : s[n] = p
         /\ \A n \in 1..Len(s) : s[n] \in S
         /\ \A m, n \in 1..Len(s) : s[m] = s[n] => m = n
<1> DEFINE c == Cardinality(S)
<1>1. IsFiniteSet(S)
  BY FS_Subset, JobAssumption
<1>2. c \in Nat
  BY <1>1, FS_CardinalityType
<1>3. /\ s \in [1..c -> S]
      /\ \A m, n \in 1..c : s[m] = s[n] => m = n
  BY DEF Orders
<1> HIDE DEF c
<1>4. Len(s) = c
  BY <1>2, <1>3
<1>5. s \in Injection(1..c, S)
  BY <1>3 DEF Injection, IsInjective
<1>6. Cardinality(1..c) = c
  BY <1>2, FS_Interval
<1>7. s \in Surjection(1..c, S)
  BY <1>1, <1>5, <1>6, FS_Injection DEF c
<1> QED
  BY <1>3, <1>4, <1>7 DEF Surjection

LEMMA SharesTyped ==
  ASSUME NEW r \in Requests, NEW k \in 1..Len(Postings[JobOf[r]]), NEW p
  PROVE  Share(JobOf[r], k, p) \in Int
  BY PostingsTyped DEF Share

LEMMA NetNext ==
  ASSUME NEW r \in Requests, NEW p, NEW m \in 1..Len(Postings[JobOf[r]])
  PROVE  /\ NetUpTo(JobOf[r], p, m) = NetUpTo(JobOf[r], p, m - 1) + Share(JobOf[r], m, p)
         /\ NetUpTo(JobOf[r], p, m - 1) \in Int /\ NetUpTo(JobOf[r], p, m) \in Int
<1> DEFINE n == Len(Postings[JobOf[r]])
           f == [k \in 1..n |-> Share(JobOf[r], k, p)]
<1>1. n \in Nat /\ m \in 1..n
  BY JobAssumption
<1>2. \A k \in 1..n : f[k] \in Int
  BY SharesTyped
<1>3. NetUpTo(JobOf[r], p, m) = SumFunctionOnSet(f, 1..m)
      /\ NetUpTo(JobOf[r], p, m - 1) = SumFunctionOnSet(f, 1..(m - 1))
  BY DEF NetUpTo
<1>4. f[m] = Share(JobOf[r], m, p)
  BY <1>1
<1> HIDE DEF f, n
<1>5. IsFiniteSet(1..m) /\ IsFiniteSet(1..(m - 1)) /\ (1..m) \ {m} = 1..(m - 1) /\ m \in 1..m
  <2>1. m \in Int /\ m - 1 \in Int /\ 1 \in Int /\ m >= 1
    BY <1>1
  <2>2. IsFiniteSet(1..m) /\ IsFiniteSet(1..(m - 1))
    BY <2>1, FS_Interval
  <2>3. \A k : k \in (1..m) \ {m} <=> k \in 1..(m - 1)
    BY <2>1
  <2> QED
    BY <2>1, <2>2, <2>3
<1>6. (\A k \in 1..m : f[k] \in Int) /\ (\A k \in 1..(m - 1) : f[k] \in Int)
  BY <1>1, <1>2
<1>7. SumFunctionOnSet(f, 1..m) = f[m] + SumFunctionOnSet(f, 1..(m - 1))
  BY <1>5, <1>6, SumTakeOut
<1>8. SumFunctionOnSet(f, 1..(m - 1)) \in Int /\ SumFunctionOnSet(f, 1..m) \in Int
  BY <1>5, <1>6, SumType
<1>9. f[m] \in Int
  BY <1>1, <1>2
<1> QED
  BY <1>3, <1>4, <1>7, <1>8, <1>9

LEMMA NetZero ==
  ASSUME NEW r \in Requests, NEW p, NEW m \in 0..Len(Postings[JobOf[r]]),
         \A k \in 1..m : p \notin DOMAIN Postings[JobOf[r]][k]
  PROVE  NetUpTo(JobOf[r], p, m) = 0
<1> DEFINE n == Len(Postings[JobOf[r]])
           f == [k \in 1..n |-> Share(JobOf[r], k, p)]
<1>1. n \in Nat /\ m \in 0..n
  BY JobAssumption
<1>2. \A k \in 1..m : f[k] = 0
  BY <1>1 DEF Share
<1>3. NetUpTo(JobOf[r], p, m) = SumFunctionOnSet(f, 1..m)
  BY DEF NetUpTo
<1> HIDE DEF f, n
<1>4. IsFiniteSet(1..m)
  <2>1. m \in Int /\ 1 \in Int
    BY <1>1
  <2> QED
    BY <2>1, FS_Interval
<1> QED
  BY <1>2, <1>3, <1>4, SumZero

\* A pool's committed row, if it has one, is its stock.
LEMMA OnHandIs ==
  ASSUME SoleRows, NEW r \in Requests, NEW p, NEW id \in RowsOf(p)
  PROVE  /\ OnHand(p) = items[id]
         /\ \A i \in RowsOf(p) : i = id
<1>1. \A i \in RowsOf(p) : i = id
  BY DEF SoleRows, RowInv, OneRowSeen, RowsOf
<1> QED
  BY <1>1 DEF OnHand

LEMMA OnHandTyped ==
  ASSUME SoleRows, NEW r \in Requests, NEW p
  PROVE  OnHand(p) \in Int
<1>1. CASE RowsOf(p) = {}
  BY <1>1 DEF OnHand
<1>2. CASE RowsOf(p) # {}
  <2>1. PICK id \in RowsOf(p) : TRUE
    BY <1>2
  <2>2. OnHand(p) = items[id]
    BY <2>1, OnHandIs
  <2>3. items[id] \in Int
    BY <2>1 DEF RowsOf, SoleRows, RowInv, TypeOK, DataOK
  <2> QED
    BY <2>2, <2>3
<1> QED
  BY <1>1, <1>2

\* A job's place, in numbers.
LEMMA PostingIn ==
  ASSUME TypeOK, NEW r \in Requests
  PROVE  /\ posting[r] \in Nat \ {0} /\ Len(Postings[JobOf[r]]) \in Nat
         /\ pc[r] \in {"check", "register", "lines"} => posting[r] \in 1..Len(Postings[JobOf[r]])
         /\ JobOf[r] \in Counts => Len(Postings[JobOf[r]]) \in {0, 1}
         /\ JobOf[r] \in Counts => Serializable(r)
<1>1. JobOf[r] \in Jobs
  BY JobAssumption
<1>2. posting[r] \in Nat \ {0} /\ Len(Postings[JobOf[r]]) \in Nat
  BY <1>1, JobAssumption DEF TypeOK, PlaceOK
<1>3. pc[r] \in {"check", "register", "lines"} => posting[r] <= Len(Postings[JobOf[r]])
  BY DEF TypeOK, PlaceOK
<1>4. JobOf[r] \in Counts => Len(Postings[JobOf[r]]) <= 1 /\ Serializable(r)
  BY <1>1, CountAssumption DEF Serializable
<1>5. ASSUME JobOf[r] \in Counts PROVE Len(Postings[JobOf[r]]) \in {0, 1}
  <2>1. PICK n \in Nat : n = Len(Postings[JobOf[r]])
    BY <1>2
  <2>2. n <= 1
    BY <1>4, <1>5, <2>1
  <2>3. n \in {0, 1}
    BY <2>2
  <2> QED
    BY <2>1, <2>3
<1>6. pc[r] \in {"check", "register", "lines"} => posting[r] \in 1..Len(Postings[JobOf[r]])
  BY <1>2, <1>3
<1> QED
  BY <1>2, <1>4, <1>5, <1>6

\* What a count posts, it counted with a difference.
LEMMA LinesDiffer ==
  ASSUME TypeOK, NEW r \in Requests, NEW k \in 1..Len(Postings[JobOf[r]]),
         NEW p \in DOMAIN Postings[JobOf[r]][k]
  PROVE  p \notin Matching(JobOf[r])
<1>1. CASE JobOf[r] \in Counts
  <2>1. Len(Postings[JobOf[r]]) = 1 /\ k = 1
    BY <1>1, PostingIn
  <2> QED
    BY <1>1, <2>1 DEF Matching, Differing
<1>2. CASE JobOf[r] \notin Counts
  BY <1>2, OtherJobs
<1> QED
  BY <1>1, <1>2

LEMMA ThroughIn ==
  ASSUME TypeOK, NEW r \in Requests, NEW p
  PROVE  Through(r, p) \in 0..Len(Postings[JobOf[r]])
<1>1. PICK n \in Nat : n = Len(Postings[JobOf[r]])
  BY PostingIn
<1> QED
  BY <1>1, PostingIn DEF Through

\* A pool that none of its postings has reached yet.
LEMMA Unreached ==
  ASSUME TypeOK, NEW r \in Requests, AppliedIsWritten(r), NEW p, p \notin Written(r)
  PROVE  NetUpTo(JobOf[r], p, Through(r, p)) = 0
<1>1. PICK m \in 0..Len(Postings[JobOf[r]]) : m = Through(r, p)
  BY ThroughIn
<1>2. \A k \in 1..m : p \notin DOMAIN Postings[JobOf[r]][k]
  BY <1>1, PostingIn DEF AppliedIsWritten
<1>3. NetUpTo(JobOf[r], p, m) = 0
  BY <1>2, NetZero
<1> QED
  BY <1>1, <1>3

LEMMA RowsStay ==
  ASSUME items' = items
  PROVE  \A p : RowsOf(p)' = RowsOf(p) /\ OnHand(p)' = OnHand(p)
<1> SUFFICES ASSUME NEW p PROVE RowsOf(p)' = RowsOf(p) /\ OnHand(p)' = OnHand(p)
  OBVIOUS
<1>1. RowsOf(p)' = RowsOf(p)
  BY DEF RowsOf
<1>2. \A id \in RowsOf(p) : items'[id] = items[id]
  OBVIOUS
<1>3. OnHand(p)' = OnHand(p)
  BY <1>1, <1>2 DEF OnHand
<1> QED
  BY <1>1, <1>3

\* The books of a request in the same place that has written the same.
LEMMA PlaceStays ==
  ASSUME NEW q \in Requests, pc'[q] = pc[q], posting'[q] = posting[q], left'[q] = left[q],
         writes'[q] = writes[q]
  PROVE  /\ Written(q)' = Written(q) /\ Waiting(q)' = Waiting(q)
         /\ \A p : Through(q, p)' = Through(q, p)
<1>1. Written(q)' = Written(q) /\ Waiting(q)' = Waiting(q)
  BY DEF Written, Waiting
<1> QED
  BY <1>1 DEF Through

LEMMA BooksStay ==
  ASSUME NEW q \in Requests, pc'[q] = pc[q], posting'[q] = posting[q], left'[q] = left[q],
         writes'[q] = writes[q], items' = items, unseen'[q] = unseen[q], Books(q)
  PROVE  Books(q)'
<1>1. /\ pc'[q] = pc[q] /\ posting'[q] = posting[q] /\ left'[q] = left[q]
      /\ writes'[q] = writes[q]
  OBVIOUS
<1>2. items' = items /\ unseen'[q] = unseen[q]
  OBVIOUS
<1>3. \A p : RowsOf(p)' = RowsOf(p) /\ OnHand(p)' = OnHand(p)
  BY <1>2, RowsStay
<1>4. /\ Written(q)' = Written(q) /\ Waiting(q)' = Waiting(q)
      /\ \A p : Through(q, p)' = Through(q, p)
  BY <1>1, PlaceStays
<1>5. \A p : Assumed(q, p)' = Assumed(q, p)
  BY <1>3 DEF Assumed
<1>6. \A p : SeesRow(q, p)' <=> SeesRow(q, p)
  BY <1>2, <1>3 DEF SeesRow
<1>7. WritesAddUp(q)'
  BY <1>1, <1>3, <1>4, <1>5 DEF Books, WritesAddUp, Touched, NetUpTo
<1>8. AppliedIsWritten(q)'
  BY <1>4 DEF Books, AppliedIsWritten
<1>9. BaselineKnown(q)'
  BY <1>1, <1>4, <1>6 DEF Books, BaselineKnown, Matching, Differing
<1>10. BaselineOpen(q)'
  BY <1>1, <1>2, <1>3, <1>4 DEF Books, BaselineOpen, Matching, Differing
<1>11. LeftOnce(q)'
  BY <1>1 DEF Books, LeftOnce
<1> QED
  BY <1>7, <1>8, <1>9, <1>10, <1>11 DEF Books

\* Another request's step that is no commit.
LEMMA OthersBooks ==
  ASSUME TypeOK, NEW r \in Requests, NextOf(r), ~ Commit(r), NEW q \in Requests \ {r},
         Books(q)
  PROVE  Books(q)'
<1>1. /\ pc'[q] = pc[q] /\ posting'[q] = posting[q] /\ left'[q] = left[q]
      /\ writes'[q] = writes[q]
  BY OthersKeep
<1>2. items' = items /\ unseen'[q] = unseen[q]
  BY DatabaseStays
<1> QED
  BY <1>1, <1>2, BooksStay

\* Another request's commit: it writes only pools it has locked.
LEMMA CommitBooks ==
  ASSUME SoleRows, SoleRows', NEW r \in Requests, Commit(r), NEW q \in Requests \ {r},
         pc[q] \in Active, Books(q)
  PROVE  Books(q)'
<1>0. TypeOK /\ NextOf(r)
  BY DEF SoleRows, RowInv, NextOf, Step
<1>1. /\ pc'[q] = pc[q] /\ posting'[q] = posting[q] /\ left'[q] = left[q]
      /\ writes'[q] = writes[q]
  BY <1>0, OthersKeep
<1>2. /\ DOMAIN items' = DOMAIN items \cup DOMAIN writes[r]
      /\ \A id \in DOMAIN items' :
           items'[id] = IF id \in DOMAIN writes[r] THEN writes[r][id] ELSE items[id]
  BY DEF Commit
<1>3. unseen'[q] = IF Serializable(q) THEN unseen[q] \cup (DOMAIN writes[r] \ DOMAIN items)
                   ELSE unseen[q]
  BY DEF Commit, LeavesSnapshot
<1>4. /\ Written(q)' = Written(q) /\ Waiting(q)' = Waiting(q)
      /\ \A p : Through(q, p)' = Through(q, p)
  BY <1>1, PlaceStays
<1>5. ASSUME NEW p \in Written(q)
      PROVE  /\ RowsOf(p)' = RowsOf(p) /\ OnHand(p)' = OnHand(p)
             /\ Assumed(q, p)' = Assumed(q, p)
  <2>1. p \in locks[q]
    BY <1>0 DEF Written, TypeOK, DataOK
  <2>2. \A id \in DOMAIN writes[r] : Pool(id) # p
    BY <1>0, <2>1 DEF TypeOK, DataOK, SoleRows, RowInv, LocksExclusive
  <2>3. RowsOf(p)' = RowsOf(p)
    BY <1>2, <2>2 DEF RowsOf, Pool
  <2>4. \A id \in RowsOf(p) : items'[id] = items[id]
    BY <1>2, <2>2 DEF RowsOf
  <2>5. OnHand(p)' = OnHand(p)
    BY <2>3, <2>4 DEF OnHand
  <2> QED
    BY <2>3, <2>5 DEF Assumed
<1>6. WritesAddUp(q)'
  <2> SUFFICES ASSUME NEW id \in DOMAIN writes'[q]
               PROVE  /\ Pool(id) \in Touched(q)
                      /\ writes'[q][id] = OnHand(Pool(id))' + Assumed(q, Pool(id))'
                            + NetUpTo(JobOf[q], Pool(id), Through(q, Pool(id))')
    BY DEF WritesAddUp, Touched, Pool, NetUpTo, Share
  <2>1. id \in DOMAIN writes[q] /\ Pool(id) \in Written(q)
    BY <1>1 DEF Written
  <2>2. PICK p : p = Pool(id)
    OBVIOUS
  <2>3. OnHand(p)' = OnHand(p) /\ Assumed(q, p)' = Assumed(q, p) /\ Through(q, p)' = Through(q, p)
    BY <1>4, <1>5, <2>1, <2>2
  <2>4. /\ p \in Touched(q)
        /\ writes[q][id] = OnHand(p) + Assumed(q, p) + NetUpTo(JobOf[q], p, Through(q, p))
    BY <2>1, <2>2 DEF Books, WritesAddUp
  <2>5. /\ p \in Touched(q)
        /\ writes'[q][id] = OnHand(p)' + Assumed(q, p)' + NetUpTo(JobOf[q], p, Through(q, p)')
    BY <1>1, <2>3, <2>4
  <2> QED
    BY <2>2, <2>5 DEF Pool
<1>7. AppliedIsWritten(q)'
  BY <1>4 DEF Books, AppliedIsWritten
<1>8. ASSUME NEW p, SeesRow(q, p) PROVE SeesRow(q, p)'
  <2>1. PICK id \in RowsOf(p) : id \notin unseen[q]
    BY <1>8 DEF SeesRow
  <2>2. id \in RowsOf(p)' /\ id \notin unseen'[q]
    BY <1>2, <1>3, <2>1 DEF RowsOf, Pool
  <2> QED
    BY <2>2 DEF SeesRow
<1>9. BaselineKnown(q)'
  BY <1>1, <1>4, <1>8 DEF Books, BaselineKnown, Matching, Differing
<1>10. BaselineOpen(q)'
  <2>1. ASSUME pc[q] \in {"baseline", "after"}, NEW p, RowsOf(p) \subseteq unseen[q]
        PROVE  RowsOf(p)' \subseteq unseen'[q]
    <3>1. Serializable(q)
      BY <1>0, <2>1, CountWaits, PostingIn
    <3> QED
      BY <1>2, <1>3, <2>1, <3>1 DEF RowsOf
  <2>2. pc[q] \notin {"after", "commit"} => Written(q) \cap Matching(JobOf[q]) = {}
    BY DEF Books, BaselineOpen
  <2>3. ASSUME pc[q] \in {"baseline", "after"}, NEW n \in 1..Len(left[q])
        PROVE  /\ left[q][n] \notin Written(q) /\ RowsOf(left[q][n])' \subseteq unseen'[q]
               /\ left[q][n] \in (IF pc[q] = "baseline" THEN Differing(JobOf[q])
                                  ELSE Matching(JobOf[q]))
    <3>1. PICK p : p = left[q][n]
      OBVIOUS
    <3>2. /\ p \notin Written(q) /\ RowsOf(p) \subseteq unseen[q]
          /\ p \in (IF pc[q] = "baseline" THEN Differing(JobOf[q]) ELSE Matching(JobOf[q]))
      BY <2>3, <3>1 DEF Books, BaselineOpen
    <3>3. RowsOf(p)' \subseteq unseen'[q]
      BY <2>1, <2>3, <3>2
    <3>4. p = left'[q][n]
      BY <1>1, <3>1
    <3> QED
      BY <3>1, <3>2, <3>3, <3>4 DEF RowsOf
  <2>4. ASSUME pc'[q] \in {"baseline", "after"}, NEW n \in 1..Len(left'[q])
        PROVE  /\ left'[q][n] \notin Written(q)' /\ RowsOf(left[q][n])' \subseteq unseen'[q]
               /\ left'[q][n] \in (IF pc'[q] = "baseline" THEN Differing(JobOf[q])
                                  ELSE Matching(JobOf[q]))
    BY <1>1, <1>4, <2>3, <2>4
  <2> QED
    BY <1>1, <1>4, <2>2, <2>4 DEF BaselineOpen, Matching, Differing
<1>11. LeftOnce(q)'
  BY <1>1 DEF Books, LeftOnce
<1> QED
  BY <1>6, <1>7, <1>9, <1>10, <1>11 DEF Books

\* After k postings: the books of what Proceed leads to.
LEMMA ProceedBooks ==
  ASSUME TypeOK, NEW r \in Requests, NEW k \in 0..Len(Postings[JobOf[r]]), Proceed(r, k),
         items' = items, unseen'[r] = unseen[r],
         \A p \in DOMAIN Expected[JobOf[r]] :
           p \in Written(r)' \/ SeesRow(r, p) \/ p \in Matching(JobOf[r]),
         Written(r)' \cap Matching(JobOf[r]) = {}
  PROVE  /\ BaselineKnown(r)' /\ BaselineOpen(r)' /\ LeftOnce(r)'
         /\ \A p : Through(r, p)' = k
<1> DEFINE n == Len(Postings[JobOf[r]])
           M == Matching(JobOf[r])
<1>0. n \in Nat /\ k \in Nat
  BY PostingIn
<1>1. \A p : SeesRow(r, p)' <=> SeesRow(r, p)
  BY RowsStay DEF SeesRow
<1>2. CASE k < n
  <2>1. pc'[r] = "check" /\ posting'[r] = k + 1 /\ left'[r] = <<>>
    BY <1>0, <1>2, ProceedTo
  <2>2. BaselineKnown(r)'
    BY <1>1, <2>1 DEF BaselineKnown, Matching, Differing
  <2>3. BaselineOpen(r)'
    BY <2>1 DEF BaselineOpen, Matching, Differing
  <2>4. LeftOnce(r)'
    BY <2>1 DEF LeftOnce
  <2>5. \A p : Through(r, p)' = k
    BY <1>0, <2>1 DEF Through
  <2> QED
    BY <2>2, <2>3, <2>4, <2>5
<1>3. CASE ~ (k < n)
  <2>1. PICK s \in Orders(UntrackedIn(r, M)) :
          left'[r] = s /\ pc'[r] = IF s = <<>> THEN "commit" ELSE "after"
    BY <1>0, <1>3, ProceedTo
  <2>2. UntrackedIn(r, M) \subseteq Pools /\ UntrackedIn(r, M) \subseteq M
    BY ExpectedTyped DEF UntrackedIn
  <2>3. /\ \A p \in UntrackedIn(r, M) : \E i \in 1..Len(s) : s[i] = p
        /\ \A i \in 1..Len(s) : s[i] \in UntrackedIn(r, M)
        /\ \A i, m \in 1..Len(s) : s[i] = s[m] => i = m
    BY <2>1, <2>2, OrdersCover
  <2>4. Waiting(r)' = UntrackedIn(r, M)
    BY <2>1, <2>3 DEF Waiting
  <2>5. pc'[r] = "commit" => UntrackedIn(r, M) = {}
    BY <2>1, <2>3
  <2>6. ASSUME NEW p \in DOMAIN Expected[JobOf[r]]
        PROVE  \/ p \in Written(r)' \/ SeesRow(r, p)'
               \/ p \in M /\ pc'[r] # "commit" /\ p \in Waiting(r)'
    <3>1. CASE p \in M /\ p \notin UntrackedIn(r, M)
      <4>1. Serializable(r)
        BY <2>6, OtherJobs, PostingIn
      <4> QED
        BY <1>1, <3>1, <4>1 DEF UntrackedIn, SeesRow
    <3>2. CASE p \in UntrackedIn(r, M)
      BY <2>4, <2>5, <3>2, <2>2
    <3> QED
      BY <1>1, <3>1, <3>2
  <2>7. BaselineKnown(r)'
    BY <2>6 DEF BaselineKnown, Matching, Differing
  <2>8. pc'[r] \in {"after", "commit"}
    BY <2>1
  <2>9. BaselineOpen(r)'
    <3>1. ASSUME NEW i \in 1..Len(s)
          PROVE  s[i] \notin Written(r)' /\ s[i] \in M /\ RowsOf(s[i])' \subseteq unseen'[r]
      <4>1. PICK p : p = s[i]
        OBVIOUS
      <4>2. p \in UntrackedIn(r, M) /\ p \in M
        BY <2>2, <2>3, <4>1
      <4>3. p \notin Written(r)'
        BY <4>2
      <4>4. RowsOf(p)' \subseteq unseen'[r]
        BY <4>2, RowsStay DEF UntrackedIn
      <4> QED
        BY <2>1, <4>1, <4>2, <4>3, <4>4 DEF RowsOf
    <3>2. ASSUME NEW i \in 1..Len(left'[r])
          PROVE  /\ left'[r][i] \notin Written(r)' /\ left'[r][i] \in M
                 /\ RowsOf(left[r][i])' \subseteq unseen'[r]
      BY <2>1, <3>1, <3>2 DEF RowsOf
    <3> QED
      BY <2>8, <3>2 DEF BaselineOpen, Matching, Differing
  <2>10. LeftOnce(r)'
    BY <2>1, <2>3 DEF LeftOnce
  <2>11. \A p : Through(r, p)' = k
    <3>1. k = n
      BY <1>0, <1>3
    <3> QED
      BY <2>8, <3>1 DEF Through
  <2> QED
    BY <2>7, <2>9, <2>10, <2>11
<1> QED
  BY <1>2, <1>3

\* A transaction starts with nothing written.
LEMMA BeginBooks ==
  ASSUME TypeOK, NEW r \in Requests, Begin(r)
  PROVE  Books(r)'
<1> DEFINE D == Differing(JobOf[r])
           M == Matching(JobOf[r])
<1>1. PICK s \in Orders(UntrackedIn(r, D)) :
        IF s = <<>> THEN Proceed(r, 0)
        ELSE /\ pc' = [pc EXCEPT ![r] = "baseline"]
             /\ left' = [left EXCEPT ![r] = s]
             /\ UNCHANGED posting
  BY DEF Begin
<1>2. items' = items /\ unseen' = unseen /\ writes' = writes /\ DOMAIN writes[r] = {}
  BY DEF Begin, database, snapshot, TypeOK, AtRest, Active
<1>3. Written(r)' = {}
  BY <1>2 DEF Written
<1>4. UntrackedIn(r, D) \subseteq Pools /\ UntrackedIn(r, D) \subseteq D
  BY ExpectedTyped DEF UntrackedIn
<1>5. /\ \A p \in UntrackedIn(r, D) : \E i \in 1..Len(s) : s[i] = p
      /\ \A i \in 1..Len(s) : s[i] \in UntrackedIn(r, D)
      /\ \A i, m \in 1..Len(s) : s[i] = s[m] => i = m
  BY <1>1, <1>4, OrdersCover
<1>6. ASSUME NEW p \in DOMAIN Expected[JobOf[r]]
      PROVE  p \in M \/ SeesRow(r, p) \/ p \in UntrackedIn(r, D)
  <2>1. Serializable(r)
    BY <1>6, OtherJobs, PostingIn
  <2> QED
    BY <1>6, <2>1 DEF Matching, UntrackedIn, SeesRow
<1>7. WritesAddUp(r)'
  BY <1>2 DEF WritesAddUp
<1>8. ASSUME \A p : Through(r, p)' = 0 PROVE AppliedIsWritten(r)'
  BY <1>8 DEF AppliedIsWritten
<1>9. CASE s = <<>>
  <2>1. Proceed(r, 0)
    BY <1>1, <1>9
  <2>2. UntrackedIn(r, D) = {}
    BY <1>5, <1>9
  <2>3. \A p \in DOMAIN Expected[JobOf[r]] : p \in Written(r)' \/ SeesRow(r, p) \/ p \in M
    BY <1>6, <2>2
  <2>4. 0 \in 0..Len(Postings[JobOf[r]])
    BY PostingIn
  <2>5. /\ BaselineKnown(r)' /\ BaselineOpen(r)' /\ LeftOnce(r)'
        /\ \A p : Through(r, p)' = 0
    BY <1>2, <1>3, <2>1, <2>3, <2>4, ProceedBooks
  <2> QED
    BY <1>7, <1>8, <2>5 DEF Books
<1>10. CASE s # <<>>
  <2>1. pc'[r] = "baseline" /\ left'[r] = s
    BY <1>1, <1>10 DEF TypeOK, PlaceOK
  <2>2. Waiting(r)' = UntrackedIn(r, D)
    BY <1>5, <2>1 DEF Waiting
  <2>3. \A p : SeesRow(r, p)' <=> SeesRow(r, p)
    BY <1>2, RowsStay DEF SeesRow
  <2>4. BaselineKnown(r)'
    BY <1>6, <2>1, <2>2, <2>3 DEF BaselineKnown, Matching, Differing
  <2>5. ASSUME NEW i \in 1..Len(left'[r])
        PROVE  left'[r][i] \in D /\ RowsOf(left[r][i])' \subseteq unseen'[r]
    <3>1. PICK p : p = left'[r][i]
      OBVIOUS
    <3>2. p \in UntrackedIn(r, D) /\ p \in D
      BY <1>4, <1>5, <2>1, <2>5, <3>1
    <3>3. RowsOf(p)' \subseteq unseen'[r]
      BY <1>2, <3>2, RowsStay DEF UntrackedIn
    <3> QED
      BY <3>1, <3>2, <3>3 DEF RowsOf
  <2>6. BaselineOpen(r)'
    BY <1>3, <2>1, <2>5 DEF BaselineOpen, Matching, Differing
  <2>7. LeftOnce(r)'
    BY <1>5, <2>1 DEF LeftOnce
  <2>8. \A p : Through(r, p)' = 0
    BY <2>1 DEF Through
  <2> QED
    BY <1>7, <1>8, <2>4, <2>6, <2>7, <2>8 DEF Books
<1> QED
  BY <1>9, <1>10

LEMMA NotSeenBooks ==
  ASSUME TypeOK, NEW r \in Requests, NotYetPosted(r), Books(r)
  PROVE  Books(r)'
<1>1. /\ pc[r] = "check" /\ pc'[r] = "register"
      /\ posting' = posting /\ left' = left /\ writes' = writes /\ items' = items /\ unseen' = unseen
  BY DEF NotYetPosted, database, snapshot, TypeOK, PlaceOK
<1>2. \A p : RowsOf(p)' = RowsOf(p) /\ OnHand(p)' = OnHand(p)
  BY <1>1, RowsStay
<1>3. Written(r)' = Written(r) /\ \A p : Through(r, p)' = Through(r, p)
  BY <1>1 DEF Written, Through
<1>4. \A p : Assumed(r, p)' = Assumed(r, p) /\ (SeesRow(r, p)' <=> SeesRow(r, p))
  BY <1>1, <1>2 DEF Assumed, SeesRow
<1>5. WritesAddUp(r)'
  BY <1>1, <1>2, <1>3, <1>4 DEF Books, WritesAddUp, Touched, NetUpTo
<1>6. AppliedIsWritten(r)'
  BY <1>3 DEF Books, AppliedIsWritten
<1>7. BaselineKnown(r)'
  BY <1>1, <1>3, <1>4 DEF Books, BaselineKnown, Matching, Differing
<1>8. BaselineOpen(r)'
  BY <1>1, <1>3 DEF Books, BaselineOpen, Matching, Differing
<1>9. LeftOnce(r)'
  BY <1>1 DEF Books, LeftOnce
<1> QED
  BY <1>5, <1>6, <1>7, <1>8, <1>9 DEF Books

\* What one locked write changes.
LEMMA OneWrite ==
  ASSUME SoleRows, SoleRows', NEW r \in Requests, NEW id, NEW v, LockAndWrite(r, id, v)
  PROVE  /\ items' = items /\ unseen' = unseen
         /\ DOMAIN writes'[r] = DOMAIN writes[r] \cup {id} /\ writes'[r][id] = v
         /\ \A i \in DOMAIN writes[r] \ {id} :
              writes'[r][i] = writes[r][i] /\ Pool(i) # Pool(id)
         /\ Written(r)' = Written(r) \cup {Pool(id)}
         /\ \A p : /\ RowsOf(p)' = RowsOf(p) /\ OnHand(p)' = OnHand(p)
                   /\ Assumed(r, p)' = Assumed(r, p) /\ (SeesRow(r, p)' <=> SeesRow(r, p))
<1>1. items' = items /\ unseen' = unseen
  BY DEF LockAndWrite, database, snapshot
<1>2. writes'[r] = [i \in DOMAIN writes[r] \cup {id} |-> IF i = id THEN v ELSE writes[r][i]]
  BY DEF LockAndWrite, SoleRows, RowInv, TypeOK, DataOK
<1>3. /\ DOMAIN writes'[r] = DOMAIN writes[r] \cup {id} /\ writes'[r][id] = v
      /\ \A i \in DOMAIN writes[r] \ {id} : writes'[r][i] = writes[r][i]
  BY <1>2
<1>4. \A i \in DOMAIN writes[r] \ {id} : Pool(i) # Pool(id)
  BY <1>3 DEF SoleRows, RowInv, OneRowSeen, Pool
<1>5. Written(r)' = Written(r) \cup {Pool(id)}
  <2>1. Written(r)' = {Pool(i) : i \in DOMAIN writes'[r]}
    BY DEF Written, Pool
  <2> QED
    BY <1>3, <2>1 DEF Written
<1>6. \A p : RowsOf(p)' = RowsOf(p) /\ OnHand(p)' = OnHand(p)
  BY <1>1, RowsStay
<1>7. \A p : Assumed(r, p)' = Assumed(r, p) /\ (SeesRow(r, p)' <=> SeesRow(r, p))
  BY <1>1, <1>6 DEF Assumed, SeesRow
<1> QED
  BY <1>1, <1>3, <1>4, <1>5, <1>6, <1>7

\* A write adds up if its own quantity does and nothing else has moved.
LEMMA WriteAddsUp ==
  ASSUME SoleRows, SoleRows', NEW r \in Requests, NEW id, NEW v, LockAndWrite(r, id, v),
         WritesAddUp(r), Pool(id) \in Touched(r),
         \A p \in Written(r) \ {Pool(id)} : Through(r, p)' = Through(r, p),
         v = OnHand(Pool(id)) + Assumed(r, Pool(id))
               + NetUpTo(JobOf[r], Pool(id), Through(r, Pool(id))')
  PROVE  WritesAddUp(r)'
<1>1. /\ DOMAIN writes'[r] = DOMAIN writes[r] \cup {id} /\ writes'[r][id] = v
      /\ \A i \in DOMAIN writes[r] \ {id} :
           writes'[r][i] = writes[r][i] /\ Pool(i) # Pool(id)
      /\ \A p : OnHand(p)' = OnHand(p) /\ Assumed(r, p)' = Assumed(r, p)
  BY OneWrite
<1>2. ASSUME NEW i \in DOMAIN writes'[r]
      PROVE  /\ Pool(i) \in Touched(r)
             /\ writes'[r][i] = OnHand(Pool(i))' + Assumed(r, Pool(i))'
                   + NetUpTo(JobOf[r], Pool(i), Through(r, Pool(i))')
  <2>1. PICK p : p = Pool(i)
    OBVIOUS
  <2>2. CASE i = id
    <3>1. /\ p \in Touched(r)
          /\ v = OnHand(p) + Assumed(r, p) + NetUpTo(JobOf[r], p, Through(r, p)')
      BY <2>1, <2>2 DEF Pool
    <3>2. /\ p \in Touched(r)
          /\ writes'[r][i] = OnHand(p)' + Assumed(r, p)' + NetUpTo(JobOf[r], p, Through(r, p)')
      BY <1>1, <2>2, <3>1
    <3> QED
      BY <2>1, <3>2 DEF Pool
  <2>3. CASE i # id
    <3>1. i \in DOMAIN writes[r] /\ p \in Written(r) \ {Pool(id)}
      BY <1>1, <1>2, <2>1, <2>3 DEF Written
    <3>2. /\ p \in Touched(r)
          /\ writes[r][i] = OnHand(p) + Assumed(r, p) + NetUpTo(JobOf[r], p, Through(r, p))
      BY <2>1, <3>1 DEF WritesAddUp
    <3>3. Through(r, p)' = Through(r, p) /\ writes'[r][i] = writes[r][i]
      BY <1>1, <2>3, <3>1
    <3>4. /\ p \in Touched(r)
          /\ writes'[r][i] = OnHand(p)' + Assumed(r, p)' + NetUpTo(JobOf[r], p, Through(r, p)')
      BY <1>1, <3>2, <3>3
    <3> QED
      BY <2>1, <3>4 DEF Pool
  <2> QED
    BY <2>2, <2>3
<1> QED
  BY <1>2 DEF WritesAddUp, Touched, Pool, NetUpTo, Share

\* The registered posting: every line is still to be written.
LEMMA RegisterBooks ==
  ASSUME TypeOK, TypeOK', NEW r \in Requests, CreateMovement(r), Books(r)
  PROVE  Books(r)'
<1> DEFINE m == posting[r]
           L == DOMAIN Lines(r)
<1>1. /\ pc[r] = "register" /\ pc'[r] = "lines" /\ posting' = posting
      /\ writes' = writes /\ items' = items /\ unseen' = unseen
  BY DEF CreateMovement, database, snapshot, TypeOK, PlaceOK
<1>2. PICK s \in PostingOrders(r) : left'[r] = s
  BY DEF CreateMovement, TypeOK, PlaceOK
<1>3. m \in 1..Len(Postings[JobOf[r]]) /\ m \in Nat \ {0}
  BY <1>1, PostingIn
<1>4. L \subseteq Pools
  BY <1>3, PostingsTyped DEF Lines
<1>5. s \in Orders(L)
  BY <1>2 DEF PostingOrders
<1>6. /\ \A p \in L : \E n \in 1..Len(s) : s[n] = p
      /\ \A n \in 1..Len(s) : s[n] \in L
      /\ \A i, n \in 1..Len(s) : s[i] = s[n] => i = n
  BY <1>4, <1>5, OrdersCover
<1>7. Waiting(r)' = L
  <2>1. Waiting(r)' = {s[n] : n \in 1..Len(s)}
    BY <1>2 DEF Waiting
  <2> HIDE DEF L
  <2> QED
    BY <1>6, <2>1
<1>8. \A p : /\ RowsOf(p)' = RowsOf(p) /\ OnHand(p)' = OnHand(p)
             /\ Assumed(r, p)' = Assumed(r, p) /\ (SeesRow(r, p)' <=> SeesRow(r, p))
  BY <1>1, RowsStay DEF Assumed, SeesRow
<1>9. Written(r)' = Written(r)
  BY <1>1 DEF Written
<1>10. \A p : Through(r, p) = m - 1 /\ Through(r, p)' = IF p \in L THEN m - 1 ELSE m
  BY <1>1, <1>7 DEF Through
<1>11. ASSUME NEW p \in Pools
       PROVE  NetUpTo(JobOf[r], p, Through(r, p)') = NetUpTo(JobOf[r], p, Through(r, p))
  <2>1. CASE p \in L
    BY <1>10, <2>1
  <2>2. CASE p \notin L
    <3>1. Share(JobOf[r], m, p) = 0
      BY <2>2 DEF Share, Lines
    <3>2. NetUpTo(JobOf[r], p, m) = NetUpTo(JobOf[r], p, m - 1)
      <4>1. /\ NetUpTo(JobOf[r], p, m) = NetUpTo(JobOf[r], p, m - 1) + Share(JobOf[r], m, p)
            /\ NetUpTo(JobOf[r], p, m - 1) \in Int
        BY <1>3, NetNext
      <4> QED
        BY <3>1, <4>1
    <3> QED
      BY <1>10, <2>2, <3>2
  <2> QED
    BY <2>1, <2>2
<1>12. WritesAddUp(r)'
  <2> SUFFICES ASSUME NEW i \in DOMAIN writes'[r]
               PROVE  /\ Pool(i) \in Touched(r)
                      /\ writes'[r][i] = OnHand(Pool(i))' + Assumed(r, Pool(i))'
                            + NetUpTo(JobOf[r], Pool(i), Through(r, Pool(i))')
    BY DEF WritesAddUp, Touched, Pool, NetUpTo, Share
  <2>1. PICK p : p = Pool(i)
    OBVIOUS
  <2>2. i \in DOMAIN writes[r] /\ p \in Pools
    BY <1>1, <2>1 DEF TypeOK, DataOK, Pool, RowIds
  <2>3. /\ p \in Touched(r)
        /\ writes[r][i] = OnHand(p) + Assumed(r, p) + NetUpTo(JobOf[r], p, Through(r, p))
    BY <2>1, <2>2 DEF Books, WritesAddUp
  <2>4. /\ p \in Touched(r)
        /\ writes'[r][i] = OnHand(p)' + Assumed(r, p)' + NetUpTo(JobOf[r], p, Through(r, p)')
    BY <1>1, <1>8, <1>11, <2>2, <2>3
  <2> QED
    BY <2>1, <2>4 DEF Pool
<1>13. AppliedIsWritten(r)'
  <2> SUFFICES ASSUME NEW k \in 1..Len(Postings[JobOf[r]]),
                      NEW p \in DOMAIN Postings[JobOf[r]][k], k <= Through(r, p)'
               PROVE  p \in Written(r)'
    BY DEF AppliedIsWritten
  <2>1. k # m
    BY <1>3, <1>10 DEF Lines
  <2>2. k <= Through(r, p)
    BY <1>3, <1>10, <2>1
  <2> QED
    BY <1>9, <2>2 DEF Books, AppliedIsWritten
<1>14. BaselineKnown(r)'
  BY <1>1, <1>8, <1>9 DEF Books, BaselineKnown, Matching, Differing
<1>15. BaselineOpen(r)'
  BY <1>1, <1>9 DEF Books, BaselineOpen, Matching, Differing
<1>16. LeftOnce(r)'
  BY <1>2, <1>6 DEF LeftOnce
<1> QED
  BY <1>12, <1>13, <1>14, <1>15, <1>16 DEF Books

\* The pool at the head of the line is waited for once.
LEMMA HeadWaits ==
  ASSUME TypeOK, NEW r \in Requests, left[r] # <<>>, LeftOnce(r)
  PROVE  /\ Head(left[r]) \in Waiting(r)
         /\ Len(left[r]) \in Nat /\ 1 \in 1..Len(left[r]) /\ Head(left[r]) = left[r][1]
         /\ ~ (Len(left[r]) > 1) => Waiting(r) = {Head(left[r])}
         /\ left'[r] = Tail(left[r]) =>
              /\ Waiting(r)' = Waiting(r) \ {Head(left[r])}
              /\ LeftOnce(r)'
              /\ \A n \in 1..Len(left'[r]) :
                   /\ n + 1 \in 1..Len(left[r]) /\ left'[r][n] = left[r][n + 1]
                   /\ left'[r][n] # Head(left[r])
<1> DEFINE s == left[r]
           t == Tail(s)
<1>1. s \in Seq(Pools) /\ s # <<>>
  BY DEF TypeOK, PlaceOK
<1>2. /\ Len(s) \in Nat \ {0} /\ Head(s) = s[1]
      /\ Len(t) = Len(s) - 1 /\ \A n \in 1..Len(t) : t[n] = s[n + 1]
  BY <1>1, HeadTailProperties, LenProperties
<1>3. \A m, n \in 1..Len(s) : s[m] = s[n] => m = n
  BY DEF LeftOnce
<1>4. Waiting(r) = {s[n] : n \in 1..Len(s)}
  BY DEF Waiting
<1>5. left'[r] = t => Waiting(r)' = {t[n] : n \in 1..Len(t)}
  BY DEF Waiting
<1>6. left'[r] = t => (LeftOnce(r)' <=> \A m, n \in 1..Len(t) : t[m] = t[n] => m = n)
  BY DEF LeftOnce
<1>7. ~ (Len(s) > 1) => Waiting(r) = {Head(s)}
  <2> SUFFICES ASSUME ~ (Len(s) > 1) PROVE Waiting(r) = {Head(s)}
    OBVIOUS
  <2> HIDE DEF s
  <2>1. Len(s) = 1
    BY <1>2
  <2> QED
    BY <1>2, <1>4, <2>1
<1> HIDE DEF s, t
<1>8. 1 \in 1..Len(s) /\ Head(s) \in Waiting(r)
  BY <1>2, <1>4
<1>9. ASSUME NEW n \in 1..Len(t)
      PROVE  n + 1 \in 1..Len(s) /\ t[n] = s[n + 1] /\ t[n] # Head(s)
  <2>1. n + 1 \in 1..Len(s) /\ n + 1 # 1
    BY <1>2
  <2> QED
    BY <1>2, <1>3, <1>8, <2>1
<1>10. {t[n] : n \in 1..Len(t)} = Waiting(r) \ {Head(s)}
  <2>1. ASSUME NEW x \in Waiting(r), x # Head(s) PROVE \E n \in 1..Len(t) : x = t[n]
    <3>1. PICK m \in 1..Len(s) : x = s[m]
      BY <1>4
    <3>2. m # 1 /\ m - 1 \in 1..Len(t) /\ (m - 1) + 1 = m
      BY <1>2, <2>1, <3>1
    <3> QED
      BY <1>2, <3>1, <3>2
  <2>2. \A n \in 1..Len(t) : t[n] \in Waiting(r)
    BY <1>4, <1>9
  <2> QED
    BY <1>9, <2>1, <2>2
<1>11. \A m, n \in 1..Len(t) : t[m] = t[n] => m = n
  <2> SUFFICES ASSUME NEW m \in 1..Len(t), NEW n \in 1..Len(t), t[m] = t[n] PROVE m = n
    OBVIOUS
  <2>1. m + 1 = n + 1
    BY <1>3, <1>9
  <2> QED
    BY <1>2, <2>1
<1>12. left'[r] = t => /\ Waiting(r)' = Waiting(r) \ {Head(s)} /\ LeftOnce(r)'
                       /\ \A n \in 1..Len(left'[r]) :
                            /\ n + 1 \in 1..Len(s) /\ left'[r][n] = s[n + 1]
                            /\ left'[r][n] # Head(s)
  BY <1>5, <1>6, <1>9, <1>10, <1>11
<1> QED
  BY <1>2, <1>7, <1>8, <1>12 DEF s, t

\* A line's new quantity: what the posting adds to what was there.
LEMMA LineQuantity ==
  ASSUME FirstRowsAgree, SoleRows, NEW r \in Requests, pc[r] = "lines", Books(r),
         NEW p, p = Head(left[r]), NEW id \in Targets(r, p), ~ Conflicts(r, id)
  PROVE  /\ OnHandSeen(r, id) + Lines(r)[p]
              = OnHand(p) + Assumed(r, p) + NetUpTo(JobOf[r], p, posting[r])
         /\ p \in DOMAIN Lines(r) /\ Pool(id) = p
<1> DEFINE m == posting[r]
<1>0. TypeOK
  BY DEF SoleRows, RowInv
<1>1. left[r] \in Seq(DOMAIN Lines(r)) /\ left[r] # <<>>
  BY <1>0 DEF TypeOK, PlaceOK
<1>2. p \in DOMAIN Lines(r) /\ p \in Pools /\ p \in Touched(r)
  BY <1>0, <1>1, HeadTailProperties, HeadTyped
<1>3. Pool(id) = p
  BY <1>0, <1>2, TargetTyped
<1>4. p \in Waiting(r) /\ Through(r, p) = m - 1
  <2>1. p \in Waiting(r)
    BY <1>0, <1>1, HeadWaits DEF Books
  <2> QED
    BY <2>1 DEF Through
<1>5. m \in 1..Len(Postings[JobOf[r]])
  BY <1>0, PostingIn
<1>6. /\ NetUpTo(JobOf[r], p, m) = NetUpTo(JobOf[r], p, m - 1) + Lines(r)[p]
      /\ NetUpTo(JobOf[r], p, m - 1) \in Int /\ Lines(r)[p] \in Int
  <2>1. Share(JobOf[r], m, p) = Lines(r)[p]
    BY <1>2 DEF Share, Lines
  <2>2. Share(JobOf[r], m, p) \in Int
    BY <1>5, SharesTyped
  <2> QED
    BY <1>5, <2>1, <2>2, NetNext
<1>7. OnHand(p) \in Int
  BY OnHandTyped
<1>8. Assumed(r, p) \in Int
  BY ExpectedTyped DEF Assumed
<1>9. OnHandSeen(r, id) = OnHand(p) + Assumed(r, p) + NetUpTo(JobOf[r], p, m - 1)
  <2>1. CASE p \in Written(r)
    <3>1. PICK i \in DOMAIN writes[r] : Pool(i) = p
      BY <2>1 DEF Written
    <3>2. id \in DOMAIN items \cup DOMAIN writes[r]
      BY <3>1 DEF Targets, RowsSeen, RowsOf
    <3>3. id = i
      BY <1>3, <3>1, <3>2 DEF SoleRows, RowInv, OneRowSeen
    <3>4. OnHandSeen(r, id) = writes[r][i]
      BY <3>1, <3>3 DEF OnHandSeen
    <3>5. writes[r][i] = OnHand(p) + Assumed(r, p) + NetUpTo(JobOf[r], p, Through(r, p))
      BY <3>1 DEF Books, WritesAddUp
    <3> QED
      BY <1>4, <3>4, <3>5
  <2>2. CASE p \notin Written(r)
    <3>1. NetUpTo(JobOf[r], p, m - 1) = 0
      BY <1>0, <1>4, <2>2, Unreached DEF Books
    <3>2. \A i \in DOMAIN writes[r] : Pool(i) # p
      BY <2>2 DEF Written
    <3>3. OnHandSeen(r, id) = OnHand(p)
      <4>1. id \notin DOMAIN writes[r]
        BY <1>3, <3>2
      <4>2. CASE RowsSeen(r, p) = {}
        <5>1. \A b \in DOMAIN items : Pool(b) # p
          BY <1>2, <1>3, <4>2, CreatesFirst DEF SoleRows
        <5>2. RowsOf(p) = {} /\ id \notin DOMAIN items
          BY <1>3, <5>1 DEF RowsOf
        <5> QED
          BY <4>1, <5>2 DEF OnHand, OnHandSeen
      <4>3. CASE RowsSeen(r, p) # {}
        <5>1. id \in RowsOf(p)
          BY <3>2, <4>3 DEF Targets, RowsSeen
        <5>2. OnHand(p) = items[id] /\ id \in DOMAIN items
          BY <5>1, OnHandIs DEF RowsOf
        <5> QED
          BY <4>1, <5>2 DEF OnHandSeen
      <4> QED
        BY <4>2, <4>3
    <3>4. Assumed(r, p) = 0
      <4> SUFFICES ASSUME p \in DOMAIN Expected[JobOf[r]] PROVE RowsOf(p) # {}
        BY DEF Assumed
      <4>1. p \notin Matching(JobOf[r])
        BY <1>0, <1>2, <1>5, LinesDiffer DEF Lines
      <4>2. SeesRow(r, p)
        BY <2>2, <4>1 DEF Books, BaselineKnown
      <4> QED
        BY <4>2 DEF SeesRow
    <3> QED
      BY <1>7, <3>1, <3>3, <3>4
  <2> QED
    BY <2>1, <2>2
<1> QED
  BY <1>2, <1>3, <1>6, <1>7, <1>8, <1>9

LEMMA LineBooks ==
  ASSUME FirstRowsAgree, SoleRows, SoleRows', NEW r \in Requests, PostLine(r), Books(r)
  PROVE  Books(r)'
<1> PICK p : p = Head(left[r])
  OBVIOUS
<1> PICK m : m = posting[r]
  OBVIOUS
<1>0. TypeOK /\ pc[r] = "lines" /\ left[r] # <<>> /\ LeftOnce(r)
  BY DEF SoleRows, RowInv, PostLine, TypeOK, PlaceOK, Books
<1>1. PICK id \in Targets(r, p) :
        ~ Conflicts(r, id) /\ LockAndWrite(r, id, OnHandSeen(r, id) + Lines(r)[p])
  BY DEF PostLine
<1>2. /\ OnHandSeen(r, id) + Lines(r)[p]
           = OnHand(p) + Assumed(r, p) + NetUpTo(JobOf[r], p, m)
      /\ p \in DOMAIN Lines(r) /\ Pool(id) = p
  BY <1>0, <1>1, LineQuantity
<1>3. p \in Touched(r)
  BY <1>0, HeadTyped
<1>4. m \in 1..Len(Postings[JobOf[r]]) /\ Len(Postings[JobOf[r]]) \in Nat
  BY <1>0, PostingIn
<1>5. /\ items' = items /\ unseen' = unseen
      /\ Written(r)' = Written(r) \cup {p}
      /\ \A q : SeesRow(r, q)' <=> SeesRow(r, q)
      /\ \A q : RowsOf(q)' = RowsOf(q)
  BY <1>1, <1>2, OneWrite
<1>6. p \notin Matching(JobOf[r])
  BY <1>0, <1>2, <1>4, LinesDiffer DEF Lines
<1>7. Written(r) \cap Matching(JobOf[r]) = {}
  BY <1>0 DEF Books, BaselineOpen
<1>8. \A q \in DOMAIN Expected[JobOf[r]] :
        q \in Written(r)' \/ SeesRow(r, q) \/ q \in Matching(JobOf[r])
  BY <1>0, <1>5 DEF Books, BaselineKnown
<1>9. /\ BaselineKnown(r)' /\ BaselineOpen(r)' /\ LeftOnce(r)'
      /\ Through(r, p)' = m
      /\ \A q : q # p => Through(r, q)' = Through(r, q)
  <2>1. CASE Len(left[r]) > 1
    <3>1. left' = [left EXCEPT ![r] = Tail(left[r])] /\ UNCHANGED <<pc, posting>>
      BY <2>1 DEF PostLine
    <3>2. left'[r] = Tail(left[r]) /\ pc'[r] = "lines" /\ posting'[r] = m
      BY <1>0, <3>1 DEF TypeOK, PlaceOK
    <3>3. Waiting(r)' = Waiting(r) \ {p} /\ LeftOnce(r)'
      BY <1>0, <3>2, HeadWaits
    <3>4. Through(r, p)' = m /\ \A q : q # p => Through(r, q)' = Through(r, q)
      <4>1. \A q : /\ Through(r, q) = IF q \in Waiting(r) THEN m - 1 ELSE m
                   /\ Through(r, q)' = IF q \in Waiting(r)' THEN m - 1 ELSE m
        BY <1>0, <3>2 DEF Through
      <4> QED
        BY <3>3, <4>1
    <3>5. BaselineKnown(r)'
      BY <1>5, <1>8, <3>2 DEF BaselineKnown, Matching, Differing
    <3>6. BaselineOpen(r)'
      BY <1>5, <1>6, <1>7, <3>2 DEF BaselineOpen, Matching, Differing
    <3> QED
      BY <3>3, <3>4, <3>5, <3>6
  <2>2. CASE ~ (Len(left[r]) > 1)
    <3>1. Proceed(r, m)
      BY <2>2 DEF PostLine
    <3>2. Waiting(r) = {p}
      BY <1>0, <2>2, HeadWaits
    <3>3. m \in 0..Len(Postings[JobOf[r]])
      BY <1>4
    <3>4. /\ BaselineKnown(r)' /\ BaselineOpen(r)' /\ LeftOnce(r)'
          /\ \A q : Through(r, q)' = m
      BY <1>0, <1>5, <1>6, <1>7, <1>8, <3>1, <3>3, ProceedBooks
    <3>5. \A q : q # p => Through(r, q) = m
      BY <1>0, <3>2 DEF Through
    <3> QED
      BY <3>4, <3>5
  <2> QED
    BY <2>1, <2>2
<1>10. WritesAddUp(r)'
  <2>1. \A q \in Written(r) \ {Pool(id)} : Through(r, q)' = Through(r, q)
    BY <1>2, <1>9
  <2>2. OnHandSeen(r, id) + Lines(r)[p] = OnHand(Pool(id)) + Assumed(r, Pool(id))
          + NetUpTo(JobOf[r], Pool(id), Through(r, p)')
    BY <1>2, <1>9
  <2>3. PICK n : n = Through(r, p)'
    OBVIOUS
  <2>4. n = Through(r, Pool(id))'
    BY <1>2, <2>3 DEF Through, Waiting, Pool
  <2>5. WritesAddUp(r) /\ Pool(id) \in Touched(r)
    BY <1>2, <1>3 DEF Books
  <2>6. OnHandSeen(r, id) + Lines(r)[p] = OnHand(Pool(id)) + Assumed(r, Pool(id))
          + NetUpTo(JobOf[r], Pool(id), Through(r, Pool(id))')
    BY <2>2, <2>3, <2>4
  <2> QED
    BY <1>1, <2>1, <2>5, <2>6, WriteAddsUp
<1>11. AppliedIsWritten(r)'
  BY <1>5, <1>9 DEF Books, AppliedIsWritten
<1> QED
  BY <1>9, <1>10, <1>11 DEF Books

\* A count's baseline goes to a pool without a row.
LEMMA BaselineBooks ==
  ASSUME FirstRowsAgree, SoleRows, SoleRows', NEW r \in Requests, SetBaseline(r), Books(r)
  PROVE  Books(r)'
<1> PICK p : p = Head(left[r])
  OBVIOUS
<1> DEFINE E == Expected[JobOf[r]]
           M == Matching(JobOf[r])
           D == Differing(JobOf[r])
           n == Len(Postings[JobOf[r]])
<1>0. /\ TypeOK /\ pc[r] \in {"baseline", "after"} /\ left[r] # <<>> /\ LeftOnce(r)
      /\ JobOf[r] \in Counts
  <2>1. TypeOK /\ pc[r] \in {"baseline", "after"} /\ LeftOnce(r)
    BY DEF SoleRows, RowInv, SetBaseline, Books
  <2> QED
    BY <2>1, CountWaits DEF TypeOK, PlaceOK
<1>1. PICK id \in Targets(r, p) : ~ Conflicts(r, id) /\ LockAndWrite(r, id, E[p])
  BY DEF SetBaseline
<1>2. p \in Pools /\ p \in Touched(r)
  BY <1>0, HeadTyped
<1>3. Pool(id) = p
  BY <1>0, <1>1, <1>2, TargetTyped
<1>4. /\ p \notin Written(r) /\ RowsOf(p) \subseteq unseen[r]
      /\ p \in (IF pc[r] = "baseline" THEN D ELSE M)
  <2>1. 1 \in 1..Len(left[r]) /\ p = left[r][1]
    BY <1>0, HeadWaits
  <2> QED
    BY <1>0, <2>1 DEF Books, BaselineOpen
<1>5. n \in {0, 1} /\ Serializable(r) /\ (D # {} => n = 1) /\ D \cap M = {}
  BY <1>0, PostingIn DEF Differing, Matching
<1>6. p \in DOMAIN E /\ E[p] \in Int
  BY <1>4, ExpectedTyped
<1>7. RowsOf(p) = {}
  <2>1. RowsSeen(r, p) = {}
    BY <1>4, <1>5 DEF RowsSeen, Written
  <2>2. \A b \in DOMAIN items : Pool(b) # p
    BY <1>1, <1>2, <1>3, <2>1, CreatesFirst DEF SoleRows
  <2> QED
    BY <2>2 DEF RowsOf
<1>8. OnHand(p) = 0 /\ Assumed(r, p) = E[p]
  BY <1>6, <1>7 DEF OnHand, Assumed
<1>9. /\ items' = items /\ unseen' = unseen
      /\ Written(r)' = Written(r) \cup {p}
      /\ \A q : SeesRow(r, q)' <=> SeesRow(r, q)
      /\ \A q : RowsOf(q)' = RowsOf(q)
  BY <1>1, <1>3, OneWrite
<1>10. NetUpTo(JobOf[r], p, Through(r, p)) = 0
  BY <1>0, <1>4, Unreached DEF Books
<1>11. /\ BaselineKnown(r)' /\ BaselineOpen(r)' /\ LeftOnce(r)'
       /\ \A q : Through(r, q)' = Through(r, q)
  <2>1. CASE Len(left[r]) > 1
    <3>1. left' = [left EXCEPT ![r] = Tail(left[r])] /\ UNCHANGED <<pc, posting>>
      BY <2>1 DEF SetBaseline
    <3>2. left'[r] = Tail(left[r]) /\ pc'[r] = pc[r]
      BY <1>0, <3>1 DEF TypeOK, PlaceOK
    <3>3. /\ Waiting(r)' = Waiting(r) \ {p} /\ LeftOnce(r)'
          /\ \A i \in 1..Len(left'[r]) :
               i + 1 \in 1..Len(left[r]) /\ left'[r][i] = left[r][i + 1] /\ left'[r][i] # p
      BY <1>0, <3>2, HeadWaits
    <3>4. \A q : Through(r, q)' = Through(r, q)
      BY <1>0, <3>2 DEF Through
    <3>5. BaselineKnown(r)'
      BY <1>9, <3>2, <3>3 DEF Books, BaselineKnown, Matching, Differing
    <3>6. ASSUME NEW i \in 1..Len(left'[r])
          PROVE  /\ left'[r][i] \notin Written(r)' /\ RowsOf(left[r][i])' \subseteq unseen'[r]
                 /\ left'[r][i] \in (IF pc'[r] = "baseline" THEN D ELSE M)
      <4>1. PICK q : q = left'[r][i]
        OBVIOUS
      <4>2. /\ q \notin Written(r) /\ RowsOf(q) \subseteq unseen[r] /\ q # p
            /\ q \in (IF pc[r] = "baseline" THEN D ELSE M)
        BY <1>0, <3>3, <3>6, <4>1 DEF Books, BaselineOpen
      <4>3. RowsOf(q)' \subseteq unseen'[r]
        BY <1>9, <4>2
      <4> QED
        BY <1>9, <3>2, <4>1, <4>2, <4>3 DEF RowsOf
    <3>7. pc'[r] \notin {"after", "commit"} => Written(r)' \cap M = {}
      BY <1>0, <1>4, <1>5, <1>9, <3>2 DEF Books, BaselineOpen
    <3>8. BaselineOpen(r)'
      BY <3>6, <3>7 DEF BaselineOpen, Matching, Differing
    <3> QED
      BY <3>3, <3>4, <3>5, <3>8
  <2>2. CASE ~ (Len(left[r]) > 1) /\ pc[r] = "baseline"
    <3>1. Proceed(r, 0)
      BY <2>2 DEF SetBaseline
    <3>2. Waiting(r) = {p}
      BY <1>0, <2>2, HeadWaits
    <3>3. 0 \in 0..n
      BY <1>5
    <3>4. \A q \in DOMAIN E : q \in Written(r)' \/ SeesRow(r, q) \/ q \in M
      BY <1>9, <3>2 DEF Books, BaselineKnown
    <3>5. Written(r)' \cap M = {}
      BY <1>4, <1>5, <1>9, <2>2 DEF Books, BaselineOpen
    <3>6. /\ BaselineKnown(r)' /\ BaselineOpen(r)' /\ LeftOnce(r)'
          /\ \A q : Through(r, q)' = 0
      BY <1>0, <1>9, <3>1, <3>3, <3>4, <3>5, ProceedBooks
    <3>7. \A q : Through(r, q) = 0
      BY <2>2 DEF Through
    <3> QED
      BY <3>6, <3>7
  <2>3. CASE ~ (Len(left[r]) > 1) /\ pc[r] # "baseline"
    <3>1. /\ pc[r] = "after" /\ pc'[r] = "commit" /\ left'[r] = <<>>
      BY <1>0, <2>3 DEF SetBaseline, TypeOK, PlaceOK
    <3>2. Waiting(r) = {p}
      BY <1>0, <2>3, HeadWaits
    <3>3. \A q : Through(r, q)' = Through(r, q)
      BY <3>1 DEF Through
    <3>4. BaselineKnown(r)'
      BY <1>9, <3>1, <3>2 DEF Books, BaselineKnown, Matching, Differing
    <3>5. BaselineOpen(r)'
      BY <3>1 DEF BaselineOpen
    <3>6. LeftOnce(r)'
      BY <3>1 DEF LeftOnce
    <3> QED
      BY <3>3, <3>4, <3>5, <3>6
  <2> QED
    BY <2>1, <2>2, <2>3
<1>12. WritesAddUp(r)'
  <2>1. PICK k : k = Through(r, p)
    OBVIOUS
  <2>2. k = Through(r, Pool(id))'
    <3>1. k = Through(r, p)'
      BY <1>11, <2>1
    <3> QED
      BY <1>3, <3>1 DEF Through, Waiting, Pool
  <2>3. E[p] = OnHand(p) + Assumed(r, p) + NetUpTo(JobOf[r], p, k)
    BY <1>6, <1>8, <1>10, <2>1
  <2>4. E[p] = OnHand(Pool(id)) + Assumed(r, Pool(id))
          + NetUpTo(JobOf[r], Pool(id), Through(r, Pool(id))')
    BY <1>3, <2>2, <2>3
  <2>5. WritesAddUp(r) /\ Pool(id) \in Touched(r)
        /\ \A q \in Written(r) \ {Pool(id)} : Through(r, q)' = Through(r, q)
    BY <1>2, <1>3, <1>11 DEF Books
  <2> QED
    BY <1>1, <2>4, <2>5, WriteAddsUp
<1>13. AppliedIsWritten(r)'
  BY <1>9, <1>11 DEF Books, AppliedIsWritten
<1> QED
  BY <1>11, <1>12, <1>13 DEF Books

LEMMA OwnBooks ==
  ASSUME FirstRowsAgree, SoleRows, SoleRows', KeysInv, NEW r \in Requests, NextOf(r), ~ Commit(r),
         BooksOK(r)
  PROVE  BooksOK(r)'
<1>0. TypeOK /\ TypeOK'
  BY DEF SoleRows, RowInv
<1> SUFFICES ASSUME Begin(r) \/ pc[r] \in Active PROVE Replays(r)' \/ Books(r)' \/ pc'[r] \notin Active
  <2>1. ASSUME ~ Begin(r), pc[r] \notin Active PROVE FALSE
    <3>1. \A S \in SUBSET Requests : r \in S => ~ Deadlocked(S)
      <4> SUFFICES ASSUME NEW S \in SUBSET Requests, r \in S, Deadlocked(S) PROVE FALSE
        OBVIOUS
      <4>1. pc[r] \in {"baseline", "lines", "after", "register"}
        BY DEF Deadlocked, WaitsFor, WaitsForLock, WaitsForKey
      <4> QED
        BY <2>1, <4>1 DEF Active
    <3> QED
      BY <2>1, <3>1 DEF NextOf, Step, SetBaseline, AlreadyPosted, NotYetPosted, CreateMovement,
                        CreateMovementFails, PostLine, WriteConflicts, DeadlockVictim,
                        TransactionFails, FalseConflict, Active
  <2> QED
    BY <2>1 DEF BooksOK
<1>1. CASE Begin(r)
  BY <1>0, <1>1, BeginBooks
<1>2. ASSUME Refuse(r) \/ RetryOrRefuse(r) PROVE pc'[r] \notin Active
  BY <1>0, <1>2, Ended DEF Active
<1>3. CASE AlreadyPosted(r) /\ JobOf[r] \notin Counts
  <2>1. pc[r] = "check" /\ Replays(r)
    BY <1>0, <1>3, FindsJobDone DEF SoleRows, RowInv, AlreadyPosted
  <2> QED
    BY <1>0, <1>3, <2>1, ReplayGoesOn DEF SoleRows, RowInv
<1>4. CASE NotYetPosted(r)
  <2>1. ~ Replays(r) /\ pc[r] = "check"
    BY <1>0, <1>4, NotSeenKeepsKeys DEF NotYetPosted
  <2>2. Books(r)
    BY <2>1 DEF BooksOK, Active
  <2> QED
    BY <1>0, <1>4, <2>2, NotSeenBooks
<1>5. CASE SetBaseline(r) \/ CreateMovement(r) \/ PostLine(r)
  <2>1. ~ Replays(r) /\ pc[r] \in Active
    BY <1>5 DEF Replays, SetBaseline, CreateMovement, PostLine, Active
  <2>2. Books(r)
    BY <2>1 DEF BooksOK
  <2> QED
    BY <1>0, <1>5, <2>2, BaselineBooks, RegisterBooks, LineBooks
<1> QED
  BY <1>1, <1>2, <1>3, <1>4, <1>5, EndKinds DEF NextOf, Step

\* What a commit that does not replay adds: the count's baseline where nothing
\* was known, and all postings of the job.
LEMMA CommitAdds ==
  ASSUME SoleRows, NEW r \in Requests, Commit(r), Books(r), NEW p \in Pools
  PROVE  /\ OnHand(p)' = OnHand(p) + Assumed(r, p)
                           + NetUpTo(JobOf[r], p, Len(Postings[JobOf[r]]))
         /\ RowsOf(p)' # {} <=> RowsOf(p) # {} \/ p \in Touched(r)
<1> DEFINE n == Len(Postings[JobOf[r]])
           N == NetUpTo(JobOf[r], p, n)
<1>0. TypeOK /\ pc[r] = "commit"
  BY DEF SoleRows, RowInv, Commit
<1>1. Through(r, p) = n
  BY <1>0 DEF Through
<1>2. /\ DOMAIN items' = DOMAIN items \cup DOMAIN writes[r]
      /\ \A id \in DOMAIN items' :
           items'[id] = IF id \in DOMAIN writes[r] THEN writes[r][id] ELSE items[id]
  BY DEF Commit
<1>3. RowsOf(p)' = RowsOf(p) \cup {id \in DOMAIN writes[r] : Pool(id) = p}
  BY <1>2 DEF RowsOf, Pool
<1>4. CASE p \in Written(r)
  <2>1. PICK id \in DOMAIN writes[r] : Pool(id) = p
    BY <1>4 DEF Written
  <2>2. \A i \in RowsOf(p)' : i = id
    BY <1>3, <2>1 DEF SoleRows, RowInv, OneRowSeen, RowsOf
  <2>3. id \in RowsOf(p)'
    BY <1>3, <2>1
  <2>4. OnHand(p)' = items'[id]
    BY <2>2, <2>3 DEF OnHand
  <2>5. items'[id] = writes[r][id]
    BY <1>2, <2>1
  <2>6. writes[r][id] = OnHand(p) + Assumed(r, p) + N /\ p \in Touched(r)
    BY <1>1, <2>1 DEF Books, WritesAddUp
  <2> QED
    BY <2>3, <2>4, <2>5, <2>6
<1>5. CASE p \notin Written(r)
  <2>1. {id \in DOMAIN writes[r] : Pool(id) = p} = {}
    BY <1>5 DEF Written
  <2>2. RowsOf(p)' = RowsOf(p)
    BY <1>3, <2>1
  <2>3. \A id \in RowsOf(p) : items'[id] = items[id]
    BY <1>2, <2>1 DEF RowsOf
  <2>4. OnHand(p)' = OnHand(p)
    BY <2>2, <2>3 DEF OnHand
  <2>5. N = 0
    BY <1>0, <1>1, <1>5, Unreached DEF Books
  <2>6. \A k \in 1..n : p \notin DOMAIN Postings[JobOf[r]][k]
    BY <1>1, <1>5, PostingIn, <1>0 DEF Books, AppliedIsWritten
  <2>7. p \in DOMAIN Expected[JobOf[r]] => RowsOf(p) # {}
    BY <1>0, <1>5 DEF Books, BaselineKnown, SeesRow
  <2>8. Assumed(r, p) = 0
    BY <2>7 DEF Assumed
  <2>9. p \in Touched(r) => RowsOf(p) # {}
    BY <2>6, <2>7 DEF Touched
  <2>10. OnHand(p) \in Int
    BY OnHandTyped
  <2> QED
    BY <2>2, <2>4, <2>5, <2>8, <2>9, <2>10
<1> QED
  BY <1>4, <1>5

LEMMA CommitBooksJob ==
  ASSUME TypeOK, NEW r \in Requests, Commit(r)
  PROVE  Booked' = Booked \cup {JobOf[r]}
<1>1. \A q \in Requests \ {r} : pc'[q] = pc[q]
  BY OthersKeep DEF NextOf, Step
<1>2. pc'[r] = "done"
  BY DEF Commit, TypeOK, PlaceOK
<1>3. \A q \in Requests : pc'[q] = "done" <=> pc[q] = "done" \/ q = r
  BY <1>1, <1>2
<1> QED
  BY <1>3 DEF Booked

LEMMA BookedStays ==
  ASSUME TypeOK, NEW r \in Requests, NextOf(r), ~ Commit(r)
  PROVE  Booked' = Booked
<1>1. \A q \in Requests : pc'[q] = "done" <=> pc[q] = "done"
  BY DatabaseStays, OthersKeep
<1> QED
  BY <1>1 DEF Booked

LEMMA NextBooks ==
  ASSUME FirstRowsAgree
  PROVE  LedgerInv /\ SoleRows' /\ [Next]_vars => LedgerInv'
<1> SUFFICES ASSUME LedgerInv, SoleRows', [Next]_vars PROVE LedgerInv'
  OBVIOUS
<1>1. SoleRows /\ SoleRows' /\ KeysInv /\ KeysInv' /\ TypeOK /\ TypeOK'
  <2>1. SoleRows /\ RowInv /\ KeysInv /\ TypeOK
    BY DEF LedgerInv, SoleRows, RowInv
  <2>2. KeysInv' /\ TypeOK'
    BY <2>1, NextKeys, NextTyped
  <2> QED
    BY <2>1, <2>2
<1>2. CASE UNCHANGED vars
  <2>1. ASSUME NEW q \in Requests PROVE BooksOK(q)'
    <3>1. BooksOK(q)
      BY DEF LedgerInv
    <3>2. /\ pc' = pc /\ posting' = posting /\ left' = left /\ writes' = writes
          /\ items' = items /\ unseen' = unseen /\ keys' = keys
          /\ movements' = movements /\ unseenKeys' = unseenKeys
      BY <1>2 DEF vars
    <3>3. Replays(q) => Replays(q)'
      BY <3>2 DEF Replays, Serializable, JobKeys
    <3>4. Books(q) => Books(q)'
      BY <3>2, BooksStay
    <3> QED
      BY <3>1, <3>2, <3>3, <3>4 DEF BooksOK
  <2>2. DoneIsTracked'
    BY <1>2 DEF vars, LedgerInv, DoneIsTracked, Booked, RowsOf
  <2> QED
    BY <1>1, <2>1, <2>2 DEF LedgerInv
<1>3. CASE Next
  <2>1. PICK r \in Requests : NextOf(r)
    BY <1>3 DEF Next, NextOf
  <2>2. CASE ~ Commit(r)
    <3>1. ASSUME NEW q \in Requests PROVE BooksOK(q)'
      <4>1. CASE q = r
        BY <1>1, <2>1, <2>2, <4>1, OwnBooks DEF LedgerInv
      <4>2. CASE q # r
        <5>1. /\ pc'[q] = pc[q] /\ keys'[q] = keys[q] /\ writes'[q] = writes[q]
              /\ movements' = movements /\ unseenKeys'[q] = unseenKeys[q]
          BY <1>1, <2>1, <2>2, <4>2, OthersKeep, DatabaseStays
        <5>2. Replays(q) => Replays(q)'
          BY <5>1 DEF Replays, Serializable, JobKeys
        <5>3. Books(q) => Books(q)'
          BY <1>1, <2>1, <2>2, <4>2, OthersBooks
        <5>4. pc[q] \in Active => Replays(q) \/ Books(q)
          BY DEF LedgerInv, BooksOK
        <5>5. pc'[q] \in Active => Replays(q)' \/ Books(q)'
          BY <5>1, <5>2, <5>3, <5>4
        <5> QED
          BY <5>5 DEF BooksOK
      <4> QED
        BY <4>1, <4>2
    <3>2. DoneIsTracked'
      <4>1. Booked' = Booked /\ \A p : RowsOf(p)' = RowsOf(p)
        BY <1>1, <2>1, <2>2, BookedStays, DatabaseStays, RowsStay
      <4> QED
        BY <4>1 DEF LedgerInv, DoneIsTracked
    <3> QED
      BY <1>1, <3>1, <3>2 DEF LedgerInv
  <2>3. CASE Commit(r)
    <3>1. pc[r] = "commit" /\ pc'[r] = "done"
      BY <1>1, <2>3 DEF Commit, TypeOK, PlaceOK
    <3>2. ASSUME NEW q \in Requests PROVE BooksOK(q)'
      <4>1. CASE q = r
        BY <3>1, <4>1 DEF BooksOK, Active
      <4>2. CASE q # r
        <5>1. pc'[q] = pc[q]
          BY <1>1, <2>1, <4>2, OthersKeep
        <5>2. ASSUME pc[q] \in Active, Replays(q) PROVE Replays(q)' \/ Books(q)'
          <6>1. /\ keys'[q] = keys[q] /\ writes'[q] = writes[q]
                /\ movements' = movements \cup keys[r]
                /\ unseenKeys'[q] = unseenKeys[q] \/ unseenKeys'[q] = unseenKeys[q] \cup keys[r]
            BY <1>1, <2>1, <2>3, <4>2, OthersKeep DEF Commit
          <6>2. \A x \in JobKeys(JobOf[q]) : x \notin keys[r]
            BY <1>1, <5>2 DEF Replays, KeysInv
          <6>3. /\ JobKeys(JobOf[q]) \subseteq movements'
                /\ Serializable(q) => JobKeys(JobOf[q]) \cap unseenKeys'[q] = {}
            BY <5>2, <6>1, <6>2 DEF Replays
          <6>4. Replays(q)'
            BY <5>1, <5>2, <6>1, <6>3 DEF Replays, Serializable, JobKeys
          <6> QED
            BY <6>4
        <5>3. ASSUME pc[q] \in Active, Books(q) PROVE Books(q)'
          BY <1>1, <2>3, <4>2, <5>3, CommitBooks
        <5>4. pc[q] \in Active => Replays(q) \/ Books(q)
          BY DEF LedgerInv, BooksOK
        <5>5. pc'[q] \in Active => Replays(q)' \/ Books(q)'
          BY <5>1, <5>2, <5>3, <5>4
        <5> QED
          BY <5>5 DEF BooksOK
      <4> QED
        BY <4>1, <4>2
    <3>3. DoneIsTracked'
      <4>1. Booked' = Booked \cup {JobOf[r]}
        BY <1>1, <2>3, CommitBooksJob
      <4>2. \A p : RowsOf(p) # {} => RowsOf(p)' # {}
        BY <2>3 DEF RowsOf, Commit
      <4>3. ASSUME NEW p \in DOMAIN Expected[JobOf[r]] PROVE RowsOf(p)' # {}
        <5>1. ~ Replays(r)
          BY <4>3, OtherJobs DEF Replays
        <5>2. Books(r)
          BY <3>1, <5>1 DEF LedgerInv, BooksOK, Active
        <5>3. p \in Pools /\ p \in Touched(r)
          BY <4>3, ExpectedTyped DEF Touched
        <5> QED
          BY <1>1, <2>3, <5>2, <5>3, CommitAdds
      <4> QED
        BY <4>1, <4>2, <4>3 DEF LedgerInv, DoneIsTracked
    <3> QED
      BY <1>1, <3>2, <3>3 DEF LedgerInv
  <2> QED
    BY <2>2, <2>3
<1> QED
  BY <1>2, <1>3

LEMMA InitBooks ==
  ASSUME FirstRowsAgree
  PROVE  Init => LedgerInv
<1> SUFFICES ASSUME Init PROVE LedgerInv
  OBVIOUS
<1>1. SoleRows /\ KeysInv
  BY InitRows, InitKeys, AgreeingRows
<1>2. \A q \in Requests : pc[q] = "idle"
  BY DEF Init
<1>3. DoneIsTracked
  BY <1>2 DEF DoneIsTracked, Booked
<1>4. \A q \in Requests : BooksOK(q)
  BY <1>2 DEF BooksOK, Active
<1> QED
  BY <1>1, <1>3, <1>4 DEF LedgerInv

\* What the ledger says of a job.
LEMMA LedgerTerms ==
  ASSUME SoleRows, NEW r \in Requests, NEW p \in Pools
  PROVE  /\ Ledger!Assumed(JobOf[r], p) = Assumed(r, p)
         /\ Ledger!Added(JobOf[r], p) = NetUpTo(JobOf[r], p, Len(Postings[JobOf[r]]))
         /\ p \in DOMAIN NetOf(JobOf[r]) \cup DOMAIN Expected[JobOf[r]] <=> p \in Touched(r)
<1> DEFINE j == JobOf[r]
           n == Len(Postings[j])
<1>1. j \in Jobs /\ n \in Nat
  BY JobAssumption
<1>2. Ledger!Assumed(j, p) = Assumed(r, p)
  BY DEF Ledger!Assumed, Assumed
<1>3. /\ DOMAIN NetOf(j) = UNION {DOMAIN Postings[j][k] : k \in 1..n}
      /\ p \in DOMAIN NetOf(j) => NetOf(j)[p] = NetUpTo(j, p, n)
  BY DEF NetOf
<1>4. Ledger!Added(j, p) = IF p \in DOMAIN NetOf(j) THEN NetOf(j)[p] ELSE 0
  BY <1>1 DEF Ledger!Added
<1>5. ASSUME p \notin DOMAIN NetOf(j) PROVE NetUpTo(j, p, n) = 0
  <2>1. \A k \in 1..n : p \notin DOMAIN Postings[j][k]
    BY <1>3, <1>5
  <2>2. n \in 0..n
    BY <1>1
  <2> QED
    BY <2>1, <2>2, NetZero
<1> QED
  BY <1>2, <1>3, <1>4, <1>5 DEF Touched

LEMMA CommitBooksOnce ==
  ASSUME FirstRowsAgree, LedgerInv, NEW r \in Requests, Commit(r)
  PROVE  Ledger!Book(JobOf[r]) \/ UNCHANGED Ledger!vars
<1> DEFINE j == JobOf[r]
           n == Len(Postings[j])
<1>0. /\ SoleRows /\ KeysInv /\ TypeOK /\ pc[r] = "commit" /\ j \in Jobs
      /\ Replays(r) \/ Books(r)
  BY JobAssumption DEF LedgerInv, SoleRows, RowInv, Commit, BooksOK, Active
<1>1. Booked' = Booked \cup {j}
  BY <1>0, CommitBooksJob
<1>2. CASE Replays(r)
  <2>1. n \in Nat \ {0}
    BY <1>2, OtherJobs DEF Replays
  <2>2. <<j, 1>> \in movements
    BY <1>2, <2>1 DEF Replays, JobKeys
  <2>3. j \in Booked
    BY <1>0, <2>2 DEF KeysInv, JobKeys
  <2>4. items' = items
    <3>1. DOMAIN writes[r] = {} /\ items = [id \in DOMAIN items |-> items[id]]
      BY <1>0, <1>2 DEF Replays, TypeOK, DataOK
    <3>2. items' = [id \in DOMAIN items |-> items[id]]
      BY <3>1 DEF Commit
    <3> QED
      BY <3>1, <3>2
  <2>5. \A p : RowsOf(p)' = RowsOf(p) /\ OnHand(p)' = OnHand(p)
    BY <2>4, RowsStay
  <2> QED
    BY <1>1, <2>3, <2>5 DEF Ledger!vars
<1>3. CASE ~ Replays(r)
  <2>1. ASSUME NEW p \in Pools
        PROVE  /\ OnHand(p)' = OnHand(p) + Ledger!Assumed(j, p) + Ledger!Added(j, p)
               /\ RowsOf(p)' # {} <=> \/ RowsOf(p) # {}
                                      \/ p \in DOMAIN NetOf(j) \cup DOMAIN Expected[j]
    <3>1. Books(r)
      BY <1>0, <1>3
    <3> QED
      BY <1>0, <3>1, CommitAdds, LedgerTerms
  <2>2. CASE j \notin Booked
    <3>1. [p \in Pools |-> OnHand(p)]'
            = [p \in Pools |-> [q \in Pools |-> OnHand(q)][p]
                                 + Ledger!Assumed(j, p) + Ledger!Added(j, p)]
      BY <2>1
    <3>2. {p \in Pools : RowsOf(p) # {}}'
            = {p \in Pools : RowsOf(p) # {}} \cup DOMAIN [e \in Jobs |-> NetOf(e)][j]
                \cup DOMAIN Expected[j]
      <4>1. DOMAIN NetOf(j) \cup DOMAIN Expected[j] \subseteq Pools
        <5>1. DOMAIN NetOf(j) = UNION {DOMAIN Postings[j][k] : k \in 1..n}
          BY DEF NetOf
        <5> QED
          BY <5>1, PostingsTyped, ExpectedTyped
      <4> QED
        BY <1>0, <2>1, <4>1
    <3> QED
      BY <1>1, <2>2, <3>1, <3>2 DEF Ledger!Book
  <2>3. CASE j \in Booked
    <3>1. \A p \in DOMAIN Expected[j] : RowsOf(p) # {}
      BY <2>3 DEF LedgerInv, DoneIsTracked
    <3>2. n = 0
      <4>1. keys[r] = JobKeys(j)
        BY <1>0, <1>3, KeysToAll DEF KeysInv, KeysOK, Passed, KeysTo, Active
      <4>2. JobKeys(j) \subseteq movements
        BY <1>0, <2>3 DEF KeysInv
      <4>3. n \in Nat
        BY <1>0, JobAssumption
      <4>4. JobKeys(j) = {}
        BY <1>0, <4>1, <4>2 DEF KeysInv
      <4>5. PICK m \in Nat : m = n
        BY <4>3
      <4>6. ASSUME m >= 1 PROVE FALSE
        <5>1. 1 \in 1..m
          BY <4>6
        <5> QED
          BY <4>4, <4>5, <5>1 DEF JobKeys
      <4> QED
        BY <4>5, <4>6
    <3>3. ASSUME NEW p \in Pools
          PROVE  OnHand(p)' = OnHand(p) /\ (RowsOf(p)' # {} <=> RowsOf(p) # {})
      <4>1. DOMAIN NetOf(j) = {}
        BY <3>2 DEF NetOf
      <4>2. Ledger!Added(j, p) = 0
        BY <1>0, <4>1 DEF Ledger!Added
      <4>3. Ledger!Assumed(j, p) = 0
        BY <3>1 DEF Ledger!Assumed
      <4>4. OnHand(p) \in Int
        BY <1>0, OnHandTyped
      <4> QED
        BY <2>1, <3>1, <4>1, <4>2, <4>3, <4>4
    <3>4. /\ [p \in Pools |-> OnHand(p)]' = [p \in Pools |-> OnHand(p)]
          /\ {p \in Pools : RowsOf(p) # {}}' = {p \in Pools : RowsOf(p) # {}}
      BY <3>3
    <3> QED
      BY <1>1, <2>3, <3>4 DEF Ledger!vars
  <2> QED
    BY <2>2, <2>3
<1> QED
  BY <1>0, <1>2, <1>3

\* The transactions keep the ledger: whatever the interleaving, the retries and
\* the replays, each job changes the stock of all its pools once.
THEOREM LedgerRefined ==
  ASSUME FirstRowsAgree
  PROVE  Spec => LedgerSpec
<1>1. Init => Ledger!Init
  <2> SUFFICES ASSUME Init PROVE Ledger!Init
    OBVIOUS
  <2>1. Booked = {}
    BY DEF Init, Booked
  <2>2. ASSUME NEW p \in Pools PROVE OnHand(p) \in Int
    <3>1. CASE RowsOf(p) = {}
      BY <3>1 DEF OnHand
    <3>2. CASE RowsOf(p) # {}
      <4>1. OnHand(p) = items[CHOOSE id \in RowsOf(p) : TRUE]
        BY <3>2 DEF OnHand
      <4>2. PICK id \in RowsOf(p) : OnHand(p) = items[id]
        BY <3>2, <4>1
      <4>3. id \in DOMAIN items
        BY <4>2 DEF RowsOf
      <4> QED
        BY <4>2, <4>3, InitTyped DEF TypeOK, DataOK
    <3> QED
      BY <3>1, <3>2
  <2> QED
    BY <2>1, <2>2 DEF Ledger!Init
<1>2. LedgerInv /\ [Next]_vars => [Ledger!Next]_(Ledger!vars)
  <2> SUFFICES ASSUME LedgerInv, [Next]_vars PROVE Ledger!Next \/ UNCHANGED Ledger!vars
    OBVIOUS
  <2>1. TypeOK
    BY DEF LedgerInv, SoleRows, RowInv
  <2>2. ASSUME items' = items, Booked' = Booked PROVE UNCHANGED Ledger!vars
    <3>1. \A p : RowsOf(p)' = RowsOf(p) /\ OnHand(p)' = OnHand(p)
      BY <2>2, RowsStay
    <3> QED
      BY <2>2, <3>1 DEF Ledger!vars
  <2>3. CASE UNCHANGED vars
    BY <2>2, <2>3 DEF vars, Booked
  <2>4. CASE Next
    <3>1. PICK r \in Requests : NextOf(r)
      BY <2>4 DEF Next, NextOf
    <3>2. CASE ~ Commit(r)
      BY <2>1, <2>2, <3>1, <3>2, DatabaseStays, BookedStays
    <3>3. CASE Commit(r)
      <4>1. JobOf[r] \in Jobs
        BY JobAssumption
      <4> QED
        BY <3>3, <4>1, CommitBooksOnce DEF Ledger!Next
    <3> QED
      BY <3>2, <3>3
  <2> QED
    BY <2>3, <2>4
<1>3. Init => LedgerInv
  BY InitBooks
<1>4. LedgerInv /\ SoleRows' /\ [Next]_vars => LedgerInv'
  BY NextBooks
<1>5. RowInv => SoleRows
  BY AgreeingRows
<1> QED
  BY InitRows, NextRows, <1>1, <1>2, <1>3, <1>4, <1>5, PTL DEF Spec, LedgerSpec, Ledger!Spec

-----------------------------------------------------------------------------
(***************************************************************************)
(* Retries.  Each attempt that failed for a conflict was overtaken by a    *)
(* commit of another request, and each request commits once.               *)
(***************************************************************************)

LEMMA DoneOthersCounts ==
  ASSUME NEW r \in Requests
  PROVE  /\ IsFiniteSet(DoneOthers(r))
         /\ Cardinality(DoneOthers(r)) \in Nat /\ Cardinality(Requests) \in Nat
         /\ Cardinality(DoneOthers(r)) < Cardinality(Requests)
<1>1. IsFiniteSet(Requests \ {r}) /\ Cardinality(Requests) \in Nat
      /\ Cardinality(Requests \ {r}) = Cardinality(Requests) - 1
  BY JobAssumption, FS_RemoveElement, FS_CardinalityType
<1>2. DoneOthers(r) \subseteq Requests \ {r}
  BY DEF DoneOthers
<1>3. IsFiniteSet(DoneOthers(r)) /\ Cardinality(DoneOthers(r)) <= Cardinality(Requests \ {r})
  BY <1>1, <1>2, FS_Subset
<1>4. Cardinality(DoneOthers(r)) \in Nat
  BY <1>3, FS_CardinalityType
<1> QED
  BY <1>1, <1>3, <1>4

\* Only its own beginning counts as a request's attempt.
LEMMA AttemptStays ==
  ASSUME NEW r \in Requests, NextOf(r), ~ Begin(r)
  PROVE  attempt' = attempt
<1>1. ASSUME Refuse(r) \/ RetryOrRefuse(r) PROVE attempt' = attempt
  BY <1>1 DEF Refuse, RetryOrRefuse, Rollback
<1>2. CASE AlreadyPosted(r) /\ JobOf[r] \notin Counts
  BY <1>2 DEF AlreadyPosted
<1>3. CASE SetBaseline(r) \/ PostLine(r)
  BY <1>3 DEF SetBaseline, PostLine, LockAndWrite
<1>4. CASE NotYetPosted(r) \/ CreateMovement(r) \/ Commit(r)
  BY <1>4 DEF NotYetPosted, CreateMovement, Commit
<1> QED
  BY <1>1, <1>2, <1>3, <1>4, EndKinds DEF NextOf, Step

\* Where a request goes that does not end its transaction.
LEMMA StaysActive ==
  ASSUME TypeOK, NEW r \in Requests,
         \/ Begin(r) \/ SetBaseline(r) \/ NotYetPosted(r) \/ CreateMovement(r) \/ PostLine(r)
         \/ AlreadyPosted(r) /\ JobOf[r] \notin Counts
  PROVE  /\ pc'[r] \in Active /\ faults' = faults /\ victims' = victims
         /\ unseen' = unseen /\ changed' = changed
         /\ ~ Begin(r) => pc[r] \in Active
<1>1. ASSUME NEW k \in Nat, Proceed(r, k) PROVE pc'[r] \in Active
  BY <1>1, ProceedTo DEF Active
<1>2. posting[r] \in Nat /\ 0 \in Nat
  BY PostingIn
<1>3. CASE Begin(r)
  BY <1>1, <1>2, <1>3 DEF Begin, snapshot, mishaps, Active, TypeOK, PlaceOK
<1>4. CASE SetBaseline(r)
  <2>1. /\ UNCHANGED <<faults, victims>> /\ unseen' = unseen /\ changed' = changed
        /\ pc[r] \in Active
    BY <1>4 DEF SetBaseline, LockAndWrite, snapshot, mishaps, Active
  <2>2. pc'[r] \in Active
    BY <1>1, <1>2, <1>4, <2>1 DEF SetBaseline, Active, TypeOK, PlaceOK
  <2> QED
    BY <2>1, <2>2
<1>5. CASE PostLine(r)
  <2>1. /\ UNCHANGED <<faults, victims>> /\ unseen' = unseen /\ changed' = changed
        /\ pc[r] \in Active
    BY <1>5 DEF PostLine, LockAndWrite, snapshot, mishaps, Active
  <2>2. pc'[r] \in Active
    BY <1>1, <1>2, <1>5, <2>1 DEF PostLine
  <2> QED
    BY <2>1, <2>2
<1>6. CASE NotYetPosted(r) \/ CreateMovement(r)
  BY <1>6 DEF NotYetPosted, CreateMovement, snapshot, mishaps, Active, TypeOK, PlaceOK
<1>7. CASE AlreadyPosted(r) /\ JobOf[r] \notin Counts
  <2>1. Proceed(r, posting[r]) /\ UNCHANGED <<snapshot, mishaps>> /\ pc[r] = "check"
    BY <1>7 DEF AlreadyPosted
  <2> QED
    BY <1>1, <1>2, <2>1 DEF snapshot, mishaps, Active
<1> QED
  BY <1>3, <1>4, <1>5, <1>6, <1>7

\* The key of a request that is alone with its job is not committed before it
\* is, so it neither finds it posted nor fails to create it.
LEMMA AloneKeyIsFree ==
  ASSUME TypeOK, KeysInv, NEW r \in Requests, Alone(r)
  PROVE  ~ CreateMovementFails(r) /\ ~ AlreadyPosted(r)
<1>1. ASSUME pc[r] # "done", Key(r) \in movements PROVE FALSE
  <2>1. PICK j \in Booked : Key(r) \in JobKeys(j)
    BY <1>1 DEF KeysInv
  <2>2. j = JobOf[r]
    BY <2>1 DEF Key, JobKeys
  <2>3. PICK q \in Requests : pc[q] = "done" /\ JobOf[q] = j
    BY <2>1 DEF Booked
  <2> QED
    BY <1>1, <2>2, <2>3 DEF Alone
<1>2. ASSUME pc[r] = "check" PROVE Key(r) \notin keys[r]
  <2>1. \/ keys[r] = {}
        \/ keys[r] = {<<JobOf[r], k>> : k \in 1..(posting[r] - 1)}
    BY <1>2 DEF KeysInv, KeysOK, Replays, Passed, Active
  <2>2. posting[r] \in Nat /\ ~ (posting[r] <= posting[r] - 1)
    BY PostingIn
  <2> QED
    BY <2>1, <2>2 DEF Key
<1>3. ~ CreateMovementFails(r)
  BY <1>1 DEF CreateMovementFails
<1>4. ~ AlreadyPosted(r)
  BY <1>1, <1>2 DEF AlreadyPosted, KeySeen
<1> QED
  BY <1>3, <1>4

AttemptsOK(r) ==
  faults = 0 /\ Alone(r) /\ r \notin victims /\ pc[r] # "done" =>
    /\ pc[r] # "refused"
    /\ attempt[r] <= Cardinality(DoneOthers(r))
                       + (IF pc[r] \in Active /\ ~ Overtaken(r) THEN 1 ELSE 0)

LEMMA OwnAttempts ==
  ASSUME TypeOK, KeysInv, RetryInv, NEW r \in Requests, NextOf(r), ~ Commit(r)
  PROVE  AttemptsOK(r)'
<1>0. TypeOK /\ faults \in Nat /\ attempt[r] \in Nat
  BY DEF TypeOK, PlaceOK, DataOK
<1> DEFINE c == Cardinality(DoneOthers(r))
<1>1. c \in Nat /\ Cardinality(Requests) \in Nat /\ c < Cardinality(Requests)
  BY DoneOthersCounts
<1>2. DoneOthers(r)' = DoneOthers(r)
  <2>1. \A q \in Requests \ {r} : pc'[q] = pc[q]
    BY <1>0, OthersKeep
  <2> QED
    BY <2>1 DEF DoneOthers
<1>3. Alone(r)' <=> Alone(r)
  BY DEF Alone, Serializable
<1> HIDE DEF c
<1>4. ASSUME faults' = 0, Alone(r), r \notin victims', pc'[r] # "done"
      PROVE  /\ pc'[r] # "refused"
             /\ attempt'[r] <= c + (IF pc'[r] \in Active /\ ~ Overtaken(r)' THEN 1 ELSE 0)
  <2>0. ~ CreateMovementFails(r) /\ ~ AlreadyPosted(r)
    BY <1>4, AloneKeyIsFree
  <2>1. /\ faults = 0 /\ r \notin victims
        /\ ~ TransactionFails(r) /\ ~ FalseConflict(r) /\ ~ DeadlockVictim(r)
    <3>1. ASSUME TransactionFails(r) \/ FalseConflict(r) PROVE FALSE
      BY <1>0, <1>4, <3>1 DEF TransactionFails, FalseConflict
    <3>2. ~ DeadlockVictim(r)
      BY <1>4 DEF DeadlockVictim
    <3>3. CASE WriteConflicts(r)
      BY <1>4, <3>1, <3>2, <3>3 DEF WriteConflicts, mishaps
    <3>4. CASE Begin(r) \/ SetBaseline(r) \/ NotYetPosted(r) \/ CreateMovement(r) \/ PostLine(r)
      BY <1>0, <1>4, <3>1, <3>2, <3>4, StaysActive
    <3> QED
      BY <2>0, <3>1, <3>2, <3>3, <3>4 DEF NextOf, Step
  <2>2. pc[r] # "done"
    BY <1>0, DatabaseStays
  <2>3. /\ pc[r] # "refused"
        /\ attempt[r] <= c + (IF pc[r] \in Active /\ ~ Overtaken(r) THEN 1 ELSE 0)
    BY <1>4, <2>1, <2>2 DEF RetryInv, c
  <2>4. CASE Begin(r)
    <3>1. pc[r] \notin Active /\ attempt'[r] = attempt[r] + 1
      BY <1>0, <2>4 DEF Begin, Active, TypeOK, PlaceOK
    <3>2. ~ Overtaken(r)
      BY <3>1 DEF RetryInv
    <3>3. pc'[r] \in Active /\ ~ Overtaken(r)'
      BY <1>0, <2>4, <3>2, StaysActive DEF Overtaken
    <3>4. attempt[r] <= c
      BY <1>0, <1>1, <2>3, <3>1
    <3> QED
      BY <1>0, <1>1, <3>1, <3>3, <3>4 DEF Active
  <2>5. CASE SetBaseline(r) \/ NotYetPosted(r) \/ CreateMovement(r) \/ PostLine(r)
    <3>1. CASE ~ Begin(r)
      <4>1. /\ pc'[r] \in Active /\ pc[r] \in Active /\ attempt' = attempt
            /\ unseen' = unseen /\ changed' = changed
        BY <1>0, <2>5, <3>1, StaysActive, AttemptStays
      <4>2. Overtaken(r)' <=> Overtaken(r)
        BY <4>1 DEF Overtaken
      <4> QED
        BY <2>3, <4>1, <4>2 DEF Active
    <3> QED
      BY <2>4, <3>1
  <2>6. CASE WriteConflicts(r)
    <3>1. RetryOrRefuse(r) /\ pc[r] \in Active
      BY <2>6 DEF WriteConflicts, Active
    <3>2. Overtaken(r)
      <4>1. PICK id \in Targets(r, Head(left[r])) : Conflicts(r, id)
        BY <2>6 DEF WriteConflicts
      <4> QED
        BY <4>1 DEF Conflicts, Overtaken
    <3>3. attempt[r] <= c
      BY <1>0, <1>1, <2>3, <3>2
    <3>4. TriesLeft(r)
      <4>1. Tries[JobOf[r]] \in Nat /\ Tries[JobOf[r]] >= Cardinality(Requests)
        BY <1>4, JobAssumption DEF Alone
      <4> QED
        BY <1>0, <1>1, <3>3, <4>1 DEF TriesLeft
    <3>5. pc'[r] = "retry" /\ attempt' = attempt
      BY <1>0, <3>1, <3>4 DEF RetryOrRefuse, Rollback, TypeOK, PlaceOK
    <3> QED
      BY <3>3, <3>5, <1>0, <1>1 DEF Active
  <2> QED
    BY <2>0, <2>1, <2>4, <2>5, <2>6 DEF NextOf, Step
<1> QED
  BY <1>2, <1>3, <1>4 DEF AttemptsOK, c

LEMMA OthersAttempts ==
  ASSUME TypeOK, RetryInv, NEW r \in Requests, NextOf(r), NEW q \in Requests \ {r}
  PROVE  AttemptsOK(q)' /\ (pc'[q] \notin Active => ~ Overtaken(q)')
<1>1. pc'[q] = pc[q]
  BY OthersKeep
<1>2. attempt'[q] = attempt[q] /\ attempt[q] \in Nat
  <2>1. CASE Begin(r)
    BY <2>1 DEF Begin, TypeOK, PlaceOK
  <2>2. CASE ~ Begin(r)
    BY <2>2, AttemptStays DEF TypeOK, PlaceOK
  <2> QED
    BY <2>1, <2>2
<1>3. Alone(q)' <=> Alone(q)
  BY DEF Alone, Serializable
<1>4. (faults' = 0 => faults = 0) /\ (q \notin victims' => q \notin victims)
  <2>1. faults \in Nat
    BY DEF TypeOK, DataOK
  <2>2. CASE Commit(r)
    BY <2>2 DEF Commit, mishaps
  <2>3. CASE \/ Begin(r) \/ SetBaseline(r) \/ NotYetPosted(r) \/ CreateMovement(r) \/ PostLine(r)
             \/ AlreadyPosted(r) /\ JobOf[r] \notin Counts
    BY <2>3, StaysActive
  <2>4. CASE \/ DeadlockVictim(r) \/ CreateMovementFails(r) \/ WriteConflicts(r)
             \/ TransactionFails(r) \/ FalseConflict(r)
             \/ AlreadyPosted(r) /\ JobOf[r] \in Counts
    BY <2>1, <2>4 DEF DeadlockVictim, CreateMovementFails, WriteConflicts, AlreadyPosted,
                      TransactionFails, FalseConflict, mishaps
  <2> QED
    BY <2>2, <2>3, <2>4 DEF NextOf, Step
<1> DEFINE c == Cardinality(DoneOthers(q))
           d == Cardinality(DoneOthers(q)')
<1>5. c \in Nat /\ IsFiniteSet(DoneOthers(q))
  BY DoneOthersCounts
<1>6. faults = 0 /\ Alone(q) /\ q \notin victims /\ pc[q] # "done" =>
        /\ pc[q] # "refused"
        /\ attempt[q] <= c + (IF pc[q] \in Active /\ ~ Overtaken(q) THEN 1 ELSE 0)
  BY DEF RetryInv
<1>7. pc[q] \notin Active => ~ Overtaken(q)
  BY DEF RetryInv
<1>8. CASE ~ Commit(r)
  <2>1. \A s \in Requests : pc'[s] = "done" <=> pc[s] = "done"
    BY <1>8, DatabaseStays, OthersKeep
  <2>2. DoneOthers(q)' = DoneOthers(q)
    BY <2>1 DEF DoneOthers
  <2>3. Overtaken(q)' <=> Overtaken(q)
    BY <1>8, DatabaseStays DEF Overtaken
  <2> QED
    BY <1>1, <1>2, <1>3, <1>4, <1>6, <1>7, <2>2, <2>3 DEF AttemptsOK
<1>9. CASE Commit(r)
  <2>1. pc[r] = "commit" /\ pc'[r] = "done"
    BY <1>9 DEF Commit, TypeOK, PlaceOK
  <2>2. DoneOthers(q)' = DoneOthers(q) \cup {r} /\ r \notin DoneOthers(q)
    <3>1. \A s \in Requests : pc'[s] = "done" <=> pc[s] = "done" \/ s = r
      BY <2>1, OthersKeep
    <3> QED
      BY <2>1, <3>1 DEF DoneOthers
  <2>3. d = c + 1
    BY <1>5, <2>2, FS_AddElement
  <2>4. pc[q] \notin Active => ~ Overtaken(q)'
    <3> SUFFICES ASSUME pc[q] \notin Active PROVE ~ Overtaken(q)'
      OBVIOUS
    <3>1. unseen'[q] = unseen[q] /\ changed'[q] = changed[q]
      BY <1>9 DEF Commit, LeavesSnapshot
    <3> QED
      BY <1>7, <3>1 DEF Overtaken
  <2> HIDE DEF c, d
  <2>5. faults = 0 /\ Alone(q) /\ q \notin victims /\ pc[q] # "done" =>
          pc[q] # "refused" /\ attempt[q] <= d
    BY <1>2, <1>5, <1>6, <2>3
  <2>6. d \in Nat
    BY <1>5, <2>3
  <2>7. faults' = 0 /\ Alone(q)' /\ q \notin victims' /\ pc'[q] # "done" =>
          /\ pc'[q] # "refused"
          /\ attempt'[q] <= d + (IF pc'[q] \in Active /\ ~ Overtaken(q)' THEN 1 ELSE 0)
    BY <1>1, <1>2, <1>3, <1>4, <2>5, <2>6
  <2> QED
    BY <1>1, <2>4, <2>7 DEF AttemptsOK, d
<1> QED
  BY <1>8, <1>9

LEMMA NextRetries == TypeOK /\ KeysInv /\ RetryInv /\ [Next]_vars => RetryInv'
<1> SUFFICES ASSUME TypeOK, KeysInv, RetryInv, [Next]_vars PROVE RetryInv'
  OBVIOUS
<1>1. CASE UNCHANGED vars
  <2>1. /\ pc' = pc /\ attempt' = attempt /\ unseen' = unseen /\ changed' = changed
        /\ faults' = faults /\ victims' = victims
    BY <1>1 DEF vars
  <2>2. ASSUME NEW q \in Requests
        PROVE  /\ Overtaken(q)' <=> Overtaken(q)
               /\ DoneOthers(q)' = DoneOthers(q)
               /\ Alone(q)' <=> Alone(q)
    BY <2>1 DEF Overtaken, DoneOthers, Alone, Serializable
  <2> QED
    BY <2>1, <2>2 DEF RetryInv
<1>2. CASE Next
  <2>1. PICK r \in Requests : NextOf(r)
    BY <1>2 DEF Next, NextOf
  <2>2. AttemptsOK(r)' /\ (pc'[r] \notin Active => ~ Overtaken(r)')
    <3>1. CASE Commit(r)
      <4>1. pc'[r] = "done" /\ unseen'[r] = {} /\ changed'[r] = {}
        BY <3>1 DEF Commit, LeavesSnapshot, TypeOK, PlaceOK
      <4> QED
        BY <4>1 DEF AttemptsOK, Overtaken
    <3>2. CASE ~ Commit(r)
      <4>1. AttemptsOK(r)'
        BY <2>1, <3>2, OwnAttempts
      <4>2. pc'[r] \notin Active => ~ Overtaken(r)'
        <5>1. CASE Refuse(r) \/ RetryOrRefuse(r)
          BY <5>1, Ended DEF Overtaken
        <5>2. CASE ~ (Refuse(r) \/ RetryOrRefuse(r))
          <6>1. \/ Begin(r) \/ SetBaseline(r) \/ NotYetPosted(r) \/ CreateMovement(r) \/ PostLine(r)
                \/ AlreadyPosted(r) /\ JobOf[r] \notin Counts
            BY <2>1, <3>2, <5>2, EndKinds DEF NextOf, Step
          <6> QED
            BY <6>1, StaysActive
        <5> QED
          BY <5>1, <5>2
      <4> QED
        BY <4>1, <4>2
    <3> QED
      BY <3>1, <3>2
  <2>3. \A q \in Requests \ {r} : AttemptsOK(q)' /\ (pc'[q] \notin Active => ~ Overtaken(q)')
    BY <2>1, OthersAttempts
  <2>4. \A q \in Requests : AttemptsOK(q)' /\ (pc'[q] \notin Active => ~ Overtaken(q)')
    BY <2>2, <2>3
  <2> QED
    BY <2>4 DEF RetryInv, AttemptsOK
<1> QED
  BY <1>1, <1>2

LEMMA InitRetries == Init => RetryInv
<1> SUFFICES ASSUME Init PROVE RetryInv
  OBVIOUS
<1>1. \A r \in Requests : pc[r] = "idle" /\ attempt[r] = 0 /\ ~ Overtaken(r)
  BY DEF Init, Overtaken
<1>2. \A r \in Requests : Cardinality(DoneOthers(r)) \in Nat
  BY DoneOthersCounts
<1>3. \A r \in Requests : 0 <= Cardinality(DoneOthers(r)) + 0
  BY <1>2
<1> QED
  BY <1>1, <1>3 DEF RetryInv, Active

\* A serializable caller that alone wants its job and has as many tries as there
\* are requests is not refused for the conflicts it meets, for any number of
\* requests, postings and counts and any interleaving: only a fault or a deadlock
\* broken with it can cost it the job.
THEOREM RetriesEnough == Spec => []RetriesSuffice
<1>1. Init => KeysInv
  BY InitKeys
<1>2. TypeOK /\ KeysInv /\ [Next]_vars => KeysInv'
  BY NextKeys
<1>3. Init => RetryInv
  BY InitRetries
<1>4. TypeOK /\ KeysInv /\ RetryInv /\ [Next]_vars => RetryInv'
  BY NextRetries
<1>5. RetryInv => RetriesSuffice
  BY DEF RetryInv, RetriesSuffice
<1> QED
  BY InitTyped, NextTyped, <1>1, <1>2, <1>3, <1>4, <1>5, PTL DEF Spec
=============================================================================
