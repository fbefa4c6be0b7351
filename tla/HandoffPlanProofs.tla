--------------------------- MODULE HandoffPlanProofs ---------------------------
(***************************************************************************)
(* What the loop of a handoff plan keeps, for every quote and every stock.  *)
(* How far it has come along the shares is said of every listing of lines   *)
(* and rows in order, so that no step has to open one.                      *)
(***************************************************************************)
EXTENDS HandoffPlan, HandoffSharesProofs

LEMMA InitTypes == Init => TypeOK
<1> SUFFICES ASSUME Init PROVE TypeOK
  OBVIOUS
<1>1. items \in Seq(Items)
  BY DEF Init
<1>2. free \in [Rows -> FreeLevels] /\ left \subseteq Rows
  BY DEF Init, RowsFor
<1>3. home \in [Products -> SUBSET Warehouses] /\ excluded \subseteq Warehouses
  BY DEF Init
<1>4. fromStock \in Nat /\ taken \in [Rows -> Nat] /\ lines \in Seq(Nat) /\ reservations = {}
  BY DEF Init
<1> QED
  BY <1>1, <1>2, <1>3, <1>4 DEF TypeOK

LEMMA FreeIsInt == TypeOK => free \in [Rows -> Int]
  BY PlanAssumption DEF TypeOK

\* What a row is asked for and gives.
LEMMA TakeFacts ==
  ASSUME TypeOK, NEW r \in Rows, TakeRow(r)
  PROVE  LET take == Smaller(Remaining, Offered(r)) IN
           /\ At \in DOMAIN items /\ At \in Nat /\ items[At].quantity \in Nat
           /\ Remaining = items[At].quantity - fromStock
           /\ Offered(r) = free[r] - taken[r] /\ free[r] \in Int
           /\ take \in Nat \ {0} /\ take <= Offered(r) /\ take <= Remaining
           /\ take = Remaining \/ take = Offered(r)
           /\ taken' = [taken EXCEPT ![r] = @ + take] /\ fromStock' = fromStock + take
           /\ reservations' = reservations \cup {[line |-> At, row |-> r, quantity |-> take]}
           /\ left' = left \ {r} /\ UNCHANGED <<items, free, home, excluded, lines>>
<1> DEFINE take == Smaller(Remaining, Offered(r))
<1>1. /\ At <= Len(items) /\ Remaining > 0 /\ Offered(r) > 0
      /\ taken' = [taken EXCEPT ![r] = @ + take] /\ fromStock' = fromStock + take
      /\ reservations' = reservations \cup {[line |-> At, row |-> r, quantity |-> take]}
      /\ left' = left \ {r} /\ UNCHANGED <<items, free, home, excluded, lines>>
  BY DEF TakeRow, Comes, Gives, input
<1>2. At \in DOMAIN items /\ At \in Nat
  BY <1>1 DEF TypeOK, At
<1>3. items[At].quantity \in Nat
  BY <1>2, PlanAssumption DEF TypeOK
<1>4. Remaining = items[At].quantity - fromStock /\ Remaining \in Int
  BY <1>3 DEF Remaining, TypeOK
<1>5. Offered(r) = free[r] - taken[r] /\ free[r] \in Int /\ taken[r] \in Nat
  BY FreeIsInt DEF Offered, TypeOK
<1>6. /\ take \in Nat \ {0} /\ take <= Offered(r) /\ take <= Remaining
      /\ take = Remaining \/ take = Offered(r)
  BY <1>1, <1>4, <1>5 DEF Smaller
<1> HIDE DEF take
<1>7. /\ At \in DOMAIN items /\ At \in Nat /\ items[At].quantity \in Nat
      /\ Remaining = items[At].quantity - fromStock
      /\ Offered(r) = free[r] - taken[r] /\ free[r] \in Int
      /\ take \in Nat \ {0} /\ take <= Offered(r) /\ take <= Remaining
      /\ take = Remaining \/ take = Offered(r)
      /\ taken' = [taken EXCEPT ![r] = @ + take] /\ fromStock' = fromStock + take
      /\ reservations' = reservations \cup {[line |-> At, row |-> r, quantity |-> take]}
      /\ left' = left \ {r} /\ UNCHANGED <<items, free, home, excluded, lines>>
  BY <1>1, <1>2, <1>3, <1>4, <1>5, <1>6
<1> QED
  BY <1>7 DEF take

LEMMA StepTypes == TypeOK /\ [Next]_vars => TypeOK'
<1> SUFFICES ASSUME TypeOK, [Next]_vars PROVE TypeOK'
  OBVIOUS
<1>1. CASE UNCHANGED vars
  BY <1>1 DEF vars, input, TypeOK
<1>2. CASE NextLine
  <2>1. UNCHANGED <<items, free, home, excluded, taken, reservations>>
        /\ fromStock' = 0 /\ left' = RowsFor(At + 1) /\ lines' = Append(lines, fromStock)
    BY <1>2 DEF NextLine, input
  <2>2. lines' \in Seq(Nat)
    BY <2>1 DEF TypeOK
  <2>3. left' \subseteq Rows
    BY <2>1 DEF RowsFor
  <2> QED
    BY <2>1, <2>2, <2>3 DEF TypeOK
<1>3. ASSUME NEW r \in Rows, SkipRow(r)
      PROVE  TypeOK'
  BY <1>3 DEF SkipRow, After, input, TypeOK
<1>4. ASSUME NEW r \in Rows, TakeRow(r)
      PROVE  TypeOK'
  <2>1. PICK take \in Nat \ {0} :
          /\ At \in Nat
          /\ taken' = [taken EXCEPT ![r] = @ + take] /\ fromStock' = fromStock + take
          /\ reservations' = reservations \cup {[line |-> At, row |-> r, quantity |-> take]}
          /\ left' = left \ {r} /\ UNCHANGED <<items, free, home, excluded, lines>>
    BY <1>4, TakeFacts
  <2>2. fromStock' \in Nat /\ taken' \in [Rows -> Nat] /\ left' \subseteq Rows
    BY <2>1 DEF TypeOK
  <2>3. reservations' \subseteq [line : Nat, row : Rows, quantity : Nat]
    BY <2>1 DEF TypeOK
  <2> QED
    BY <2>1, <2>2, <2>3 DEF TypeOK
<1> QED
  BY <1>1, <1>2, <1>3, <1>4 DEF Next

\* The types a plan is computed with (QuoteBomItem, StockItem).
THEOREM PlanTypes == Spec => []TypeOK
<1> QED
  BY InitTypes, StepTypes, PTL DEF Spec

LEMMA InitTakes == Init => TakesOnlyFree
<1> SUFFICES ASSUME Init, NEW r \in Rows PROVE taken[r] <= Positive(free[r])
  BY DEF TakesOnlyFree
<1>1. taken[r] = 0 /\ free[r] \in Int
  BY InitTypes, FreeIsInt DEF Init
<1> QED
  BY <1>1, PositiveBounds

LEMMA StepTakes == TypeOK /\ TakesOnlyFree /\ [Next]_vars => TakesOnlyFree'
<1> SUFFICES ASSUME TypeOK, TakesOnlyFree, [Next]_vars PROVE TakesOnlyFree'
  OBVIOUS
<1>1. CASE UNCHANGED <<taken, free>>
  BY <1>1 DEF TakesOnlyFree
<1>2. ASSUME NEW r \in Rows, TakeRow(r)
      PROVE  TakesOnlyFree'
  <2>1. PICK take \in Nat \ {0} :
          /\ take <= free[r] - taken[r] /\ free[r] \in Int
          /\ taken' = [taken EXCEPT ![r] = @ + take] /\ free' = free
    BY <1>2, TakeFacts
  <2>2. ASSUME NEW s \in Rows
        PROVE  taken'[s] <= Positive(free'[s])
    <3>1. CASE s = r
      <4>1. taken'[r] = taken[r] + take /\ taken[r] \in Nat
        BY <2>1 DEF TypeOK
      <4>2. free[r] <= Positive(free[r]) /\ Positive(free[r]) \in Nat
        BY <2>1, PositiveBounds
      <4> QED
        BY <2>1, <3>1, <4>1, <4>2
    <3>2. CASE s # r
      BY <2>1, <3>2 DEF TypeOK, TakesOnlyFree
    <3> QED
      BY <3>1, <3>2
  <2> QED
    BY <2>2 DEF TakesOnlyFree
<1> QED
  BY <1>1, <1>2 DEF Next, NextLine, SkipRow, vars, input

\* A plan takes from a row no more than is free in it, whatever its lines ask for
\* (computeHandoffPlan).
THEOREM NothingOvertaken == Spec => []TakesOnlyFree
<1> QED
  BY InitTypes, StepTypes, InitTakes, StepTakes, PTL DEF Spec

-----------------------------------------------------------------------------
(* A short line has emptied its rows.                                      *)

Emptied(i) == \A r \in RowsFor(i) : taken[r] >= free[r]

\* The rows the current line has left behind are empty while it needs more, and
\* those of a line that stayed short are empty for good.
Fills ==
  /\ Len(lines) <= Len(items) /\ left \subseteq RowsFor(At)
  /\ At \in DOMAIN items /\ Remaining > 0 =>
       \A r \in RowsFor(At) \ left : taken[r] >= free[r]
  /\ \A i \in DOMAIN lines : lines[i] < items[i].quantity => Emptied(i)

LEMMA InitFills == Init => Fills
<1> SUFFICES ASSUME Init PROVE Fills
  OBVIOUS
<1>1. lines = <<>> /\ At = 1 /\ left = RowsFor(1) /\ items \in Seq(Items)
  BY DEF Init, At
<1> QED
  BY <1>1 DEF Fills

LEMMA StepFills == TypeOK /\ Fills /\ [Next]_vars => Fills'
<1> SUFFICES ASSUME TypeOK, Fills, [Next]_vars PROVE Fills'
  OBVIOUS
<1>1. CASE UNCHANGED vars
  BY <1>1 DEF vars, input, Fills, RowsFor, At, Remaining, Emptied
<1>2. CASE NextLine
  <2>1. /\ UNCHANGED <<items, free, excluded, taken>>
        /\ fromStock' = 0 /\ left' = RowsFor(At + 1) /\ lines' = Append(lines, fromStock)
        /\ At <= Len(items) /\ (left = {} \/ Remaining <= 0)
    BY <1>2 DEF NextLine, input
  <2>2. /\ Len(lines) \in Nat /\ Len(lines') = At /\ At = Len(lines) + 1 /\ At \in DOMAIN items
        /\ At' = At + 1 /\ items[At].quantity \in Nat /\ Len(items) \in Nat
        /\ DOMAIN lines' = 1..At /\ DOMAIN lines = 1..Len(lines)
    BY <2>1, PlanAssumption DEF TypeOK, At
  <2>3. \A i : RowsFor(i)' = RowsFor(i) /\ Emptied(i)' = Emptied(i)
    BY <2>1 DEF RowsFor, Emptied
  <2>4. Len(lines') <= Len(items') /\ left' \subseteq RowsFor(At)'
    BY <2>1, <2>2, <2>3
  <2>5. \A r \in RowsFor(At)' \ left' : taken'[r] >= free'[r]
    BY <2>1, <2>2, <2>3
  <2>6. ASSUME NEW i \in DOMAIN lines', lines'[i] < items'[i].quantity
        PROVE  Emptied(i)'
    <3>1. CASE i = At
      <4>1. lines'[i] = fromStock
        BY <2>1, <2>2, <3>1 DEF TypeOK
      <4>2. Remaining > 0
        BY <2>1, <2>2, <2>6, <3>1, <4>1 DEF Remaining, TypeOK
      <4>3. left = {} /\ (\A r \in RowsFor(At) \ left : taken[r] >= free[r])
        BY <2>1, <2>2, <4>2 DEF Fills, Remaining, TypeOK
      <4> QED
        BY <2>3, <3>1, <4>3 DEF Emptied
    <3>2. CASE i # At
      <4>1. i \in DOMAIN lines /\ lines'[i] = lines[i]
        BY <2>1, <2>2, <3>2 DEF TypeOK
      <4> QED
        BY <2>1, <2>3, <2>6, <4>1 DEF Fills
    <3> QED
      BY <3>1, <3>2
  <2> QED
    BY <2>4, <2>5, <2>6 DEF Fills
<1>3. ASSUME NEW r \in Rows, SkipRow(r)
      PROVE  Fills'
  <2>1. /\ UNCHANGED <<items, free, excluded, taken, fromStock, lines>>
        /\ left' = left \ {r} /\ ~(Offered(r) > 0)
    BY <1>3 DEF SkipRow, After, Gives, input
  <2>2. /\ \A i : RowsFor(i)' = RowsFor(i) /\ Emptied(i)' = Emptied(i)
        /\ At' = At /\ Remaining' = Remaining
    BY <2>1 DEF RowsFor, Emptied, At, Remaining
  <2>3. taken[r] >= free[r]
    BY <2>1, FreeIsInt DEF Offered, TypeOK
  <2> QED
    BY <2>1, <2>2, <2>3 DEF Fills
<1>4. ASSUME NEW r \in Rows, TakeRow(r)
      PROVE  Fills'
  <2>1. PICK take \in Nat \ {0} :
          /\ At \in DOMAIN items /\ items[At].quantity \in Nat
          /\ Remaining = items[At].quantity - fromStock /\ free[r] \in Int
          /\ take <= Remaining /\ (take = Remaining \/ take = free[r] - taken[r])
          /\ taken' = [taken EXCEPT ![r] = @ + take] /\ fromStock' = fromStock + take
          /\ left' = left \ {r} /\ UNCHANGED <<items, free, home, excluded, lines>>
    BY <1>4, TakeFacts
  <2>2. ASSUME NEW s \in Rows
        PROVE  taken'[s] >= taken[s] /\ taken[s] \in Nat /\ taken'[s] \in Nat /\ free[s] \in Int
    <3>1. taken[s] \in Nat /\ free[s] \in Int
      BY FreeIsInt DEF TypeOK
    <3>2. taken'[s] = taken[s] \/ taken'[s] = taken[s] + take
      BY <2>1 DEF TypeOK
    <3> QED
      BY <2>1, <3>1, <3>2
  <2>3. \A i : RowsFor(i)' = RowsFor(i) /\ RowsFor(i) \subseteq Rows
    BY <2>1 DEF RowsFor
  <2>4. \A s \in Rows : taken[s] >= free[s] => taken'[s] >= free'[s]
    BY <2>1, <2>2
  <2>5. \A i : Emptied(i) => Emptied(i)'
    BY <2>3, <2>4 DEF Emptied
  <2>6. At' = At
    BY <2>1 DEF At
  <2>7. ASSUME Remaining' > 0, NEW s \in RowsFor(At)' \ left'
        PROVE  taken'[s] >= free'[s]
    <3>1. Remaining' = items[At].quantity - fromStock'
      BY <2>1, <2>6 DEF Remaining
    <3>2. Remaining > 0 /\ take # Remaining
      BY <2>1, <2>7, <3>1 DEF TypeOK
    <3>3. CASE s = r
      <4>1. taken'[r] = taken[r] + take
        BY <2>1 DEF TypeOK
      <4> QED
        BY <2>1, <2>2, <3>2, <3>3, <4>1
    <3>4. CASE s # r
      <4>1. s \in RowsFor(At) \ left
        BY <2>1, <2>3, <2>6, <2>7, <3>4
      <4> QED
        BY <2>1, <2>3, <2>4, <3>2, <4>1 DEF Fills
    <3> QED
      BY <3>3, <3>4
  <2>8. \A i \in DOMAIN lines' : lines'[i] < items'[i].quantity => Emptied(i)'
    BY <2>1, <2>5 DEF Fills
  <2>9. Len(lines') <= Len(items') /\ left' \subseteq RowsFor(At)'
    BY <2>1, <2>3, <2>6 DEF Fills
  <2> QED
    BY <2>7, <2>8, <2>9 DEF Fills
<1> QED
  BY <1>1, <1>2, <1>3, <1>4 DEF Next

\* A line that got less than it asked for has emptied every row it may take from
\* (computeHandoffPlan).
THEOREM ShortIsEmpty == Spec => []ShortOnlyWhenEmpty
<1>1. TypeOK /\ Fills => ShortOnlyWhenEmpty
  BY DEF TypeOK, Fills, ShortOnlyWhenEmpty, Emptied, Done
<1> QED
  BY <1>1, InitTypes, StepTypes, InitFills, StepFills, PTL DEF Spec

-----------------------------------------------------------------------------
(* A finite set that is totally ordered can be listed in order.            *)

\* A strict total order on S, as a set of pairs.
Orders(rel, S) ==
  /\ \A x \in S : <<x, x>> \notin rel
  /\ \A x, y \in S : x # y => <<x, y>> \in rel \/ <<y, x>> \in rel
  /\ \A x, y, z \in S : <<x, y>> \in rel /\ <<y, z>> \in rel => <<x, z>> \in rel

Listed(s, rel) == \A i, j \in DOMAIN s : i < j => <<s[i], s[j]>> \in rel

LEMMA ListExists ==
  ASSUME NEW S, IsFiniteSet(S), NEW rel, Orders(rel, S)
  PROVE  \E s \in [1..Cardinality(S) -> S] : Listed(s, rel)
<1> DEFINE n == Cardinality(S)
           Below(x) == {y \in S : <<y, x>> \in rel}
           pos == [x \in S |-> Cardinality(Below(x)) + 1]
<1>1. n \in Nat /\ IsFiniteSet(1..n) /\ Cardinality(1..n) = n
  BY FS_CardinalityType, FS_Interval
<1>2. ASSUME NEW x \in S
      PROVE  /\ IsFiniteSet(Below(x)) /\ Cardinality(Below(x)) \in Nat
             /\ Cardinality(Below(x)) < n
  <2>1. Below(x) \in SUBSET (S \ {x})
    BY DEF Orders
  <2>2. IsFiniteSet(S \ {x}) /\ Cardinality(S \ {x}) = n - 1
    BY FS_RemoveElement
  <2> HIDE DEF Below, n
  <2>3. IsFiniteSet(Below(x)) /\ Cardinality(Below(x)) <= n - 1
    BY <2>1, <2>2, FS_Subset
  <2>4. Cardinality(Below(x)) \in Nat
    BY <2>3, FS_CardinalityType
  <2> QED
    BY <1>1, <2>3, <2>4
<1>3. ASSUME NEW x \in S, NEW y \in S, <<x, y>> \in rel
      PROVE  pos[x] < pos[y]
  <2>1. Below(x) \in SUBSET Below(y) /\ x \in Below(y) /\ x \notin Below(x)
    BY <1>3 DEF Orders
  <2> HIDE DEF Below
  <2>2. IsFiniteSet(Below(y)) /\ Cardinality(Below(x)) \in Nat /\ Cardinality(Below(y)) \in Nat
    BY <1>2
  <2>3. Cardinality(Below(x)) <= Cardinality(Below(y)) /\ Cardinality(Below(x)) # Cardinality(Below(y))
    BY <2>1, <2>2, FS_Subset
  <2> QED
    BY <2>2, <2>3
<1>4. \A x \in S : pos[x] \in 1..n
  <2> HIDE DEF Below, n
  <2> QED
    BY <1>1, <1>2
<1>5. \A x, y \in S : pos[x] = pos[y] => x = y
  <2> HIDE DEF pos, n
  <2> SUFFICES ASSUME NEW x \in S, NEW y \in S, x # y
               PROVE  pos[x] # pos[y]
    OBVIOUS
  <2>1. <<x, y>> \in rel \/ <<y, x>> \in rel
    BY DEF Orders
  <2>2. pos[x] < pos[y] \/ pos[y] < pos[x]
    BY <1>3, <2>1
  <2>3. pos[x] \in Int /\ pos[y] \in Int
    BY <1>1, <1>4
  <2> QED
    BY <2>2, <2>3
<1>6. pos \in Injection(S, 1..n)
  <2>1. pos \in [S -> 1..n]
    BY <1>4
  <2> HIDE DEF pos, n
  <2> QED
    BY <1>5, <2>1 DEF Injection, IsInjective
<1>7. pos \in Surjection(S, 1..n)
  <2> HIDE DEF pos
  <2> QED
    BY <1>1, <1>6, FS_Injection
<1>8. \A i \in 1..n : \E x \in S : pos[x] = i
  <2> HIDE DEF pos, n
  <2> QED
    BY <1>7 DEF Surjection
<1> DEFINE s == [i \in 1..n |-> CHOOSE x \in S : pos[x] = i]
<1>9. \A i \in 1..n : s[i] \in S /\ pos[s[i]] = i
  <2> HIDE DEF pos, n
  <2> QED
    BY <1>8
<1>10. s \in [1..n -> S] /\ DOMAIN s = 1..n
  BY <1>9
<1>11. Listed(s, rel)
  <2> SUFFICES ASSUME NEW i \in 1..n, NEW j \in 1..n, i < j
               PROVE  <<s[i], s[j]>> \in rel
    BY <1>10 DEF Listed
  <2> HIDE DEF pos, s, n
  <2>1. s[i] \in S /\ s[j] \in S /\ pos[s[i]] = i /\ pos[s[j]] = j
    BY <1>9
  <2>2. s[i] # s[j]
    BY <1>1, <2>1
  <2>3. <<s[j], s[i]>> \notin rel
    BY <1>1, <1>3, <2>1
  <2> QED
    BY <2>1, <2>2, <2>3 DEF Orders
<1> HIDE DEF s
<1> QED
  BY <1>10, <1>11

LEMMA ListIsAll ==
  ASSUME NEW S, IsFiniteSet(S), NEW rel, Orders(rel, S),
         NEW s \in [1..Cardinality(S) -> S], Listed(s, rel)
  PROVE  \A x \in S : \E i \in 1..Cardinality(S) : s[i] = x
<1> DEFINE n == Cardinality(S)
<1>1. n \in Nat /\ IsFiniteSet(1..n) /\ Cardinality(1..n) = n
  BY FS_CardinalityType, FS_Interval
<1>2. \A i, j \in 1..n : s[i] = s[j] => i = j
  <2> HIDE DEF n
  <2> SUFFICES ASSUME NEW i \in 1..n, NEW j \in 1..n, s[i] = s[j], i # j
               PROVE  FALSE
    OBVIOUS
  <2>0. s \in [1..n -> S]
    BY DEF n
  <2>1. i < j \/ j < i
    BY <1>1
  <2>2. s[i] \in S /\ s[j] \in S
    BY <2>0
  <2> QED
    BY <2>0, <2>1, <2>2 DEF Listed, Orders
<1>3. s \in Injection(1..n, S)
  BY <1>2 DEF Injection, IsInjective
<1>4. s \in Surjection(1..n, S)
  <2> HIDE DEF n
  <2>1. Cardinality(1..n) = Cardinality(S)
    BY <1>1 DEF n
  <2> QED
    BY <1>3, <2>1, FS_Injection
<1> QED
  BY <1>4 DEF Surjection

\* The lines that ask for a product, and the rows it is taken from, in order.
Asking(p, a) ==
  /\ a \in Seq(Nat)
  /\ \A i, k \in 1..Len(a) : i < k => a[i] < a[k]
  /\ \A i \in 1..Len(a) :
       a[i] \in DOMAIN items /\ items[a[i]].kind = "PRODUCT" /\ items[a[i]].product = p
  /\ \A n \in DOMAIN items : items[n].kind = "PRODUCT" /\ items[n].product = p =>
       \E i \in 1..Len(a) : a[i] = n

FromRows(p, R) ==
  /\ R \in Seq(Rows)
  /\ \A i, k \in 1..Len(R) : i < k => Before(R[i], R[k])
  /\ \A k \in 1..Len(R) : R[k] \in RowsOf(p)
  /\ \A r \in RowsOf(p) : \E k \in 1..Len(R) : R[k] = r

LEMMA AskingListed ==
  ASSUME TypeOK, NEW p \in Products
  PROVE  Asking(p, AskingFor(p))
<1> DEFINE S == {i \in DOMAIN items : items[i].kind = "PRODUCT" /\ items[i].product = p}
           rel == {x \in S \X S : x[1] < x[2]}
           n == Cardinality(S)
           ok(s) == \A i, j \in DOMAIN s : i < j => s[i] < s[j]
           a == CHOOSE s \in [1..n -> S] : ok(s)
<1>1. AskingFor(p) = a
  BY DEF AskingFor, InOrder
<1>2. IsFiniteSet(S) /\ S \subseteq Nat
  <2>1. DOMAIN items = 1..Len(items) /\ Len(items) \in Nat
    BY DEF TypeOK
  <2>2. IsFiniteSet(1..Len(items))
    BY <2>1, FS_Interval
  <2>3. S \in SUBSET (1..Len(items))
    BY <2>1
  <2> QED
    BY <2>1, <2>2, <2>3, FS_Subset
<1>3. n \in Nat
  BY <1>2, FS_CardinalityType
<1>4. \A x, y \in S : <<x, y>> \in rel <=> x < y
  OBVIOUS
<1>5. Orders(rel, S)
  <2> HIDE DEF S, rel
  <2> QED
    BY <1>2, <1>4 DEF Orders
<1> HIDE DEF S, rel
<1>6. \A s \in [1..n -> S] : ok(s) <=> Listed(s, rel)
  BY <1>4 DEF Listed
<1>7. \E s \in [1..n -> S] : ok(s)
  BY <1>2, <1>5, <1>6, ListExists
<1>8. a \in [1..n -> S] /\ ok(a)
  <2> HIDE DEF ok, n
  <2> QED
    BY <1>7
<1>9. \A x \in S : \E i \in 1..n : a[i] = x
  <2> HIDE DEF a, ok
  <2> QED
    BY <1>2, <1>5, <1>6, <1>8, ListIsAll
<1> HIDE DEF a, n
<1>10. a \in Seq(Nat) /\ Len(a) = n /\ DOMAIN a = 1..n
  <2>1. a \in [1..n -> Nat]
    BY <1>2, <1>8
  <2> QED
    BY <1>3, <2>1
<1>11. \A i \in 1..n : a[i] \in S
  BY <1>8
<1> QED
  BY <1>1, <1>8, <1>9, <1>10, <1>11 DEF Asking, S

\* Rows in the order of the code of their warehouse.
LEMMA CodesListed ==
  ASSUME NEW S \in SUBSET Rows
  PROVE  LET s == InOrder(S, ByCode) IN
           /\ s \in Seq(S)
           /\ \A i, k \in 1..Len(s) : i < k => ByCode(s[i], s[k])
           /\ \A r \in S : \E k \in 1..Len(s) : s[k] = r
<1> DEFINE rel == {x \in S \X S : ByCode(x[1], x[2])}
           n == Cardinality(S)
           ok(s) == \A i, j \in DOMAIN s : i < j => ByCode(s[i], s[j])
           a == CHOOSE s \in [1..n -> S] : ok(s)
<1>1. InOrder(S, ByCode) = a
  BY DEF InOrder
<1>2. IsFiniteSet(S)
  BY PlanAssumption, FS_Subset
<1>3. n \in Nat
  BY <1>2, FS_CardinalityType
<1>4. \A x, y \in S : <<x, y>> \in rel <=> ByCode(x, y)
  OBVIOUS
<1>5. Orders(rel, S)
  <2>1. \A r \in S : r \in Nat /\ WarehouseOf[r] \in Nat
    BY PlanAssumption DEF Warehouses
  <2> HIDE DEF rel
  <2> QED
    BY <1>4, <2>1 DEF Orders, ByCode
<1> HIDE DEF rel
<1>6. \A s \in [1..n -> S] : ok(s) <=> Listed(s, rel)
  BY <1>4 DEF Listed
<1>7. \E s \in [1..n -> S] : ok(s)
  BY <1>2, <1>5, <1>6, ListExists
<1>8. a \in [1..n -> S] /\ ok(a)
  <2> HIDE DEF ok, n
  <2> QED
    BY <1>7
<1>9. \A x \in S : \E i \in 1..n : a[i] = x
  <2> HIDE DEF a, ok
  <2> QED
    BY <1>2, <1>5, <1>6, <1>8, ListIsAll
<1> HIDE DEF a, n
<1>10. a \in Seq(S) /\ Len(a) = n /\ DOMAIN a = 1..n
  BY <1>3, <1>8
<1> QED
  BY <1>1, <1>8, <1>9, <1>10

LEMMA HomeFirstListed ==
  ASSUME TypeOK, NEW p \in Products
  PROVE  FromRows(p, HomeFirst(p))
<1> DEFINE H == {r \in RowsOf(p) : WarehouseOf[r] \in home[p]}
           O == {r \in RowsOf(p) : WarehouseOf[r] \notin home[p]}
           h == InOrder(H, ByCode)
           o == InOrder(O, ByCode)
<1>1. H \in SUBSET Rows /\ O \in SUBSET Rows
  BY DEF RowsOf
<1>2. /\ h \in Seq(H)
      /\ \A i, k \in 1..Len(h) : i < k => ByCode(h[i], h[k])
      /\ \A r \in H : \E k \in 1..Len(h) : h[k] = r
  <2> HIDE DEF H
  <2> QED
    BY <1>1, CodesListed
<1>3. /\ o \in Seq(O)
      /\ \A i, k \in 1..Len(o) : i < k => ByCode(o[i], o[k])
      /\ \A r \in O : \E k \in 1..Len(o) : o[k] = r
  <2> HIDE DEF O
  <2> QED
    BY <1>1, CodesListed
<1>4. HomeFirst(p) = h \o o
  BY DEF HomeFirst
<1>5. \A r \in H : r \in Rows /\ ProductOf[r] = p /\ WarehouseOf[r] \in home[p] /\ r \in RowsOf(p)
  BY DEF RowsOf
<1>6. \A r \in O : r \in Rows /\ ProductOf[r] = p /\ WarehouseOf[r] \notin home[p] /\ r \in RowsOf(p)
  BY DEF RowsOf
<1>7. \A r \in RowsOf(p) : r \in H \/ r \in O
  OBVIOUS
<1> HIDE DEF H, O, h, o
<1> DEFINE R == h \o o
<1>8. PICK x \in Nat, y \in Nat : x = Len(h) /\ y = Len(o)
  BY <1>2, <1>3
<1>9. h \in Seq(Rows) /\ o \in Seq(Rows)
  BY <1>2, <1>3, <1>5, <1>6
<1>10. R \in Seq(Rows) /\ Len(R) = x + y
  BY <1>8, <1>9
<1>11. \A i \in 1..x : R[i] = h[i] /\ h[i] \in H
  BY <1>2, <1>3, <1>8, <1>9
<1>12. \A i \in 1..(x + y) : i > x => R[i] = o[i - x] /\ o[i - x] \in O /\ i - x \in 1..y
  BY <1>2, <1>3, <1>8, <1>9
<1>13. \A i \in 1..y : R[i + x] = o[i] /\ i + x \in 1..(x + y)
  <2> TAKE i \in 1..y
  <2>1. i + x \in 1..(x + y) /\ i + x > x /\ (i + x) - x = i
    OBVIOUS
  <2> QED
    BY <1>12, <2>1
<1> HIDE DEF R
<1>14. \A i \in 1..(x + y) : R[i] \in H \/ R[i] \in O
  <2> TAKE i \in 1..(x + y)
  <2>1. i \in 1..x \/ i > x
    OBVIOUS
  <2> QED
    BY <1>11, <1>12, <2>1
<1>15. ASSUME NEW i \in 1..(x + y), NEW k \in 1..(x + y), i < k
       PROVE  Before(R[i], R[k])
  <2>1. CASE k <= x
    <3>1. i \in 1..x /\ k \in 1..x
      BY <1>15, <2>1
    <3>2. ByCode(R[i], R[k]) /\ R[i] \in H /\ R[k] \in H
      BY <1>2, <1>8, <1>11, <1>15, <3>1
    <3> QED
      BY <1>5, <3>2 DEF Before, ByCode
  <2>2. CASE i > x
    <3>1. i - x \in 1..y /\ k - x \in 1..y /\ i - x < k - x /\ k > x
      BY <1>15, <2>2
    <3>2. ByCode(R[i], R[k]) /\ R[i] \in O /\ R[k] \in O
      BY <1>3, <1>8, <1>12, <2>2, <3>1
    <3> QED
      BY <1>6, <3>2 DEF Before, ByCode
  <2>3. CASE i <= x /\ k > x
    <3>1. i \in 1..x
      BY <2>3
    <3>2. R[i] \in H /\ R[k] \in O
      BY <1>11, <1>12, <2>3, <3>1
    <3> QED
      BY <1>5, <1>6, <3>2 DEF Before
  <2> QED
    BY <2>1, <2>2, <2>3
<1>16. ASSUME NEW r \in RowsOf(p)
       PROVE  \E k \in 1..(x + y) : R[k] = r
  <2>1. CASE r \in H
    <3>1. PICK k \in 1..x : h[k] = r
      BY <1>2, <1>8, <2>1
    <3> QED
      BY <1>11, <3>1
  <2>2. CASE r \in O
    <3>1. PICK k \in 1..y : o[k] = r
      BY <1>3, <1>8, <2>2
    <3> QED
      BY <1>13, <3>1
  <2> QED
    BY <1>7, <2>1, <2>2
<1>17. \A k \in 1..(x + y) : R[k] \in RowsOf(p)
  BY <1>5, <1>6, <1>14
<1>18. FromRows(p, R)
  BY <1>10, <1>15, <1>16, <1>17 DEF FromRows
<1> QED
  BY <1>4, <1>18 DEF R

-----------------------------------------------------------------------------
(* How far the loop has come along the shares of one product.              *)

Inputs(p, a, R, nd, fr) ==
  /\ Asking(p, a) /\ FromRows(p, R)
  /\ nd = [i \in 1..Len(a) |-> items[a[i]].quantity]
  /\ fr = [k \in 1..Len(R) |-> free[R[k]]]

\* What the first m lines take from row k.
Part(nd, fr, m, k) == Positive(Smaller(Upto(nd, m), Upto(fr, k)) - Upto(fr, k - 1))

\* What line m + 1 has from the first j rows.
Got(nd, fr, m, j) == Positive(Smaller(Upto(nd, m + 1), Upto(fr, j)) - Upto(nd, m))

Reserved(a, R, nd, fr, i, k) ==
  IF Share(nd, fr, i, k) = 0 THEN {}
  ELSE {[line |-> a[i], row |-> R[k], quantity |-> Share(nd, fr, i, k)]}

RowsAfter(R, j) == {R[k] : k \in (j + 1)..Len(R)}

Running(a, m) == m < Len(a) /\ a[m + 1] = At

\* m lines are done, and the one after them, when it is its turn, has come to row j.
Filled(a, R, nd, fr, m, j) ==
  /\ \A i \in 1..Len(a) : i <= m <=> a[i] < At
  /\ Running(a, m) => left = RowsAfter(R, j) /\ fromStock = Got(nd, fr, m, j)
  /\ ~Running(a, m) => j = 0
  /\ \A i \in 1..Len(a), k \in 1..Len(R) :
       Given(a[i], R[k]) =
         IF i <= m \/ (i = m + 1 /\ k <= j) THEN Reserved(a, R, nd, fr, i, k) ELSE {}
  /\ \A k \in 1..Len(R) :
       taken[R[k]] = IF k <= j THEN Part(nd, fr, m + 1, k) ELSE Part(nd, fr, m, k)

AlongShares ==
  \A p \in Products : \A a, R, nd, fr : Inputs(p, a, R, nd, fr) =>
    \E m \in 0..Len(a), j \in 0..Len(R) : Filled(a, R, nd, fr, m, j)

LEMMA InputsAre ==
  ASSUME TypeOK, NEW p \in Products, NEW a, NEW R, NEW nd, NEW fr, Inputs(p, a, R, nd, fr)
  PROVE  /\ Len(a) \in Nat /\ Len(R) \in Nat
         /\ \A i \in 1..Len(a) : a[i] \in Nat \ {0} /\ a[i] \in DOMAIN items /\ nd[i] \in Nat
                                 /\ nd[i] = items[a[i]].quantity
         /\ \A k \in 1..Len(R) : R[k] \in Rows /\ fr[k] \in Int /\ fr[k] = free[R[k]]
         /\ Numbers1(nd, Len(a)) /\ Numbers1(fr, Len(R))
<1>1. Len(a) \in Nat /\ Len(R) \in Nat
  BY DEF Inputs, Asking, FromRows
<1>2. ASSUME NEW i \in 1..Len(a)
      PROVE  a[i] \in Nat \ {0} /\ a[i] \in DOMAIN items /\ nd[i] \in Nat /\ nd[i] = items[a[i]].quantity
  <2>1. a[i] \in DOMAIN items /\ nd[i] = items[a[i]].quantity
    BY DEF Inputs, Asking
  <2>2. a[i] \in 1..Len(items) /\ Len(items) \in Nat /\ items[a[i]] \in Items
    BY <2>1 DEF TypeOK
  <2>3. items[a[i]].quantity \in Nat
    BY <2>2, PlanAssumption
  <2> QED
    BY <2>1, <2>2, <2>3
<1>3. ASSUME NEW k \in 1..Len(R)
      PROVE  R[k] \in Rows /\ fr[k] \in Int /\ fr[k] = free[R[k]]
  <2>1. R[k] \in Rows /\ fr[k] = free[R[k]]
    BY <1>1 DEF Inputs, FromRows
  <2> QED
    BY <2>1, FreeIsInt
<1> QED
  BY <1>1, <1>2, <1>3 DEF Numbers1

LEMMA TotalsAre ==
  ASSUME TypeOK, NEW p \in Products, NEW a, NEW R, NEW nd, NEW fr, Inputs(p, a, R, nd, fr)
  PROVE  /\ \A m \in 0..Len(a) : Upto(nd, m) \in Nat
         /\ \A m \in 0..Len(a) : m < Len(a) => Upto(nd, m + 1) = Upto(nd, m) + nd[m + 1]
         /\ \A j \in 0..Len(R) : Upto(fr, j) \in Nat
         /\ \A j \in 0..Len(R) : j < Len(R) => Upto(fr, j + 1) = Upto(fr, j) + Positive(fr[j + 1])
         /\ \A j, k \in 0..Len(R) : j <= k => Upto(fr, j) <= Upto(fr, k)
         /\ Upto(nd, 0) = 0 /\ Upto(fr, 0) = 0
<1>1. /\ Len(a) \in Nat /\ Len(R) \in Nat
      /\ \A i \in 1..Len(a) : nd[i] \in Nat
      /\ Numbers1(nd, Len(a)) /\ Numbers1(fr, Len(R))
  BY InputsAre
<1>2. /\ \A m \in 0..Len(a) : Numbers1(nd, m)
      /\ \A j \in 0..Len(R) : Numbers1(fr, j)
  BY <1>1 DEF Numbers1
<1>3. \A m \in 0..Len(a) : Upto(nd, m) \in Nat
  BY <1>1, <1>2, UptoType
<1>4. \A j \in 0..Len(R) : Upto(fr, j) \in Nat
  BY <1>1, <1>2, UptoType
<1>5. ASSUME NEW m \in 0..Len(a), m < Len(a)
      PROVE  Upto(nd, m + 1) = Upto(nd, m) + nd[m + 1]
  <2>1. m + 1 \in Nat \ {0} /\ m + 1 \in 0..Len(a) /\ m + 1 \in 1..Len(a) /\ (m + 1) - 1 = m
    BY <1>1, <1>5
  <2>2. Upto(nd, m + 1) = Upto(nd, m) + Positive(nd[m + 1])
    BY <1>2, <2>1, UptoNext
  <2>3. Positive(nd[m + 1]) = nd[m + 1]
    BY <1>1, <2>1 DEF Positive, Larger
  <2> QED
    BY <2>2, <2>3
<1>6. ASSUME NEW j \in 0..Len(R), j < Len(R)
      PROVE  Upto(fr, j + 1) = Upto(fr, j) + Positive(fr[j + 1])
  <2>1. j + 1 \in Nat \ {0} /\ j + 1 \in 0..Len(R) /\ (j + 1) - 1 = j
    BY <1>1, <1>6
  <2> QED
    BY <1>2, <2>1, UptoNext
<1>7. ASSUME NEW j \in 0..Len(R), NEW k \in 0..Len(R), j <= k
      PROVE  Upto(fr, j) <= Upto(fr, k)
  <2>1. j \in 0..k /\ k \in Nat
    BY <1>1, <1>7
  <2> QED
    BY <1>2, <2>1, UptoGrows
<1> QED
  BY <1>3, <1>4, <1>5, <1>6, <1>7, UptoNone

\* Greedy: what a row gives is what the two stretches have in common.
LEMMA GreedyIsShare ==
  ASSUME NEW u \in Nat, NEW need \in Nat, NEW v \in Nat, NEW f \in Int,
         NEW w \in Nat, w = u + need, NEW x \in Nat, x = v + Positive(f),
         need - Positive(Smaller(w, v) - u) > 0
  PROVE  LET part == Positive(Smaller(u, x) - v)
             got == Positive(Smaller(w, v) - u)
             share == Positive(Smaller(w, x) - Larger(u, v)) IN
           /\ Positive(Smaller(w, x) - u) = got + share
           /\ Positive(Smaller(w, x) - v) = part + share
           /\ share \in Nat
           /\ f - part <= 0 => share = 0
           /\ f - part > 0 => share > 0 /\ Smaller(need - got, f - part) = share
BY DEF Positive, Smaller, Larger

\* A line that has all it needs shares nothing with a later row.
LEMMA FullHasNoShare ==
  ASSUME NEW u \in Nat, NEW need \in Nat, NEW v \in Nat, NEW w \in Nat, w = u + need,
         need - Positive(Smaller(w, v) - u) <= 0,
         NEW y \in Nat, v <= y, NEW x \in Nat, y <= x
  PROVE  /\ Positive(Smaller(w, x) - Larger(u, y)) = 0
         /\ Positive(Smaller(w, x) - y) = Positive(Smaller(u, x) - y)
BY DEF Positive, Smaller, Larger

LEMMA RowsForIs ==
  ASSUME TypeOK, NEW p \in Products, NEW a, NEW R, NEW nd, NEW fr, Inputs(p, a, R, nd, fr)
  PROVE  \A i \in 1..Len(a) : RowsFor(a[i]) = RowsAfter(R, 0)
<1> TAKE i \in 1..Len(a)
<1>1. a[i] \in DOMAIN items /\ items[a[i]].kind = "PRODUCT" /\ items[a[i]].product = p
  BY DEF Inputs, Asking
<1>2. RowsFor(a[i]) = RowsOf(p)
  BY <1>1 DEF RowsFor, RowsOf
<1>3. RowsOf(p) = RowsAfter(R, 0)
  <2>1. /\ \A k \in 1..Len(R) : R[k] \in RowsOf(p)
        /\ \A r \in RowsOf(p) : \E k \in 1..Len(R) : R[k] = r
    BY DEF Inputs, FromRows
  <2>2. 0 + 1 = 1
    OBVIOUS
  <2> QED
    BY ONLY <2>1, <2>2 DEF RowsAfter
<1> QED
  BY <1>2, <1>3

LEMMA GotNothing ==
  ASSUME TypeOK, NEW p \in Products, NEW a, NEW R, NEW nd, NEW fr, Inputs(p, a, R, nd, fr),
         NEW m \in 0..Len(a), m < Len(a)
  PROVE  Got(nd, fr, m, 0) = 0
<1>1. Len(a) \in Nat /\ m + 1 \in 0..Len(a)
  BY InputsAre
<1>2. Upto(nd, m) \in Nat /\ Upto(nd, m + 1) \in Nat /\ Upto(fr, 0) = 0
  BY <1>1, TotalsAre
<1> QED
  BY <1>2 DEF Got, Positive, Smaller, Larger

LEMMA InitAlong == Init => AlongShares
<1> SUFFICES ASSUME Init, NEW p \in Products, NEW a, NEW R, NEW nd, NEW fr, Inputs(p, a, R, nd, fr)
             PROVE  \E m \in 0..Len(a), j \in 0..Len(R) : Filled(a, R, nd, fr, m, j)
  BY DEF AlongShares
<1>1. TypeOK
  BY InitTypes
<1>2. /\ Len(a) \in Nat /\ Len(R) \in Nat /\ 0 \in 0..Len(a) /\ 0 \in 0..Len(R)
      /\ \A i \in 1..Len(a) : a[i] \in Nat \ {0}
      /\ \A k \in 1..Len(R) : R[k] \in Rows
  BY <1>1, InputsAre
<1>3. At = 1 /\ left = RowsFor(1) /\ fromStock = 0 /\ reservations = {} /\ taken = [r \in Rows |-> 0]
  BY DEF Init, At
<1>4. \A i \in 1..Len(a) : i <= 0 <=> a[i] < At
  BY <1>2, <1>3
<1>5. Running(a, 0) => left = RowsAfter(R, 0) /\ fromStock = Got(nd, fr, 0, 0)
  <2> SUFFICES ASSUME 0 < Len(a), a[1] = 1
               PROVE  left = RowsAfter(R, 0) /\ fromStock = Got(nd, fr, 0, 0)
    BY <1>3 DEF Running
  <2>1. 1 \in 1..Len(a)
    BY <1>2
  <2>2. RowsFor(a[1]) = RowsAfter(R, 0)
    BY <1>1, <2>1, RowsForIs
  <2>3. Got(nd, fr, 0, 0) = 0
    BY <1>1, <1>2, GotNothing
  <2> QED
    BY <1>3, <2>2, <2>3
<1>6. \A i \in 1..Len(a), k \in 1..Len(R) :
        /\ Given(a[i], R[k]) = {}
        /\ ~(i <= 0 \/ (i = 0 + 1 /\ k <= 0))
  BY <1>2, <1>3 DEF Given
<1>7. ASSUME NEW k \in 1..Len(R)
      PROVE  taken[R[k]] = Part(nd, fr, 0, k) /\ ~(k <= 0)
  <2>1. taken[R[k]] = 0 /\ k \in 0..Len(R) /\ k - 1 \in 0..Len(R)
    BY <1>2, <1>3
  <2>2. Upto(nd, 0) = 0 /\ Upto(fr, k) \in Nat /\ Upto(fr, k - 1) \in Nat
    BY <1>1, <2>1, TotalsAre
  <2> QED
    BY <2>1, <2>2 DEF Part, Positive, Smaller, Larger
<1>8. Filled(a, R, nd, fr, 0, 0)
  BY <1>4, <1>5, <1>6, <1>7 DEF Filled
<1> QED
  BY <1>2, <1>8

LEMMA LineAlong ==
  ASSUME TypeOK, NEW p \in Products, NEW a, NEW R, NEW nd, NEW fr, Inputs(p, a, R, nd, fr),
         NEW m \in 0..Len(a), NEW j \in 0..Len(R), Filled(a, R, nd, fr, m, j), NextLine
  PROVE  \E n \in 0..Len(a) : Filled(a, R, nd, fr, n, 0)'
<1>1. /\ UNCHANGED <<items, free, home, excluded, taken, reservations>>
      /\ fromStock' = 0 /\ left' = RowsFor(At + 1) /\ lines' = Append(lines, fromStock)
      /\ left = {} \/ Remaining <= 0
  BY DEF NextLine, input
<1>2. At \in Nat /\ At' = At + 1 /\ fromStock \in Nat
  BY <1>1 DEF TypeOK, At
<1>3. /\ Len(a) \in Nat /\ Len(R) \in Nat
      /\ \A i \in 1..Len(a) : a[i] \in Nat
      /\ \A i, k \in 1..Len(a) : i < k => a[i] < a[k]
  BY InputsAre DEF Inputs, Asking
<1>4. \A i \in 1..Len(a) : i <= m <=> a[i] < At
  BY DEF Filled
<1>5. \A i, k : Given(i, k)' = Given(i, k)
  BY <1>1 DEF Given
<1>6. ASSUME NEW n \in 0..Len(a), Running(a, n)'
      PROVE  left' = RowsAfter(R, 0) /\ fromStock' = Got(nd, fr, n, 0)
  <2>1. n < Len(a) /\ n + 1 \in 1..Len(a) /\ a[n + 1] = At + 1
    BY <1>2, <1>3, <1>6 DEF Running
  <2>2. RowsFor(a[n + 1]) = RowsAfter(R, 0)
    <3>1. \A i \in 1..Len(a) : RowsFor(a[i]) = RowsAfter(R, 0)
      BY RowsForIs
    <3> QED
      BY <2>1, <3>1
  <2>3. Got(nd, fr, n, 0) = 0
    BY <2>1, GotNothing
  <2> QED
    BY <1>1, <2>1, <2>2, <2>3
<1>7. CASE ~Running(a, m)
  <2>1. j = 0
    BY <1>7 DEF Filled
  <2>2. ASSUME NEW i \in 1..Len(a)
        PROVE  i <= m <=> a[i] < At'
    <3>1. CASE i <= m
      BY <1>2, <1>3, <1>4, <3>1
    <3>2. CASE i > m
      <4>1. m + 1 \in 1..Len(a) /\ m < Len(a) /\ a[m + 1] # At /\ a[m + 1] >= At
        BY <1>2, <1>3, <1>4, <1>7, <3>2 DEF Running
      <4>2. a[m + 1] <= a[i]
        <5>1. CASE i = m + 1
          BY <1>3, <5>1
        <5>2. CASE i > m + 1
          BY <1>3, <4>1, <5>2
        <5> QED
          BY <3>2, <5>1, <5>2
      <4> QED
        BY <1>2, <1>3, <3>2, <4>1, <4>2
    <3> QED
      BY <3>1, <3>2
  <2>3. \A i \in 1..Len(a), k \in 1..Len(R) :
          Given(a[i], R[k])' =
            IF i <= m \/ (i = m + 1 /\ k <= 0) THEN Reserved(a, R, nd, fr, i, k) ELSE {}
    BY <1>5, <2>1 DEF Filled
  <2>4. \A k \in 1..Len(R) :
          taken'[R[k]] = IF k <= 0 THEN Part(nd, fr, m + 1, k) ELSE Part(nd, fr, m, k)
    BY <1>1, <2>1 DEF Filled
  <2>5. Filled(a, R, nd, fr, m, 0)'
    BY <1>6, <2>2, <2>3, <2>4 DEF Filled
  <2> QED
    BY <2>5
<1>8. CASE Running(a, m)
  <2>1. /\ m < Len(a) /\ m + 1 \in 1..Len(a) /\ m + 1 \in 0..Len(a) /\ a[m + 1] = At
        /\ left = RowsAfter(R, j) /\ fromStock = Got(nd, fr, m, j)
    BY <1>3, <1>8 DEF Filled, Running
  <2>2. ASSUME NEW i \in 1..Len(a)
        PROVE  i <= m + 1 <=> a[i] < At'
    <3>1. i < m + 1 \/ i = m + 1 \/ i > m + 1
      BY <1>3
    <3>2. a[i] < At \/ a[i] = At \/ (i > m + 1 /\ a[i] > At)
      BY <1>3, <2>1, <3>1
    <3>3. i > m + 1 => a[i] > At
      BY <1>3, <2>1
    <3>4. i < m + 1 => a[i] < At
      BY <1>3, <2>1
    <3> QED
      BY <1>2, <1>3, <2>1, <3>1, <3>3, <3>4
  <2>3. ASSUME NEW k \in 1..Len(R), k > j
        PROVE  Share(nd, fr, m + 1, k) = 0 /\ Part(nd, fr, m + 1, k) = Part(nd, fr, m, k)
    <3>1. left # {}
      <4>1. k \in (j + 1)..Len(R)
        BY <1>3, <2>3
      <4> QED
        BY <2>1, <4>1 DEF RowsAfter
    <3>2. Remaining <= 0
      BY <1>1, <3>1
    <3>3. Remaining = nd[m + 1] - Got(nd, fr, m, j) /\ nd[m + 1] \in Nat
      BY <2>1, InputsAre DEF Remaining
    <3>4. k \in 0..Len(R) /\ k - 1 \in 0..Len(R) /\ j <= k - 1 /\ k - 1 <= k
      BY <1>3, <2>3
    <3>5. /\ Upto(nd, m) \in Nat /\ Upto(nd, m + 1) \in Nat
          /\ Upto(nd, m + 1) = Upto(nd, m) + nd[m + 1]
          /\ Upto(fr, j) \in Nat /\ Upto(fr, k - 1) \in Nat /\ Upto(fr, k) \in Nat
          /\ Upto(fr, j) <= Upto(fr, k - 1) /\ Upto(fr, k - 1) <= Upto(fr, k)
      BY <2>1, <3>4, TotalsAre
    <3>6. nd[m + 1] - Positive(Smaller(Upto(nd, m + 1), Upto(fr, j)) - Upto(nd, m)) <= 0
      BY <3>2, <3>3 DEF Got
    <3>7. /\ Positive(Smaller(Upto(nd, m + 1), Upto(fr, k)) - Larger(Upto(nd, m), Upto(fr, k - 1))) = 0
          /\ Positive(Smaller(Upto(nd, m + 1), Upto(fr, k)) - Upto(fr, k - 1))
               = Positive(Smaller(Upto(nd, m), Upto(fr, k)) - Upto(fr, k - 1))
      BY <3>3, <3>5, <3>6, FullHasNoShare, SMTT(30)
    <3>8. (m + 1) - 1 = m
      BY <2>1
    <3> QED
      BY <3>7, <3>8 DEF Share, Part
  <2>4. ASSUME NEW i \in 1..Len(a), NEW k \in 1..Len(R)
        PROVE  Given(a[i], R[k])' =
                 IF i <= m + 1 \/ (i = (m + 1) + 1 /\ k <= 0) THEN Reserved(a, R, nd, fr, i, k) ELSE {}
    <3>1. Given(a[i], R[k])' =
            IF i <= m \/ (i = m + 1 /\ k <= j) THEN Reserved(a, R, nd, fr, i, k) ELSE {}
      BY <1>5 DEF Filled
    <3>2. CASE i = m + 1 /\ k > j
      <4>1. Reserved(a, R, nd, fr, i, k) = {}
        BY <2>3, <3>2 DEF Reserved
      <4> QED
        BY <3>1, <4>1
    <3>3. CASE ~(i = m + 1 /\ k > j)
      <4>1. (i <= m \/ (i = m + 1 /\ k <= j)) <=> (i <= m + 1 \/ (i = (m + 1) + 1 /\ k <= 0))
        BY <1>3, <3>3
      <4> QED
        BY <3>1, <4>1
    <3> QED
      BY <3>2, <3>3
  <2>5. ASSUME NEW k \in 1..Len(R)
        PROVE  taken'[R[k]] =
                 IF k <= 0 THEN Part(nd, fr, (m + 1) + 1, k) ELSE Part(nd, fr, m + 1, k)
    <3>1. taken'[R[k]] = IF k <= j THEN Part(nd, fr, m + 1, k) ELSE Part(nd, fr, m, k)
      BY <1>1 DEF Filled
    <3> QED
      BY <1>3, <2>3, <3>1
  <2>6. ASSUME Running(a, m + 1)'
        PROVE  left' = RowsAfter(R, 0) /\ fromStock' = Got(nd, fr, m + 1, 0)
    BY <1>6, <2>1, <2>6
  <2>7. Filled(a, R, nd, fr, m + 1, 0)'
    BY <2>2, <2>4, <2>5, <2>6 DEF Filled
  <2> QED
    BY <2>1, <2>7
<1> QED
  BY <1>7, <1>8

\* The row that comes next is another product's, or the next one of this.
LEMMA RowComes ==
  ASSUME TypeOK, Fills, NEW p \in Products, NEW a, NEW R, NEW nd, NEW fr,
         Inputs(p, a, R, nd, fr),
         NEW m \in 0..Len(a), NEW j \in 0..Len(R), Filled(a, R, nd, fr, m, j),
         NEW r \in Rows, Comes(r)
  PROVE  \/ /\ \A i \in 1..Len(a) : a[i] # At
            /\ \A k \in 1..Len(R) : R[k] # r
         \/ /\ Running(a, m) /\ j < Len(R) /\ r = R[j + 1]
            /\ \A i \in 1..Len(a) : a[i] = At <=> i = m + 1
            /\ \A k \in 1..Len(R) : R[k] = r <=> k = j + 1
            /\ left \ {r} = RowsAfter(R, j + 1)
<1>1. /\ Len(a) \in Nat /\ Len(R) \in Nat
      /\ \A i \in 1..Len(a) : a[i] \in Nat
      /\ \A i, k \in 1..Len(a) : i < k => a[i] < a[k]
      /\ \A k \in 1..Len(R) : R[k] \in Rows
  <2>1. Len(a) \in Nat /\ Len(R) \in Nat /\ (\A k \in 1..Len(R) : R[k] \in Rows)
    BY InputsAre
  <2>2. /\ \A i \in 1..Len(a) : a[i] \in Nat
        /\ \A i, k \in 1..Len(a) : i < k => a[i] < a[k]
    BY DEF Inputs, Asking
  <2> QED
    BY <2>1, <2>2
<1>2. At \in Nat
  BY DEF TypeOK, At
<1>3. r \in left /\ (\A s \in left \ {r} : Before(r, s))
  BY DEF Comes, First
<1>4. /\ At \in DOMAIN items /\ items[At].kind = "PRODUCT"
      /\ ProductOf[r] = items[At].product /\ WarehouseOf[r] \notin excluded
  BY <1>3 DEF Fills, RowsFor
<1>5. CASE items[At].product # p
  <2>1. \A i \in 1..Len(a) : a[i] # At
    BY <1>5 DEF Inputs, Asking
  <2>2. \A k \in 1..Len(R) : R[k] # r
    BY <1>4, <1>5 DEF Inputs, FromRows, RowsOf
  <2> QED
    BY <2>1, <2>2
<1>6. CASE items[At].product = p
  <2>1. PICK i \in 1..Len(a) : a[i] = At
    BY <1>4, <1>6 DEF Inputs, Asking
  <2>2. ~(i <= m)
    BY <1>1, <1>2, <2>1 DEF Filled
  <2>3. m < Len(a) /\ m + 1 \in 1..Len(a) /\ m + 1 <= i /\ ~(m + 1 <= m)
    BY <1>1, <2>2
  <2>4. ~(a[m + 1] < At)
    BY <1>1, <1>2, <2>3 DEF Filled
  <2>5. i = m + 1
    <3> SUFFICES ASSUME m + 1 < i PROVE FALSE
      BY <1>1, <2>3
    <3>1. a[m + 1] < a[i]
      BY <1>1, <2>3
    <3> QED
      BY <2>1, <2>4, <3>1
  <2>6. Running(a, m)
    BY <2>1, <2>3, <2>5 DEF Running
  <2>7. \A n \in 1..Len(a) : a[n] = At <=> n = m + 1
    <3> TAKE n \in 1..Len(a)
    <3>1. n < m + 1 => a[n] < a[m + 1]
      BY <1>1, <2>3
    <3>2. n > m + 1 => a[m + 1] < a[n]
      BY <1>1, <2>3
    <3> QED
      BY <1>1, <1>2, <2>1, <2>3, <2>5, <3>1, <3>2
  <2>8. left = RowsAfter(R, j)
    BY <2>6 DEF Filled
  <2>9. ASSUME NEW x \in 1..Len(R), NEW y \in 1..Len(R), x < y
        PROVE  Before(R[x], R[y]) /\ ~Before(R[y], R[x]) /\ R[x] # R[y]
    <3>1. Before(R[x], R[y])
      BY <2>9 DEF Inputs, FromRows
    <3>2. /\ R[x] \in Nat /\ R[y] \in Nat /\ WarehouseOf[R[x]] \in Nat /\ WarehouseOf[R[y]] \in Nat
          /\ ProductOf[R[x]] = p /\ ProductOf[R[y]] = p
      <4>1. R[x] \in RowsOf(p) /\ R[y] \in RowsOf(p)
        BY DEF Inputs, FromRows
      <4> QED
        BY <4>1, PlanAssumption DEF RowsOf, Warehouses
    <3> QED
      BY <3>1, <3>2 DEF Before
  <2>10. PICK k \in (j + 1)..Len(R) : r = R[k]
    BY <1>3, <2>8 DEF RowsAfter
  <2>11. k \in 1..Len(R) /\ j < Len(R) /\ j + 1 \in 1..Len(R) /\ j + 1 <= k
    BY <1>1, <2>10
  <2>12. k = j + 1
    <3> SUFFICES ASSUME j + 1 < k PROVE FALSE
      BY <2>11
    <3>1. R[j + 1] \in left
      BY <2>8, <2>11 DEF RowsAfter
    <3>2. R[j + 1] # r /\ ~Before(r, R[j + 1])
      BY <2>9, <2>10, <2>11
    <3> QED
      BY <1>3, <3>1, <3>2
  <2>13. \A x \in 1..Len(R) : R[x] = r <=> x = j + 1
    <3> TAKE x \in 1..Len(R)
    <3>1. x < j + 1 => R[x] # R[j + 1]
      BY <2>9, <2>11
    <3>2. x > j + 1 => R[x] # R[j + 1]
      BY <2>9, <2>11
    <3> QED
      BY <1>1, <2>10, <2>11, <2>12, <3>1, <3>2
  <2>14. left \ {r} = RowsAfter(R, j + 1)
    <3>1. \A x : x \in (j + 1)..Len(R) <=> x = j + 1 \/ x \in ((j + 1) + 1)..Len(R)
      BY <1>1, <2>11
    <3>2. \A x \in ((j + 1) + 1)..Len(R) : x \in 1..Len(R) /\ x # j + 1
      BY <1>1
    <3> QED
      BY <2>8, <2>10, <2>12, <2>13, <3>1, <3>2 DEF RowsAfter
  <2> QED
    BY <2>6, <2>7, <2>10, <2>11, <2>12, <2>13, <2>14
<1> QED
  BY <1>5, <1>6

\* What the row that comes next gives, in terms of shares.
LEMMA RowGives ==
  ASSUME TypeOK, NEW p \in Products, NEW a, NEW R, NEW nd, NEW fr,
         Inputs(p, a, R, nd, fr),
         NEW m \in 0..Len(a), NEW j \in 0..Len(R), Filled(a, R, nd, fr, m, j),
         Running(a, m), j < Len(R), NEW r \in Rows, r = R[j + 1], Remaining > 0
  PROVE  LET share == Share(nd, fr, m + 1, j + 1) IN
           /\ share \in Nat
           /\ Got(nd, fr, m, j + 1) = fromStock + share
           /\ taken[r] \in Nat /\ Part(nd, fr, m + 1, j + 1) = taken[r] + share
           /\ Offered(r) <= 0 => share = 0
           /\ Offered(r) > 0 => share > 0 /\ Smaller(Remaining, Offered(r)) = share
<1>1. Len(a) \in Nat /\ Len(R) \in Nat
  BY InputsAre
<1>2. m < Len(a) /\ m + 1 \in 1..Len(a) /\ m + 1 \in 0..Len(a) /\ a[m + 1] = At
  BY <1>1 DEF Running
<1>3. /\ j + 1 \in 1..Len(R) /\ j + 1 \in 0..Len(R) /\ ~(j + 1 <= j)
      /\ (m + 1) - 1 = m /\ (j + 1) - 1 = j
  BY <1>1
<1>4. nd[m + 1] \in Nat /\ nd[m + 1] = items[At].quantity
  BY <1>2, InputsAre
<1>5. fr[j + 1] \in Int /\ fr[j + 1] = free[r]
  BY <1>3, InputsAre
<1>6. fromStock = Got(nd, fr, m, j)
  BY DEF Filled
<1>7. taken[r] = Part(nd, fr, m, j + 1) /\ taken[r] \in Nat
  BY <1>3 DEF Filled, TypeOK
<1>8. /\ Upto(nd, m) \in Nat /\ Upto(nd, m + 1) \in Nat
      /\ Upto(nd, m + 1) = Upto(nd, m) + nd[m + 1]
  BY <1>2, TotalsAre
<1>9. /\ Upto(fr, j) \in Nat /\ Upto(fr, j + 1) \in Nat
      /\ Upto(fr, j + 1) = Upto(fr, j) + Positive(fr[j + 1])
  BY <1>3, TotalsAre
<1>10. Remaining = nd[m + 1] - fromStock /\ Offered(r) = fr[j + 1] - taken[r]
  BY <1>4, <1>5 DEF Remaining, Offered
<1>11. nd[m + 1] - Positive(Smaller(Upto(nd, m + 1), Upto(fr, j)) - Upto(nd, m)) > 0
  BY <1>6, <1>10 DEF Got
<1>12. LET part == Positive(Smaller(Upto(nd, m), Upto(fr, j + 1)) - Upto(fr, j))
           got == Positive(Smaller(Upto(nd, m + 1), Upto(fr, j)) - Upto(nd, m))
           share == Positive(Smaller(Upto(nd, m + 1), Upto(fr, j + 1)) - Larger(Upto(nd, m), Upto(fr, j))) IN
         /\ Positive(Smaller(Upto(nd, m + 1), Upto(fr, j + 1)) - Upto(nd, m)) = got + share
         /\ Positive(Smaller(Upto(nd, m + 1), Upto(fr, j + 1)) - Upto(fr, j)) = part + share
         /\ share \in Nat
         /\ fr[j + 1] - part <= 0 => share = 0
         /\ fr[j + 1] - part > 0 => share > 0 /\ Smaller(nd[m + 1] - got, fr[j + 1] - part) = share
  <2>1. PICK u \in Nat, w \in Nat, v \in Nat, x \in Nat, need \in Nat, f \in Int :
          /\ u = Upto(nd, m) /\ w = Upto(nd, m + 1) /\ v = Upto(fr, j) /\ x = Upto(fr, j + 1)
          /\ need = nd[m + 1] /\ f = fr[j + 1]
    BY <1>4, <1>5, <1>8, <1>9
  <2>2. w = u + need /\ x = v + Positive(f) /\ need - Positive(Smaller(w, v) - u) > 0
    BY <1>8, <1>9, <1>11, <2>1
  <2>3. LET part == Positive(Smaller(u, x) - v)
            got == Positive(Smaller(w, v) - u)
            share == Positive(Smaller(w, x) - Larger(u, v)) IN
          /\ Positive(Smaller(w, x) - u) = got + share
          /\ Positive(Smaller(w, x) - v) = part + share
          /\ share \in Nat
          /\ f - part <= 0 => share = 0
          /\ f - part > 0 => share > 0 /\ Smaller(need - got, f - part) = share
    BY <2>2, GreedyIsShare, SMTT(30)
  <2> QED
    BY <2>1, <2>3
<1>13. /\ Share(nd, fr, m + 1, j + 1)
            = Positive(Smaller(Upto(nd, m + 1), Upto(fr, j + 1)) - Larger(Upto(nd, m), Upto(fr, j)))
       /\ Got(nd, fr, m, j + 1) = Positive(Smaller(Upto(nd, m + 1), Upto(fr, j + 1)) - Upto(nd, m))
       /\ Part(nd, fr, m + 1, j + 1) = Positive(Smaller(Upto(nd, m + 1), Upto(fr, j + 1)) - Upto(fr, j))
       /\ taken[r] = Positive(Smaller(Upto(nd, m), Upto(fr, j + 1)) - Upto(fr, j))
       /\ fromStock = Positive(Smaller(Upto(nd, m + 1), Upto(fr, j)) - Upto(nd, m))
  BY <1>3, <1>6, <1>7 DEF Share, Got, Part
<1> QED
  BY <1>7, <1>10, <1>12, <1>13

\* One row further, for the product it is of and for the others.
LEMMA RowAlong ==
  ASSUME TypeOK, Fills, NEW p \in Products, NEW a, NEW R, NEW nd, NEW fr,
         Inputs(p, a, R, nd, fr),
         NEW m \in 0..Len(a), NEW j \in 0..Len(R), Filled(a, R, nd, fr, m, j),
         NEW r \in Rows, SkipRow(r) \/ TakeRow(r)
  PROVE  \E k \in 0..Len(R) : Filled(a, R, nd, fr, m, k)'
<1>0. /\ Len(a) \in Nat /\ Len(R) \in Nat
      /\ \A k \in 1..Len(R) : R[k] \in Rows
  BY InputsAre
<1>1. /\ Comes(r) /\ Remaining > 0 /\ left' = left \ {r}
      /\ UNCHANGED <<items, free, home, excluded, lines>>
  BY DEF SkipRow, TakeRow, Comes, After, input
<1>2. At' = At /\ Running(a, m)' = Running(a, m)
  BY <1>1 DEF At, Running
<1>3. \A i \in 1..Len(a) : i <= m <=> a[i] < At'
  BY <1>2 DEF Filled
<1> DEFINE take == Smaller(Remaining, Offered(r))
<1>4. \/ /\ Offered(r) <= 0
         /\ UNCHANGED <<fromStock, taken, reservations>>
      \/ /\ Offered(r) > 0
         /\ fromStock' = fromStock + take /\ taken' = [taken EXCEPT ![r] = @ + take]
         /\ reservations' = reservations \cup {[line |-> At, row |-> r, quantity |-> take]}
  <2>1. Offered(r) \in Int
    BY FreeIsInt DEF Offered, TypeOK
  <2> QED
    BY <2>1 DEF SkipRow, TakeRow, Gives
<1> HIDE DEF take
<1>5. ASSUME \A i \in 1..Len(a) : a[i] # At, \A k \in 1..Len(R) : R[k] # r
      PROVE  Filled(a, R, nd, fr, m, j)'
  <2>1. ~Running(a, m)
    BY <1>0, <1>5 DEF Running
  <2>2. \A i \in 1..Len(a), k \in 1..Len(R) : Given(a[i], R[k])' = Given(a[i], R[k])
    BY <1>4, <1>5 DEF Given
  <2>3. \A k \in 1..Len(R) : taken'[R[k]] = taken[R[k]]
    BY <1>0, <1>4, <1>5 DEF TypeOK
  <2> QED
    BY <1>2, <1>3, <2>1, <2>2, <2>3 DEF Filled
<1>6. ASSUME /\ Running(a, m) /\ j < Len(R) /\ r = R[j + 1]
             /\ \A i \in 1..Len(a) : a[i] = At <=> i = m + 1
             /\ \A k \in 1..Len(R) : R[k] = r <=> k = j + 1
             /\ left \ {r} = RowsAfter(R, j + 1)
      PROVE  Filled(a, R, nd, fr, m, j + 1)'
  <2>1. PICK share : share = Share(nd, fr, m + 1, j + 1)
    OBVIOUS
  <2>2. /\ share \in Nat
        /\ Got(nd, fr, m, j + 1) = fromStock + share
        /\ taken[r] \in Nat /\ Part(nd, fr, m + 1, j + 1) = taken[r] + share
        /\ Offered(r) <= 0 => share = 0
        /\ Offered(r) > 0 => share > 0 /\ take = share
    BY <1>1, <1>6, <2>1, RowGives DEF take
  <2>3. /\ fromStock' = fromStock + share
        /\ \A s \in Rows : taken'[s] = IF s = r THEN taken[r] + share ELSE taken[s]
    <3>1. fromStock \in Nat /\ taken \in [Rows -> Nat]
      BY DEF TypeOK
    <3>2. CASE Offered(r) <= 0 /\ UNCHANGED <<fromStock, taken, reservations>>
      BY <2>2, <3>1, <3>2
    <3>3. CASE Offered(r) > 0 /\ fromStock' = fromStock + take /\ taken' = [taken EXCEPT ![r] = @ + take]
      BY <2>2, <3>1, <3>3
    <3> QED
      BY <1>4, <3>2, <3>3
  <2>4. reservations' = reservations \cup
          (IF share = 0 THEN {} ELSE {[line |-> At, row |-> r, quantity |-> share]})
    BY <1>4, <2>2
  <2>5. j + 1 \in 1..Len(R) /\ m + 1 \in 1..Len(a) /\ a[m + 1] = At
    BY <1>0, <1>6 DEF Running
  <2>6. left' = RowsAfter(R, j + 1) /\ fromStock' = Got(nd, fr, m, j + 1)
    BY <1>1, <1>6, <2>2, <2>3
  <2>7. ASSUME NEW i \in 1..Len(a), NEW k \in 1..Len(R)
        PROVE  Given(a[i], R[k])' =
                 IF i <= m \/ (i = m + 1 /\ k <= j + 1) THEN Reserved(a, R, nd, fr, i, k) ELSE {}
    <3>1. Given(a[i], R[k]) =
            IF i <= m \/ (i = m + 1 /\ k <= j) THEN Reserved(a, R, nd, fr, i, k) ELSE {}
      BY DEF Filled
    <3>2. CASE i = m + 1 /\ k = j + 1
      <4>1. a[i] = At /\ R[k] = r
        BY <1>6, <3>2, <2>5
      <4>2. Given(a[i], R[k]) = {}
        BY <1>0, <3>1, <3>2
      <4>3. Given(a[i], R[k])' =
              IF share = 0 THEN {} ELSE {[line |-> At, row |-> r, quantity |-> share]}
        BY <2>4, <4>1, <4>2 DEF Given
      <4>4. Reserved(a, R, nd, fr, i, k) =
              IF share = 0 THEN {} ELSE {[line |-> At, row |-> r, quantity |-> share]}
        BY <2>1, <3>2, <4>1 DEF Reserved
      <4> QED
        BY <3>2, <4>3, <4>4
    <3>3. CASE ~(i = m + 1 /\ k = j + 1)
      <4>1. a[i] # At \/ R[k] # r
        BY <1>6, <3>3
      <4>2. Given(a[i], R[k])' = Given(a[i], R[k])
        BY <2>4, <4>1 DEF Given
      <4>3. (i = m + 1 /\ k <= j + 1) <=> (i = m + 1 /\ k <= j)
        BY <1>0, <3>3
      <4> QED
        BY <3>1, <4>2, <4>3
    <3> QED
      BY <3>2, <3>3
  <2>8. ASSUME NEW k \in 1..Len(R)
        PROVE  taken'[R[k]] = IF k <= j + 1 THEN Part(nd, fr, m + 1, k) ELSE Part(nd, fr, m, k)
    <3>1. taken[R[k]] = IF k <= j THEN Part(nd, fr, m + 1, k) ELSE Part(nd, fr, m, k)
      BY DEF Filled
    <3>2. CASE k = j + 1
      BY <1>0, <1>6, <2>2, <2>3, <3>2
    <3>3. CASE k # j + 1
      <4>1. taken'[R[k]] = taken[R[k]]
        BY <1>0, <1>6, <2>3, <3>3
      <4>2. k <= j + 1 <=> k <= j
        BY <1>0, <3>3
      <4> QED
        BY <3>1, <4>1, <4>2
    <3> QED
      BY <3>2, <3>3
  <2> QED
    BY <1>2, <1>3, <1>6, <2>6, <2>7, <2>8 DEF Filled
<1>7. j + 1 \in 0..Len(R) \/ ~(j < Len(R))
  BY <1>0
<1> QED
  BY <1>1, <1>5, <1>6, <1>7, RowComes

LEMMA InputsKept ==
  ASSUME UNCHANGED <<items, free, home, excluded>>, NEW p, NEW a, NEW R, NEW nd, NEW fr
  PROVE  Inputs(p, a, R, nd, fr)' <=> Inputs(p, a, R, nd, fr)
<1>1. Asking(p, a)' <=> Asking(p, a)
  BY DEF Asking
<1>2. FromRows(p, R)' <=> FromRows(p, R)
  BY DEF FromRows, RowsOf, Before
<1> QED
  BY <1>1, <1>2 DEF Inputs

LEMMA StepAlong == TypeOK /\ Fills /\ AlongShares /\ [Next]_vars => AlongShares'
<1> SUFFICES ASSUME TypeOK, Fills, AlongShares, [Next]_vars,
                    NEW p \in Products, NEW a, NEW R, NEW nd, NEW fr, Inputs(p, a, R, nd, fr)'
             PROVE  \E m \in 0..Len(a), j \in 0..Len(R) : Filled(a, R, nd, fr, m, j)'
  BY DEF AlongShares
<1>1. UNCHANGED <<items, free, home, excluded>>
  BY DEF Next, NextLine, SkipRow, TakeRow, vars, input
<1>2. Inputs(p, a, R, nd, fr)
  BY <1>1, InputsKept
<1>3. PICK m \in 0..Len(a), j \in 0..Len(R) : Filled(a, R, nd, fr, m, j)
  BY <1>2 DEF AlongShares
<1>4. CASE UNCHANGED vars
  <2>1. UNCHANGED <<left, fromStock, taken, lines, reservations>>
    BY <1>4 DEF vars, input
  <2>2. /\ At' = At /\ Running(a, m)' = Running(a, m)
        /\ \A i, k : Given(i, k)' = Given(i, k)
    BY <2>1 DEF At, Running, Given
  <2>3. Filled(a, R, nd, fr, m, j)'
    BY <1>3, <2>1, <2>2 DEF Filled
  <2> QED
    BY <2>3
<1>5. CASE NextLine
  <2>1. 0 \in 0..Len(R)
    BY <1>2, InputsAre
  <2> QED
    BY <1>2, <1>3, <1>5, <2>1, LineAlong
<1>6. ASSUME NEW r \in Rows, SkipRow(r) \/ TakeRow(r)
      PROVE  \E k \in 0..Len(R) : Filled(a, R, nd, fr, m, k)'
  BY <1>2, <1>3, <1>6, RowAlong
<1> QED
  BY <1>4, <1>5, <1>6 DEF Next

LEMMA AlongIsShares == TypeOK /\ AlongShares => PlanIsShares
<1> SUFFICES ASSUME TypeOK, AlongShares, Done, NEW p \in Products
             PROVE  LET asking == AskingFor(p)
                        rows == HomeFirst(p)
                        shares == Shares([k \in DOMAIN asking |-> items[asking[k]].quantity],
                                         [k \in DOMAIN rows |-> free[rows[k]]])
                    IN \A i \in DOMAIN asking, k \in DOMAIN rows :
                         Given(asking[i], rows[k]) =
                           IF shares[i][k] = 0 THEN {}
                           ELSE {[line |-> asking[i], row |-> rows[k], quantity |-> shares[i][k]]}
  BY DEF PlanIsShares
<1>1. PICK a, R : a = AskingFor(p) /\ R = HomeFirst(p)
  OBVIOUS
<1>2. Asking(p, a) /\ FromRows(p, R)
  BY <1>1, AskingListed, HomeFirstListed
<1>3. DOMAIN a = 1..Len(a) /\ DOMAIN R = 1..Len(R) /\ Len(a) \in Nat /\ Len(R) \in Nat
  BY <1>2 DEF Asking, FromRows
<1>4. PICK nd, fr : /\ nd = [i \in 1..Len(a) |-> items[a[i]].quantity]
                    /\ fr = [k \in 1..Len(R) |-> free[R[k]]]
  OBVIOUS
<1>5. Inputs(p, a, R, nd, fr)
  BY <1>2, <1>4 DEF Inputs
<1>6. PICK m \in 0..Len(a), j \in 0..Len(R) : Filled(a, R, nd, fr, m, j)
  BY <1>5 DEF AlongShares
<1>7. \A i \in 1..Len(a) : i <= m
  <2> TAKE i \in 1..Len(a)
  <2>1. a[i] \in 1..Len(items) /\ Len(items) = Len(lines) /\ Len(items) \in Nat
    BY <1>2 DEF Asking, Done, TypeOK
  <2>2. a[i] < At
    BY <2>1 DEF At
  <2> QED
    BY <1>6, <2>2 DEF Filled
<1>8. \A i \in 1..Len(a), k \in 1..Len(R) : Given(a[i], R[k]) = Reserved(a, R, nd, fr, i, k)
  BY <1>6, <1>7 DEF Filled
<1>9. Shares(nd, fr) = [i \in 1..Len(a) |-> [k \in 1..Len(R) |-> Share(nd, fr, i, k)]]
  BY <1>4 DEF Shares
<1>10. \A i \in 1..Len(a), k \in 1..Len(R) :
         Given(a[i], R[k]) =
           IF Shares(nd, fr)[i][k] = 0 THEN {}
           ELSE {[line |-> a[i], row |-> R[k], quantity |-> Shares(nd, fr)[i][k]]}
  BY <1>8, <1>9, ZenonT(30) DEF Reserved
<1>11. /\ nd = [k \in DOMAIN a |-> items[a[k]].quantity]
       /\ fr = [k \in DOMAIN R |-> free[R[k]]]
  BY <1>3, <1>4
<1>12. /\ nd = [k \in DOMAIN AskingFor(p) |-> items[AskingFor(p)[k]].quantity]
       /\ fr = [k \in DOMAIN HomeFirst(p) |-> free[HomeFirst(p)[k]]]
  BY <1>1, <1>11
<1>13. \A i \in DOMAIN AskingFor(p), k \in DOMAIN HomeFirst(p) :
         Given(AskingFor(p)[i], HomeFirst(p)[k]) =
           IF Shares(nd, fr)[i][k] = 0 THEN {}
           ELSE {[line |-> AskingFor(p)[i], row |-> HomeFirst(p)[k],
                  quantity |-> Shares(nd, fr)[i][k]]}
  BY <1>1, <1>3, <1>10
<1> QED
  BY <1>12, <1>13

\* What the loop gives each line from each row is what their shares come to: the
\* shares that a handoff reserves are those of computeHandoffPlan.
THEOREM PlanShares == Spec => []PlanIsShares
<1> QED
  BY InitTypes, StepTypes, InitFills, StepFills, InitAlong, StepAlong, AlongIsShares, PTL DEF Spec
================================================================================
