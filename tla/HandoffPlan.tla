------------------------------ MODULE HandoffPlan ------------------------------
(***************************************************************************)
(* computeHandoffPlan (apps/api/src/quotes/quote-handoff-plan.ts), step by  *)
(* step: the lines of a quote in order, each filled from the rows of its    *)
(* product, the product's default warehouse first and the others by code,   *)
(* and what the plan comes to (HandoffShares).                              *)
(***************************************************************************)
EXTENDS HandoffShares, FiniteSets

CONSTANTS
  Rows,         \* stock rows, numbered in the order of their ids
  ProductOf,    \* [Rows -> Products]
  WarehouseOf,  \* [Rows -> warehouses, numbered in the order of their codes]
  Products,
  Items,        \* what a line may be: [kind, product, quantity]
  MaxLines,     \* bound: lines of a quote
  FreeLevels    \* bound: onHand - reserved of a row

Warehouses == {WarehouseOf[r] : r \in Rows}

ASSUME PlanAssumption ==
  /\ Rows \subseteq Nat /\ IsFiniteSet(Rows)
  /\ ProductOf \in [Rows -> Products] /\ Warehouses \subseteq Nat
  /\ Items \subseteq [kind : {"PRODUCT", "CUSTOM", "SERVICE"}, product : Products, quantity : Nat]
  /\ MaxLines \in Nat /\ FreeLevels \subseteq Int

VARIABLES
  items, free, home, excluded,  \* the input, home a default warehouse or none
  left,         \* rows the current line has not come to yet
  fromStock,    \* what it got
  taken,        \* what the plan takes from a row
  lines,        \* fromStock of the lines that are done
  reservations

input == <<items, free, home, excluded>>
vars == <<input, left, fromStock, taken, lines, reservations>>

\* The line being filled.
At == Len(lines) + 1

RowsFor(i) ==
  {r \in Rows : i \in DOMAIN items /\ items[i].kind = "PRODUCT"
                /\ ProductOf[r] = items[i].product /\ WarehouseOf[r] \notin excluded}

\* Mutant: the default warehouse comes in the order of its code.
ByCode(r, s) ==
  \/ WarehouseOf[r] < WarehouseOf[s]
  \/ WarehouseOf[r] = WarehouseOf[s] /\ r < s

Before(r, s) ==
  LET AtHome(t) == WarehouseOf[t] \in home[ProductOf[t]] IN
  IF AtHome(r) # AtHome(s) THEN AtHome(r)
  ELSE WarehouseOf[r] < WarehouseOf[s] \/ (WarehouseOf[r] = WarehouseOf[s] /\ r < s)

First(r) == r \in left /\ \A s \in left \ {r} : Before(r, s)

Remaining == items[At].quantity - fromStock

\* Mutant: what an earlier line took is offered again.
OfferedAgain(r) == free[r]

Offered(r) == free[r] - taken[r]

\* Mutant: a row gives what it has, also when that is less than none.
GivesAnything(r) == TRUE

\* A negative free stock counts as none.
Gives(r) == Offered(r) > 0

\* Mutant: the first empty row ends the line.
LeaveOff(r) == {}

After(r) == left \ {r}

\* A line that has what it needs, or has no row left, is listed.
NextLine ==
  /\ At <= Len(items)
  /\ left = {} \/ Remaining <= 0
  /\ lines' = Append(lines, fromStock)
  /\ fromStock' = 0
  /\ left' = RowsFor(At + 1)
  /\ UNCHANGED <<input, taken, reservations>>

Comes(r) == At <= Len(items) /\ Remaining > 0 /\ First(r)

SkipRow(r) ==
  /\ Comes(r) /\ ~Gives(r)
  /\ left' = After(r)
  /\ UNCHANGED <<input, fromStock, taken, lines, reservations>>

TakeRow(r) ==
  /\ Comes(r) /\ Gives(r)
  /\ LET take == Smaller(Remaining, Offered(r)) IN
       /\ taken' = [taken EXCEPT ![r] = @ + take]
       /\ fromStock' = fromStock + take
       /\ reservations' = reservations \cup {[line |-> At, row |-> r, quantity |-> take]}
  /\ left' = left \ {r}
  /\ UNCHANGED <<input, lines>>

Init ==
  /\ items \in UNION {[1..n -> Items] : n \in 1..MaxLines}
  /\ free \in [Rows -> FreeLevels]
  /\ home \in [Products -> {{w} : w \in Warehouses} \cup {{}}]
  /\ excluded \in SUBSET Warehouses
  /\ lines = <<>> /\ fromStock = 0 /\ reservations = {}
  /\ taken = [r \in Rows |-> 0]
  /\ left = RowsFor(1)

Next == NextLine \/ \E r \in Rows : SkipRow(r) \/ TakeRow(r)

Spec == Init /\ [][Next]_vars

-----------------------------------------------------------------------------
(* Properties.                                                             *)

TypeOK ==
  /\ items \in Seq(Items) /\ free \in [Rows -> FreeLevels]
  /\ home \in [Products -> SUBSET Warehouses] /\ excluded \subseteq Warehouses
  /\ left \subseteq Rows /\ fromStock \in Nat /\ taken \in [Rows -> Nat]
  /\ lines \in Seq(Nat)
  /\ reservations \subseteq [line : Nat, row : Rows, quantity : Nat]

Done == Len(lines) = Len(items)

Given(i, r) == {h \in reservations : h.line = i /\ h.row = r}

\* However many lines ask for it, a row gives no more than is free in it, and
\* nothing when that is negative.
TakesOnlyFree == \A r \in Rows : taken[r] <= Positive(free[r])

\* A line is short only when every row it may take from is empty.
ShortOnlyWhenEmpty == Done => \A i \in DOMAIN items :
  items[i].kind = "PRODUCT" /\ lines[i] < items[i].quantity =>
    \A r \in RowsFor(i) : taken[r] >= free[r]

\* A set in an order, as a sequence.
InOrder(S, before(_, _)) ==
  CHOOSE s \in [1..Cardinality(S) -> S] : \A i, j \in DOMAIN s : i < j => before(s[i], s[j])

\* The lines that ask for a product, and its rows in the order documented.
AskingFor(p) ==
  InOrder({i \in DOMAIN items : items[i].kind = "PRODUCT" /\ items[i].product = p}, <)

RowsOf(p) == {r \in Rows : ProductOf[r] = p /\ WarehouseOf[r] \notin excluded}

HomeFirst(p) ==
  InOrder({r \in RowsOf(p) : WarehouseOf[r] \in home[p]}, ByCode)
    \o InOrder({r \in RowsOf(p) : WarehouseOf[r] \notin home[p]}, ByCode)

\* Lines of one product, in order, and its rows in the order documented: what the
\* greedy loop gives each line from each row is what their shares come to, one
\* reservation or none for each (QuoteBomItem, StockItem), which is unique.
PlanIsShares == Done => \A p \in Products :
  LET asking == AskingFor(p)
      rows == HomeFirst(p)
      shares == Shares([k \in DOMAIN asking |-> items[asking[k]].quantity],
                       [k \in DOMAIN rows |-> free[rows[k]]])
  IN \A i \in DOMAIN asking, k \in DOMAIN rows :
       Given(asking[i], rows[k]) =
         IF shares[i][k] = 0 THEN {}
         ELSE {[line |-> asking[i], row |-> rows[k], quantity |-> shares[i][k]]}
=============================================================================
