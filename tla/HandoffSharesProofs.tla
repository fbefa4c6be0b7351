-------------------------- MODULE HandoffSharesProofs --------------------------
(***************************************************************************)
(* What the shares of a handoff plan come to: totals, and what all lines   *)
(* together take from one row.                                             *)
(***************************************************************************)
EXTENDS HandoffShares, FiniteSums

Numbers1(a, n) == \A i \in 1..n : a[i] \in Int

LEMMA PositiveBounds == ASSUME NEW n \in Int PROVE Positive(n) \in Nat /\ n <= Positive(n)
BY DEF Positive, Larger

LEMMA UptoType ==
  ASSUME NEW a, NEW n \in Nat, Numbers1(a, n)
  PROVE  Upto(a, n) \in Nat
<1>1. IsFiniteSet(1..n)
  BY FS_Interval
<1>2. \A i \in 1..n : [j \in 1..n |-> Positive(a[j])][i] \in Nat
  BY PositiveBounds DEF Numbers1
<1> QED
  BY <1>1, <1>2, SumNat DEF Upto

LEMMA UptoNone == ASSUME NEW a PROVE Upto(a, 0) = 0
<1>1. 1..0 = {}
  OBVIOUS
<1> QED
  BY <1>1, SumEmpty DEF Upto

LEMMA UptoNext ==
  ASSUME NEW a, NEW n \in Nat \ {0}, Numbers1(a, n)
  PROVE  Upto(a, n) = Upto(a, n - 1) + Positive(a[n])
<1> DEFINE f == [i \in 1..n |-> Positive(a[i])]
           g == [i \in 1..(n - 1) |-> Positive(a[i])]
<1>1. IsFiniteSet(1..n) /\ IsFiniteSet(1..(n - 1))
  BY FS_Interval
<1>2. \A i \in 1..n : f[i] \in Int
  BY PositiveBounds DEF Numbers1
<1>3. (1..n) \ {n} = 1..(n - 1) /\ n \in 1..n
  OBVIOUS
<1>4. \A i \in 1..(n - 1) : f[i] = g[i]
  OBVIOUS
<1>5. f[n] = Positive(a[n]) /\ f[n] \in Int
  BY <1>2, <1>3
<1>6. Upto(a, n) = SumFunctionOnSet(f, 1..n) /\ Upto(a, n - 1) = SumFunctionOnSet(g, 1..(n - 1))
  BY DEF Upto
<1> HIDE DEF f, g
<1>7. SumFunctionOnSet(f, 1..n) = f[n] + SumFunctionOnSet(f, 1..(n - 1))
  <2>1. SumFunctionOnSet(f, 1..n) = f[n] + SumFunctionOnSet(f, (1..n) \ {n})
    BY <1>1, <1>2, <1>3, SumTakeOut
  <2> QED
    BY <1>3, <2>1
<1>8. SumFunctionOnSet(f, 1..(n - 1)) = SumFunctionOnSet(g, 1..(n - 1))
  BY <1>1, <1>4, SumSame
<1>9. Upto(a, n - 1) \in Int
  <2>1. Numbers1(a, n - 1)
    BY DEF Numbers1
  <2> QED
    BY <2>1, UptoType
<1> QED
  BY <1>5, <1>6, <1>7, <1>8, <1>9

LEMMA UptoGrows ==
  ASSUME NEW a, NEW n \in Nat, Numbers1(a, n), NEW i \in 0..n
  PROVE  Upto(a, i) <= Upto(a, n)
<1> DEFINE Bad == {k \in Nat : i <= k /\ k <= n /\ ~(Upto(a, i) <= Upto(a, k))}
<1>1. ASSUME NEW k \in Bad, \A j \in Bad : k <= j
      PROVE  FALSE
  <2>1. k \in Nat /\ i <= k /\ k <= n /\ Numbers1(a, i) /\ Numbers1(a, k) /\ Numbers1(a, k - 1)
    BY DEF Numbers1
  <2>2. Upto(a, i) \in Nat
    BY <2>1, UptoType
  <2>3. k # i
    BY <2>2
  <2>4. k \in Nat \ {0} /\ k - 1 \in Nat /\ i <= k - 1 /\ k - 1 <= n /\ ~(k <= k - 1) /\ k \in 1..n
    BY <2>1, <2>3
  <2>5. Upto(a, i) <= Upto(a, k - 1)
    <3>1. k - 1 \notin Bad
      BY <1>1, <2>4
    <3> QED
      BY <2>4, <3>1
  <2>6. Upto(a, k) = Upto(a, k - 1) + Positive(a[k]) /\ Positive(a[k]) \in Nat
    BY <2>1, <2>4, UptoNext, PositiveBounds DEF Numbers1
  <2>7. Upto(a, k - 1) \in Nat
    BY <2>1, <2>4, UptoType
  <2> QED
    BY <2>2, <2>5, <2>6, <2>7
<1>2. Bad = {}
  <2>1. Bad \in SUBSET Nat
    OBVIOUS
  <2> HIDE DEF Bad
  <2> QED
    BY <1>1, <2>1, LeastNumber
<1> QED
  BY <1>2

LEMMA ShareType ==
  ASSUME NEW needed, NEW free, NEW i \in Nat \ {0}, NEW k \in Nat \ {0},
         Numbers1(needed, i), Numbers1(free, k)
  PROVE  Share(needed, free, i, k) \in Nat
<1>1. Numbers1(needed, i - 1) /\ Numbers1(free, k - 1)
  BY DEF Numbers1
<1>2. /\ Upto(needed, i) \in Int /\ Upto(free, k) \in Int
      /\ Upto(needed, i - 1) \in Int /\ Upto(free, k - 1) \in Int
  BY <1>1, UptoType
<1> QED
  BY <1>2, PositiveBounds DEF Share, Smaller, Larger

\* What the lines up to n take from row k.
TakenBy(needed, free, n, k) ==
  SumFunctionOnSet([i \in 1..n |-> Share(needed, free, i, k)], 1..n)

LEMMA TakenNext ==
  ASSUME NEW needed, NEW free, NEW n \in Nat \ {0}, NEW k \in Nat \ {0},
         Numbers1(needed, n), Numbers1(free, k)
  PROVE  TakenBy(needed, free, n, k)
           = TakenBy(needed, free, n - 1, k) + Share(needed, free, n, k)
<1> DEFINE f == [i \in 1..n |-> Share(needed, free, i, k)]
           g == [i \in 1..(n - 1) |-> Share(needed, free, i, k)]
<1>1. IsFiniteSet(1..n) /\ IsFiniteSet(1..(n - 1))
  BY FS_Interval
<1>2. \A i \in 1..n : f[i] \in Int
  <2> TAKE i \in 1..n
  <2>1. Numbers1(needed, i) /\ i \in Nat \ {0}
    BY DEF Numbers1
  <2> QED
    BY <2>1, ShareType
<1>3. (1..n) \ {n} = 1..(n - 1) /\ n \in 1..n
  OBVIOUS
<1>4. \A i \in 1..(n - 1) : f[i] = g[i]
  OBVIOUS
<1>5. f[n] = Share(needed, free, n, k) /\ f[n] \in Int
  BY <1>2, <1>3
<1>6. /\ TakenBy(needed, free, n, k) = SumFunctionOnSet(f, 1..n)
      /\ TakenBy(needed, free, n - 1, k) = SumFunctionOnSet(g, 1..(n - 1))
  BY DEF TakenBy
<1>7. \A i \in 1..(n - 1) : f[i] \in Int
  BY <1>2
<1> HIDE DEF f, g
<1>8. SumFunctionOnSet(f, 1..n) = f[n] + SumFunctionOnSet(f, 1..(n - 1))
  <2>1. SumFunctionOnSet(f, 1..n) = f[n] + SumFunctionOnSet(f, (1..n) \ {n})
    BY <1>1, <1>2, <1>3, SumTakeOut
  <2> QED
    BY <1>3, <2>1
<1>9. SumFunctionOnSet(f, 1..(n - 1)) = SumFunctionOnSet(g, 1..(n - 1))
  BY <1>1, <1>4, SumSame
<1>10. SumFunctionOnSet(f, 1..(n - 1)) \in Int
  BY <1>1, <1>7, SumType
<1> QED
  BY <1>5, <1>6, <1>8, <1>9, <1>10

\* Together the lines take the part of the row that the total asked for covers.
LEMMA TakenIs ==
  ASSUME NEW needed, NEW free, NEW m \in Nat, NEW k \in Nat \ {0},
         Numbers1(needed, m), Numbers1(free, k)
  PROVE  TakenBy(needed, free, m, k)
           = Positive(Smaller(Upto(needed, m), Upto(free, k)) - Upto(free, k - 1))
<1> DEFINE Good(n) == TakenBy(needed, free, n, k)
                        = Positive(Smaller(Upto(needed, n), Upto(free, k)) - Upto(free, k - 1))
           Bad == {n \in Nat : n <= m /\ ~Good(n)}
<1>1. /\ Upto(free, k) \in Nat /\ Upto(free, k - 1) \in Nat
      /\ Upto(free, k - 1) <= Upto(free, k)
  <2>1. Numbers1(free, k - 1) /\ free[k] \in Int
    BY DEF Numbers1
  <2>2. Upto(free, k) \in Nat /\ Upto(free, k - 1) \in Nat
    BY <2>1, UptoType
  <2>3. Upto(free, k) = Upto(free, k - 1) + Positive(free[k])
    BY UptoNext
  <2>4. Positive(free[k]) \in Nat
    BY <2>1, PositiveBounds
  <2> QED
    BY <2>2, <2>3, <2>4
<1>2. Good(0)
  <2>1. 1..0 = {}
    OBVIOUS
  <2>2. TakenBy(needed, free, 0, k) = 0
    BY <2>1, SumEmpty DEF TakenBy
  <2>3. Positive(Smaller(0, Upto(free, k)) - Upto(free, k - 1)) = 0
    BY <1>1 DEF Positive, Smaller, Larger
  <2> QED
    BY <2>2, <2>3, UptoNone
<1>3. ASSUME NEW n \in Bad, \A j \in Bad : n <= j
      PROVE  FALSE
  <2>1. n \in Nat \ {0} /\ n <= m
    BY <1>2
  <2>2. Good(n - 1)
    <3>1. n - 1 \in Nat /\ n - 1 <= m /\ ~(n <= n - 1)
      BY <2>1
    <3>2. n - 1 \notin Bad
      BY <1>3, <3>1
    <3> QED
      BY <3>1, <3>2
  <2>3. Numbers1(needed, n) /\ Numbers1(needed, n - 1) /\ needed[n] \in Int
    BY <2>1 DEF Numbers1
  <2>4. /\ Upto(needed, n) \in Nat /\ Upto(needed, n - 1) \in Nat
        /\ Upto(needed, n - 1) <= Upto(needed, n)
    <3>1. Upto(needed, n) \in Nat /\ Upto(needed, n - 1) \in Nat
      BY <2>1, <2>3, UptoType
    <3>2. Upto(needed, n) = Upto(needed, n - 1) + Positive(needed[n])
      BY <2>1, <2>3, UptoNext
    <3>3. Positive(needed[n]) \in Nat
      BY <2>3, PositiveBounds
    <3> QED
      BY <3>1, <3>2, <3>3
  <2>5. TakenBy(needed, free, n, k)
          = TakenBy(needed, free, n - 1, k) + Share(needed, free, n, k)
    BY <2>1, <2>3, TakenNext
  <2>6. ASSUME NEW x \in Nat, NEW y \in Nat, x <= y, NEW u \in Nat, NEW v \in Nat, u <= v
        PROVE  Positive(Smaller(y, v) - u)
                 = Positive(Smaller(x, v) - u) + Positive(Smaller(y, v) - Larger(x, u))
    BY <2>6 DEF Positive, Smaller, Larger
  <2>7. Good(n)
    BY <1>1, <2>2, <2>4, <2>5, <2>6 DEF Share
  <2> QED
    BY <2>7
<1>4. Bad = {}
  <2>1. Bad \in SUBSET Nat
    OBVIOUS
  <2> HIDE DEF Bad
  <2> QED
    BY <1>3, <2>1, LeastNumber
<1> QED
  BY <1>4

\* No row gives more than is free in it.
LEMMA TakenIsFree ==
  ASSUME NEW needed, NEW free, NEW m \in Nat, NEW k \in Nat \ {0},
         Numbers1(needed, m), Numbers1(free, k)
  PROVE  TakenBy(needed, free, m, k) <= Positive(free[k])
<1>1. Numbers1(free, k - 1) /\ free[k] \in Int
  BY DEF Numbers1
<1>2. Upto(free, k) \in Nat /\ Upto(free, k - 1) \in Nat /\ Upto(needed, m) \in Nat
  BY <1>1, UptoType
<1>3. Upto(free, k) = Upto(free, k - 1) + Positive(free[k]) /\ Positive(free[k]) \in Nat
  BY <1>1, UptoNext, PositiveBounds
<1>4. Positive(Smaller(Upto(needed, m), Upto(free, k)) - Upto(free, k - 1)) <= Positive(free[k])
  <2> DEFINE x == Upto(needed, m)  y == Upto(free, k)  z == Upto(free, k - 1)
             p == Positive(free[k])
  <2>1. x \in Nat /\ y \in Nat /\ z \in Nat /\ p \in Nat /\ y = z + p
    BY <1>2, <1>3
  <2> HIDE DEF x, y, z, p
  <2>2. Positive(Smaller(x, y) - z) <= p
    BY <2>1 DEF Positive, Smaller, Larger
  <2> QED
    BY <2>2 DEF x, y, z, p
<1> QED
  BY <1>4, TakenIs
=============================================================================
