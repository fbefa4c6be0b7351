------------------------------ MODULE FiniteSums ------------------------------
(***************************************************************************)
(* Facts about sums over finite sets (SumFunctionOnSet): what one element  *)
(* more adds, disjoint parts, equal summands.  Each goes by a least        *)
(* counterexample, since a set of counterexamples needs no predicate as    *)
(* parameter.                                                              *)
(***************************************************************************)
EXTENDS Functions, FiniteSetTheorems, WellFoundedInduction, TLAPS

LEMMA LeastNumber ==
  ASSUME NEW T \in SUBSET Nat, T # {}
  PROVE  \E n \in T : \A m \in T : n <= m
<1>1. PICK n \in T : \A m \in T : <<m, n>> \notin OpToRel(<, Nat)
  BY WFMin, NatLessThanWellFounded
<1>2. \A m \in T : ~(m < n)
  BY <1>1 DEF OpToRel
<1> QED
  BY <1>2

\* Among sets of subsets of a finite set there is one that contains no other.
LEMMA LeastSubset ==
  ASSUME NEW S, IsFiniteSet(S), NEW T \in SUBSET SUBSET S, T # {}
  PROVE  \E U \in T : \A V \in T : V \subseteq U => V = U
<1>1. T \subseteq FiniteSubsetsOf(S)
  BY FS_FiniteSubsetsOfFinite
<1>2. PICK U \in T : \A V \in T : <<V, U>> \notin StrictSubsetOrdering(S)
  BY <1>1, WFMin, FS_StrictSubsetOrderingWellFounded
<1> QED
  BY <1>2 DEF StrictSubsetOrdering

-----------------------------------------------------------------------------
(* The recursive function of a sum exists.                                 *)

AnyOf(s) == CHOOSE x \in s : TRUE

IsSum(f, D, g) ==
  g = [s \in D |-> IF s = {} THEN 0 ELSE f[AnyOf(s)] + g[s \ {AnyOf(s)}]]

LEMMA SumIs ==
  ASSUME NEW f, NEW S
  PROVE  SumFunctionOnSet(f, S) = (CHOOSE g : IsSum(f, SUBSET S, g))[S]
BY DEF SumFunctionOnSet, FoldFunctionOnSet, MapThenFoldSet, IsSum, AnyOf

\* Subsets of at most n elements.
Small(S, n) == {s \in SUBSET S : Cardinality(s) <= n}

LEMMA SumExists ==
  ASSUME NEW f, NEW S, IsFiniteSet(S)
  PROVE  \E g : IsSum(f, SUBSET S, g)
<1> DEFINE Bad == {n \in Nat : ~ \E g : IsSum(f, Small(S, n), g)}
<1>1. ASSUME NEW s \in SUBSET S, s # {}
      PROVE  /\ IsFiniteSet(s) /\ Cardinality(s) \in Nat \ {0}
             /\ AnyOf(s) \in s
             /\ Cardinality(s \ {AnyOf(s)}) = Cardinality(s) - 1
  <2>1. IsFiniteSet(s) /\ AnyOf(s) \in s
    BY <1>1, FS_Subset DEF AnyOf
  <2> QED
    BY <1>1, <2>1, FS_CardinalityType, FS_EmptySet, FS_RemoveElement
<1>2. Cardinality({}) = 0
  BY FS_EmptySet
<1>3. 0 \notin Bad
  <2>1. Small(S, 0) = {{}}
    <3>1. ASSUME NEW s \in SUBSET S, s # {}
          PROVE  ~(Cardinality(s) <= 0)
      <4>1. Cardinality(s) \in Nat \ {0}
        BY <1>1, <3>1
      <4> QED
        BY <4>1
    <3>2. {} \in Small(S, 0)
      BY <1>2 DEF Small
    <3> QED
      BY <3>1, <3>2 DEF Small
  <2>2. IsSum(f, Small(S, 0), [s \in Small(S, 0) |-> 0])
    BY <2>1 DEF IsSum
  <2> QED
    BY <2>2
<1>4. ASSUME NEW n \in Bad, \A m \in Bad : n <= m
      PROVE  FALSE
  <2>1. n - 1 \in Nat \ Bad
    BY <1>3, <1>4
  <2>2. PICK g : IsSum(f, Small(S, n - 1), g)
    BY <2>1
  <2> DEFINE h == [s \in Small(S, n) |->
                     IF s = {} THEN 0 ELSE f[AnyOf(s)] + g[s \ {AnyOf(s)}]]
  <2>3. ASSUME NEW s \in Small(S, n), s # {}
        PROVE  s \ {AnyOf(s)} \in Small(S, n - 1)
    BY <1>1, <2>3 DEF Small
  <2>4. ASSUME NEW s \in Small(S, n - 1)
        PROVE  s \in Small(S, n) /\ h[s] = g[s]
    <3>1. s \in Small(S, n)
      <4>1. s \in SUBSET S /\ Cardinality(s) <= n - 1
        BY DEF Small
      <4>2. Cardinality(s) \in Nat
        <5>1. CASE s = {}
          BY <5>1, <1>2
        <5>2. CASE s # {}
          BY <4>1, <5>2, <1>1
        <5> QED
          BY <5>1, <5>2
      <4> QED
        BY <4>1, <4>2 DEF Small
    <3>2. g[s] = IF s = {} THEN 0 ELSE f[AnyOf(s)] + g[s \ {AnyOf(s)}]
      BY <2>2 DEF IsSum
    <3> QED
      BY <3>1, <3>2
  <2>5. IsSum(f, Small(S, n), h)
    BY <2>3, <2>4 DEF IsSum
  <2> QED
    BY <2>5
<1>5. Bad = {}
  <2> HIDE DEF Bad
  <2>1. Bad \in SUBSET Nat
    BY DEF Bad
  <2> QED
    BY <1>4, <2>1, LeastNumber
<1>6. Small(S, Cardinality(S)) = SUBSET S
  BY FS_Subset DEF Small
<1>7. Cardinality(S) \in Nat
  BY FS_CardinalityType
<1>8. \E g : IsSum(f, Small(S, Cardinality(S)), g)
  BY <1>5, <1>7
<1> QED
  BY <1>6, <1>8

\* Two such functions agree where both are defined.
LEMMA SumUnique ==
  ASSUME NEW f, NEW S, IsFiniteSet(S), NEW R \in SUBSET S, NEW g, NEW h,
         IsSum(f, SUBSET S, g), IsSum(f, SUBSET R, h)
  PROVE  g[R] = h[R]
<1> DEFINE Bad == {s \in SUBSET R : g[s] # h[s]}
<1>1. ASSUME NEW s \in Bad, \A t \in Bad : t \subseteq s => t = s
      PROVE  FALSE
  <2>1. /\ g[s] = IF s = {} THEN 0 ELSE f[AnyOf(s)] + g[s \ {AnyOf(s)}]
        /\ h[s] = IF s = {} THEN 0 ELSE f[AnyOf(s)] + h[s \ {AnyOf(s)}]
    <3>1. s \in SUBSET S /\ s \in SUBSET R
      OBVIOUS
    <3> QED
      BY <3>1 DEF IsSum
  <2>2. s # {}
    BY <2>1
  <2>3. AnyOf(s) \in s
    BY <2>2 DEF AnyOf
  <2>4. s \ {AnyOf(s)} \notin Bad
    BY <1>1, <2>3
  <2>5. g[s \ {AnyOf(s)}] = h[s \ {AnyOf(s)}]
    BY <2>4
  <2> QED
    BY <2>1, <2>2, <2>5
<1>2. Bad \in SUBSET SUBSET R /\ IsFiniteSet(R)
  BY FS_Subset
<1>3. Bad = {}
  <2> HIDE DEF Bad
  <2> QED
    BY <1>1, <1>2, LeastSubset
<1> QED
  BY <1>3

LEMMA SumDefined ==
  ASSUME NEW f, NEW S, IsFiniteSet(S)
  PROVE  SumFunctionOnSet(f, S) =
           IF S = {} THEN 0
           ELSE f[AnyOf(S)] + SumFunctionOnSet(f, S \ {AnyOf(S)})
<1> DEFINE g == CHOOSE g : IsSum(f, SUBSET S, g)
           R == S \ {AnyOf(S)}
           h == CHOOSE h : IsSum(f, SUBSET R, h)
<1>1. IsSum(f, SUBSET S, g)
  BY SumExists
<1>2. IsFiniteSet(R) /\ R \in SUBSET S
  BY FS_Subset
<1>3. IsSum(f, SUBSET R, h)
  BY <1>2, SumExists
<1>4. g[R] = h[R]
  <2> HIDE DEF g, h, R
  <2> QED
    BY <1>1, <1>2, <1>3, SumUnique
<1>5. SumFunctionOnSet(f, S) = g[S] /\ SumFunctionOnSet(f, R) = h[R]
  BY SumIs
<1>6. g[S] = IF S = {} THEN 0 ELSE f[AnyOf(S)] + g[R]
  <2> HIDE DEF g
  <2> QED
    BY <1>1 DEF IsSum
<1> QED
  BY <1>4, <1>5, <1>6

-----------------------------------------------------------------------------
(* What sums over finite sets do.                                          *)

LEMMA SumEmpty == ASSUME NEW f PROVE SumFunctionOnSet(f, {}) = 0
BY SumDefined, FS_EmptySet

LEMMA SumType ==
  ASSUME NEW f, NEW S, IsFiniteSet(S), \A x \in S : f[x] \in Int
  PROVE  SumFunctionOnSet(f, S) \in Int
<1> DEFINE Bad == {s \in SUBSET S : SumFunctionOnSet(f, s) \notin Int}
<1>1. ASSUME NEW s \in Bad, \A t \in Bad : t \subseteq s => t = s
      PROVE  FALSE
  <2>1. IsFiniteSet(s)
    BY FS_Subset
  <2>2. s # {}
    BY SumEmpty
  <2>3. AnyOf(s) \in s
    BY <2>2 DEF AnyOf
  <2>4. SumFunctionOnSet(f, s) = f[AnyOf(s)] + SumFunctionOnSet(f, s \ {AnyOf(s)})
    BY <2>1, <2>2, SumDefined
  <2>5. s \ {AnyOf(s)} \notin Bad /\ f[AnyOf(s)] \in Int
    BY <1>1, <2>3
  <2> QED
    BY <2>4, <2>5
<1>2. Bad = {}
  <2>1. Bad \in SUBSET SUBSET S
    OBVIOUS
  <2> HIDE DEF Bad
  <2> QED
    BY <1>1, <2>1, LeastSubset
<1> QED
  BY <1>2

\* Any element can be taken out.
LEMMA SumTakeOut ==
  ASSUME NEW f, NEW S, IsFiniteSet(S), \A x \in S : f[x] \in Int, NEW e \in S
  PROVE  SumFunctionOnSet(f, S) = f[e] + SumFunctionOnSet(f, S \ {e})
<1> DEFINE Bad == {s \in SUBSET S : \E x \in s :
                     SumFunctionOnSet(f, s) # f[x] + SumFunctionOnSet(f, s \ {x})}
<1>1. ASSUME NEW s \in Bad, \A t \in Bad : t \subseteq s => t = s
      PROVE  FALSE
  <2>1. IsFiniteSet(s)
    BY FS_Subset
  <2>2. PICK x \in s : SumFunctionOnSet(f, s) # f[x] + SumFunctionOnSet(f, s \ {x})
    OBVIOUS
  <2> DEFINE y == AnyOf(s)
             r == (s \ {x}) \ {y}
  <2>3. y \in s
    BY <2>2 DEF AnyOf
  <2>4. SumFunctionOnSet(f, s) = f[y] + SumFunctionOnSet(f, s \ {y})
    BY <2>1, <2>2, SumDefined
  <2>5. x # y
    BY <2>2, <2>4
  <2>6. SumFunctionOnSet(f, s \ {y}) = f[x] + SumFunctionOnSet(f, r)
    <3>1. s \ {y} \notin Bad /\ s \ {y} \in SUBSET S /\ x \in s \ {y}
      BY <1>1, <2>3, <2>5
    <3>2. (s \ {y}) \ {x} = r
      OBVIOUS
    <3> QED
      BY <3>1, <3>2
  <2>7. SumFunctionOnSet(f, s \ {x}) = f[y] + SumFunctionOnSet(f, r)
    <3>1. s \ {x} \notin Bad /\ s \ {x} \in SUBSET S /\ y \in s \ {x}
      BY <1>1, <2>3, <2>5
    <3> QED
      BY <3>1
  <2>8. SumFunctionOnSet(f, r) \in Int /\ f[x] \in Int /\ f[y] \in Int
    <3>1. IsFiniteSet(r) /\ r \subseteq S
      BY FS_Subset
    <3> QED
      BY <2>3, <3>1, SumType
  <2> HIDE DEF y, r
  <2> QED
    BY <2>2, <2>4, <2>6, <2>7, <2>8
<1>2. Bad = {}
  <2>1. Bad \in SUBSET SUBSET S
    OBVIOUS
  <2> HIDE DEF Bad
  <2> QED
    BY <1>1, <2>1, LeastSubset
<1> QED
  BY <1>2

LEMMA SumPutIn ==
  ASSUME NEW f, NEW S, IsFiniteSet(S), NEW e, e \notin S, \A x \in S \cup {e} : f[x] \in Int
  PROVE  SumFunctionOnSet(f, S \cup {e}) = f[e] + SumFunctionOnSet(f, S)
<1>1. (S \cup {e}) \ {e} = S
  OBVIOUS
<1>2. IsFiniteSet(S \cup {e})
  BY FS_AddElement
<1> QED
  BY <1>1, <1>2, SumTakeOut

\* Summands that agree on the set give the same sum.
LEMMA SumSame ==
  ASSUME NEW f, NEW g, NEW S, IsFiniteSet(S), \A x \in S : f[x] = g[x]
  PROVE  SumFunctionOnSet(f, S) = SumFunctionOnSet(g, S)
<1> DEFINE Bad == {s \in SUBSET S : SumFunctionOnSet(f, s) # SumFunctionOnSet(g, s)}
<1>1. ASSUME NEW s \in Bad, \A t \in Bad : t \subseteq s => t = s
      PROVE  FALSE
  <2>1. IsFiniteSet(s)
    BY FS_Subset
  <2>2. s # {}
    BY SumEmpty
  <2>3. AnyOf(s) \in s
    BY <2>2 DEF AnyOf
  <2>4. /\ SumFunctionOnSet(f, s) = f[AnyOf(s)] + SumFunctionOnSet(f, s \ {AnyOf(s)})
        /\ SumFunctionOnSet(g, s) = g[AnyOf(s)] + SumFunctionOnSet(g, s \ {AnyOf(s)})
    BY <2>1, <2>2, SumDefined
  <2>5. s \ {AnyOf(s)} \notin Bad /\ f[AnyOf(s)] = g[AnyOf(s)]
    BY <1>1, <2>3
  <2> QED
    BY <2>4, <2>5
<1>2. Bad = {}
  <2>1. Bad \in SUBSET SUBSET S
    OBVIOUS
  <2> HIDE DEF Bad
  <2> QED
    BY <1>1, <2>1, LeastSubset
<1> QED
  BY <1>2

\* Two parts that have nothing in common.
LEMMA SumDisjoint ==
  ASSUME NEW f, NEW S, NEW T, IsFiniteSet(S), IsFiniteSet(T), S \cap T = {},
         \A x \in S \cup T : f[x] \in Int
  PROVE  SumFunctionOnSet(f, S \cup T) = SumFunctionOnSet(f, S) + SumFunctionOnSet(f, T)
<1> DEFINE Bad == {t \in SUBSET T : SumFunctionOnSet(f, S \cup t)
                                      # SumFunctionOnSet(f, S) + SumFunctionOnSet(f, t)}
<1>1. ASSUME NEW t \in Bad, \A u \in Bad : u \subseteq t => u = t
      PROVE  FALSE
  <2>1. IsFiniteSet(t) /\ IsFiniteSet(S \cup t)
    BY FS_Subset, FS_Union
  <2>2. SumFunctionOnSet(f, S) \in Int
    BY SumType
  <2>3. t # {}
    <3>1. SUFFICES ASSUME t = {} PROVE FALSE
      OBVIOUS
    <3>2. SumFunctionOnSet(f, t) = 0
      BY <3>1, SumEmpty
    <3>3. S \cup t = S
      BY <3>1
    <3>4. SumFunctionOnSet(f, S \cup t) # SumFunctionOnSet(f, S) + SumFunctionOnSet(f, t)
      OBVIOUS
    <3>5. SumFunctionOnSet(f, S) # SumFunctionOnSet(f, S) + 0
      BY <3>2, <3>3, <3>4
    <3> QED
      BY <2>2, <3>5
  <2>4. PICK e \in t : TRUE
    BY <2>3
  <2>5. SumFunctionOnSet(f, S \cup t) = f[e] + SumFunctionOnSet(f, S \cup (t \ {e}))
    <3>1. (S \cup t) \ {e} = S \cup (t \ {e})
      BY <2>4
    <3> QED
      BY <2>1, <2>4, <3>1, SumTakeOut
  <2>6. SumFunctionOnSet(f, t) = f[e] + SumFunctionOnSet(f, t \ {e})
    BY <2>1, <2>4, SumTakeOut
  <2>7. t \ {e} \notin Bad /\ t \ {e} \in SUBSET T /\ f[e] \in Int
    BY <1>1, <2>4
  <2>8. SumFunctionOnSet(f, t \ {e}) \in Int
    <3>1. IsFiniteSet(t \ {e})
      BY <2>1, FS_Subset
    <3> QED
      BY <3>1, SumType
  <2> QED
    BY <2>2, <2>5, <2>6, <2>7, <2>8
<1>2. Bad = {}
  <2>1. Bad \in SUBSET SUBSET T
    OBVIOUS
  <2> HIDE DEF Bad
  <2> QED
    BY <1>1, <2>1, LeastSubset
<1> QED
  BY <1>2

\* A sum of natural numbers is none the smaller for being taken over more.
LEMMA SumNat ==
  ASSUME NEW f, NEW S, IsFiniteSet(S), \A x \in S : f[x] \in Nat
  PROVE  SumFunctionOnSet(f, S) \in Nat
<1> DEFINE Bad == {s \in SUBSET S : SumFunctionOnSet(f, s) \notin Nat}
<1>1. ASSUME NEW s \in Bad, \A t \in Bad : t \subseteq s => t = s
      PROVE  FALSE
  <2>1. IsFiniteSet(s)
    BY FS_Subset
  <2>2. s # {}
    BY SumEmpty
  <2>3. AnyOf(s) \in s
    BY <2>2 DEF AnyOf
  <2>4. SumFunctionOnSet(f, s) = f[AnyOf(s)] + SumFunctionOnSet(f, s \ {AnyOf(s)})
    BY <2>1, <2>2, SumDefined
  <2>5. s \ {AnyOf(s)} \notin Bad /\ f[AnyOf(s)] \in Nat
    BY <1>1, <2>3
  <2> QED
    BY <2>4, <2>5
<1>2. Bad = {}
  <2>1. Bad \in SUBSET SUBSET S
    OBVIOUS
  <2> HIDE DEF Bad
  <2> QED
    BY <1>1, <2>1, LeastSubset
<1> QED
  BY <1>2

LEMMA SumZero ==
  ASSUME NEW f, NEW S, IsFiniteSet(S), \A x \in S : f[x] = 0
  PROVE  SumFunctionOnSet(f, S) = 0
<1> DEFINE Bad == {s \in SUBSET S : SumFunctionOnSet(f, s) # 0}
<1>1. ASSUME NEW s \in Bad, \A t \in Bad : t \subseteq s => t = s
      PROVE  FALSE
  <2>1. IsFiniteSet(s)
    BY FS_Subset
  <2>2. s # {}
    BY SumEmpty
  <2>3. AnyOf(s) \in s
    BY <2>2 DEF AnyOf
  <2>4. SumFunctionOnSet(f, s) = f[AnyOf(s)] + SumFunctionOnSet(f, s \ {AnyOf(s)})
    BY <2>1, <2>2, SumDefined
  <2>5. s \ {AnyOf(s)} \notin Bad /\ f[AnyOf(s)] = 0
    BY <1>1, <2>3
  <2> QED
    BY <2>4, <2>5
<1>2. Bad = {}
  <2>1. Bad \in SUBSET SUBSET S
    OBVIOUS
  <2> HIDE DEF Bad
  <2> QED
    BY <1>1, <2>1, LeastSubset
<1> QED
  BY <1>2

\* A sum over what a one-to-one function makes of a set.
LEMMA SumImage ==
  ASSUME NEW f, NEW S, IsFiniteSet(S), NEW g, NEW h,
         \A x, y \in S : h[x] = h[y] => x = y,
         \A x \in S : f[h[x]] \in Int /\ g[x] = f[h[x]],
         NEW T, \A y : y \in T <=> \E x \in S : y = h[x]
  PROVE  IsFiniteSet(T) /\ SumFunctionOnSet(f, T) = SumFunctionOnSet(g, S)
<1> DEFINE Image(s) == {h[x] : x \in s}
           Good(s) == /\ IsFiniteSet(Image(s))
                      /\ SumFunctionOnSet(f, Image(s)) = SumFunctionOnSet(g, s)
           Bad == {s \in SUBSET S : ~Good(s)}
<1>1. ASSUME NEW s \in Bad, \A t \in Bad : t \subseteq s => t = s
      PROVE  FALSE
  <2>1. IsFiniteSet(s) /\ s \in SUBSET S
    BY FS_Subset
  <2>2. s # {}
    <3>1. SUFFICES ASSUME s = {} PROVE FALSE
      OBVIOUS
    <3>2. Image(s) = {}
      BY <3>1
    <3>3. Good(s)
      BY <3>1, <3>2, SumEmpty, FS_EmptySet
    <3> QED
      BY <3>3
  <2> DEFINE e == AnyOf(s)
  <2>3. e \in s
    BY <2>2 DEF AnyOf
  <2>4. Good(s \ {e})
    BY <1>1, <2>3
  <2> HIDE DEF e
  <2>5. Image(s) = Image(s \ {e}) \cup {h[e]}
    BY <2>3
  <2>6. h[e] \notin Image(s \ {e})
    BY <2>1, <2>3
  <2>7. IsFiniteSet(Image(s \ {e}))
    BY <2>4
  <2>8. IsFiniteSet(Image(s))
    <3>1. ASSUME NEW R, IsFiniteSet(R), NEW z
          PROVE  IsFiniteSet(R \cup {z})
      BY <3>1, FS_AddElement
    <3>2. IsFiniteSet(Image(s \ {e}) \cup {h[e]})
      BY <2>7, <3>1
    <3> HIDE DEF Image, Good
    <3> QED
      BY <2>5, <3>2
  <2>9. SumFunctionOnSet(f, Image(s)) = f[h[e]] + SumFunctionOnSet(f, Image(s \ {e}))
    <3>1. \A z \in Image(s \ {e}) \cup {h[e]} : f[z] \in Int
      BY <2>1, <2>3
    <3>2. SumFunctionOnSet(f, Image(s \ {e}) \cup {h[e]})
            = f[h[e]] + SumFunctionOnSet(f, Image(s \ {e}))
      <4> HIDE DEF Image, Good, Bad
      <4> QED
        BY <2>6, <2>7, <3>1, SumPutIn
    <3> HIDE DEF Image
    <3> QED
      BY <2>5, <3>2
  <2>10. SumFunctionOnSet(g, s) = g[e] + SumFunctionOnSet(g, s \ {e})
    <3>1. \A x \in s : g[x] \in Int
      BY <2>1
    <3> QED
      BY <2>1, <2>3, <3>1, SumTakeOut
  <2>11. g[e] = f[h[e]]
    BY <2>1, <2>3
  <2>12. SumFunctionOnSet(f, Image(s \ {e})) = SumFunctionOnSet(g, s \ {e})
    BY <2>4
  <2>13. SumFunctionOnSet(f, Image(s)) = SumFunctionOnSet(g, s)
    <3> HIDE DEF Image
    <3> QED
      BY <2>9, <2>10, <2>11, <2>12
  <2> QED
    BY <2>8, <2>13
<1>2. Bad = {}
  <2>1. Bad \in SUBSET SUBSET S
    OBVIOUS
  <2> HIDE DEF Bad
  <2> QED
    BY <1>1, <2>1, LeastSubset
<1>3. Good(S)
  BY <1>2
<1>4. T = Image(S)
  OBVIOUS
<1> HIDE DEF Image
<1> QED
  BY <1>3, <1>4
=============================================================================
