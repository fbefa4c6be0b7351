------------------------- MODULE MCStockSyncOutbox -------------------------
(* Instances of StockSyncOutbox for TLC. *)
EXTENDS StockSyncOutbox, TLC

CONSTANTS p1, p2, p3, p4, v1, v2, v3, w1, w2

\* One warehouse of one variant.
OneVariant == {v1}
OnePool == {p1}
OneWarehouse == p1 :> v1

\* Two warehouses of one variant.
TwoPools == {p1, p2}
TwoWarehouses == [p \in TwoPools |-> v1]

\* The same, and an unmapped variant and a package with one warehouse each.
ThreeVariants == {v1, v2, v3}
FourPools == {p1, p2, p3, p4}
FourWarehouses == p1 :> v1 @@ p2 :> v1 @@ p3 :> v2 @@ p4 :> v3
NoVariants == {}
SecondVariant == {v2}
ThirdVariant == {v3}

OneWorker == {w1}
TwoWorkers == {w1, w2}

\* The specification without fairness treats all workers alike.
WorkerSymmetry == Permutations(TwoWorkers)
=============================================================================
