--------------------------- MODULE MCStockPosting ---------------------------
(* Instances of StockPosting for TLC: a shop with two or three products. *)
EXTENDS StockPosting, TLC

NoCount == [j \in Jobs |-> <<>>]
NoRows == <<>>
BothRows == 1 :> 5 @@ 2 :> 5
TwoPools == {1, 2}
ThreePools == {1, 2, 3}

\* A sale asked for twice, a return and an order with two postings, of products 1
\* and 2, which have rows, and for the counter of product 3, which has none.
BusyJobs == {"sale", "return", "order"}
BusyJobOf == "r1" :> "sale" @@ "r2" :> "sale" @@ "r3" :> "return" @@ "r4" :> "order"
BusyRequests == DOMAIN BusyJobOf
BusyLevel == [j \in BusyJobs |-> IF j = "order" THEN "Serializable" ELSE "ReadCommitted"]
BusyTries == [j \in BusyJobs |-> IF j = "order" THEN 4 ELSE 1]
BusyPostings ==
     "sale" :> << 1 :> -1 @@ 2 :> -2 @@ 3 :> -1 >>
  @@ "return" :> << 1 :> 1 @@ 3 :> 1 >>
  @@ "order" :> << 2 :> -3, 1 :> 2 >>

\* An inventory count of two new products, one with a difference, closed twice
\* while a receipt and an order with two postings reach them too; all of them
\* SERIALIZABLE.
CountJobs == {"count", "receipt", "order"}
CountJobOf == "r1" :> "count" @@ "r2" :> "count" @@ "r3" :> "receipt" @@ "r4" :> "order"
CountRequests == DOMAIN CountJobOf
CountLevel == [j \in CountJobs |-> "Serializable"]
CountTries == [j \in CountJobs |-> IF j = "order" THEN 4 ELSE 1]
CountPostings ==
     "count" :> << 2 :> -2 >>
  @@ "receipt" :> << 1 :> 4 @@ 2 :> 10 >>
  @@ "order" :> << 2 :> -3, 1 :> 2 >>
CountExpected == [j \in CountJobs |->
  IF j = "count" THEN 1 :> 7 @@ 2 :> 10 ELSE <<>>]
=============================================================================
