----------------------------- MODULE MCHandoffPlan -----------------------------
(* Two products, three rows, two warehouses.                               *)
EXTENDS HandoffPlan

CONSTANTS coral, pump

TwoOfCoral == <<coral, coral, pump>>
TwoWarehouses == <<1, 2, 2>>
Levels == {-1, 1, 2}
Wishes ==
  {[kind |-> "PRODUCT", product |-> coral, quantity |-> n] : n \in {1, 2}}
    \cup {[kind |-> "PRODUCT", product |-> pump, quantity |-> 1],
          [kind |-> "CUSTOM", product |-> pump, quantity |-> 1]}
=============================================================================
