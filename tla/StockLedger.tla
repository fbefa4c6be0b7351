---------------------------- MODULE StockLedger ----------------------------
(***************************************************************************)
(* What the stock writer promises to its callers, without transactions,    *)
(* locks or requests (docs/INVENTORY-CONSISTENCY.md, "A központi writer"): *)
(* a business event changes the stock of all its pools at once, by what it *)
(* says, and exactly once, however often and by whomever it is asked for.  *)
(***************************************************************************)
EXTENDS Integers

CONSTANTS
  Pools,     \* (variant, warehouse) pairs
  Events,    \* business events
  Net,       \* per event, a function: what it adds to the pools it touches
  Baseline   \* per event, a function: the quantity it assumes for a pool
             \*   without a known one

VARIABLES
  onHand,    \* quantity of each pool
  tracked,   \* the pools with a known quantity
  booked     \* the events that have happened

vars == <<onHand, tracked, booked>>

Assumed(e, p) ==
  IF p \in DOMAIN Baseline[e] /\ p \notin tracked THEN Baseline[e][p] ELSE 0

Added(e, p) == IF p \in DOMAIN Net[e] THEN Net[e][p] ELSE 0

Init ==
  /\ onHand \in [Pools -> Int]
  /\ tracked \subseteq Pools
  /\ booked = {}

Book(e) ==
  /\ e \notin booked
  /\ booked' = booked \cup {e}
  /\ tracked' = tracked \cup DOMAIN Net[e] \cup DOMAIN Baseline[e]
  /\ onHand' = [p \in Pools |-> onHand[p] + Assumed(e, p) + Added(e, p)]

Next == \E e \in Events : Book(e)

Spec == Init /\ [][Next]_vars
============================================================================
