----------------------------- MODULE HandoffShares -----------------------------
(***************************************************************************)
(* What a greedy handoff plan comes to (computeHandoffPlan): lines asked    *)
(* for in order are filled from rows taken in order, so that line i and row *)
(* k share what their stretches of the running totals have in common.      *)
(***************************************************************************)
EXTENDS Integers, Sequences, Functions

Smaller(a, b) == IF a < b THEN a ELSE b
Larger(a, b) == IF a < b THEN b ELSE a

\* A negative free stock counts as none.
Positive(n) == Larger(n, 0)

\* The running total of the first n.
Upto(amounts, n) == SumFunctionOnSet([i \in 1..n |-> Positive(amounts[i])], 1..n)

Share(needed, free, i, k) ==
  Positive(Smaller(Upto(needed, i), Upto(free, k))
             - Larger(Upto(needed, i - 1), Upto(free, k - 1)))

Shares(needed, free) ==
  [i \in DOMAIN needed |-> [k \in DOMAIN free |-> Share(needed, free, i, k)]]
=============================================================================
