-------------------------- MODULE MCUnasOrderSync --------------------------
(* Small instances of UnasOrderSync for TLC.                               *)
EXTENDS UnasOrderSync, TLC

OneOrder == {1}
OwnKey == 1 :> "k1"
ThreeOrders == {1, 2, 3}
SharedKey == 1 :> "k1" @@ 2 :> "k1" @@ 3 :> "k2"

\* The specification without fairness treats all pollers alike.
PollerSymmetry == Permutations(Pollers)

Busy == {p \in Pollers : step[p] # "idle"}

\* Two runs at a time, or one run next to lookups; a failed or dead run, or an
\* order that shares the list with another, where the Key is not reused and there
\* is no lookup.  All of them together would add states and no new pair of callers.
InPairs ==
  /\ \/ \A c \in Lookups : pc[c] = "idle"
     \/ Cardinality(Busy) <= 1
  /\ faults > 0 \/ shop[3].state # "none" =>
       /\ \A c \in Lookups : pc[c] = "idle"
       /\ shop[2].state = "none"
  /\ faults > 0 => shop[3].state = "none"
=============================================================================
