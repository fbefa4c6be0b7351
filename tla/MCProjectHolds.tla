---------------------------- MODULE MCProjectHolds ----------------------------
(* Small instances of ProjectHolds for TLC.                                *)
EXTENDS ProjectHolds, TLC

CONSTANTS w1, w2, d1, d2, q1

OneRow == [w \in Rows |-> 2]
TwoRows == w1 :> 1 @@ w2 :> 1
FirstRow == <<w1>>
BothRows == <<w1, w2>>
AtFirst == [d \in Invoices |-> w1]
Symmetry ==
  Permutations(Clerks) \cup Permutations(Numbers) \cup Permutations(Invoices)
    \cup Permutations(OpenProjects) \cup Permutations(Projects \ OpenProjects)
\* Two sources of holds at a time: invoices and quotes some clerk has begun.
TwoSources ==
  Cardinality({d \in Invoices : invoice[d] # "none" \/ \E c \in Clerks : request[c].invoice = d}
    \cup {q \in Quotes : handoff[q] # Nothing \/ \E c \in Clerks : quote[c] = q}) <= 2
ThreeInTwoLines == [q \in Quotes |-> <<1, 2>>]
=============================================================================
