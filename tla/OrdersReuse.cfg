\* Two orders under one key, the first mirrored before Ids were, and a third that
\* shares the list with the first; pages of one order, answers that may come later
\* than the overlap; two pollers, a clerk and a checker.
SPECIFICATION Spec
CONSTANTS
  Ids <- ThreeOrders
  Keys = {"k1", "k2"}
  KeyOf <- SharedKey
  Known = {1}
  Pollers = {p1, p2}
  Clerks = {c1}
  Checkers = {w1}
  Quantities = {1}
  PageSize = 1
  Overlap = 1
  StaleAfter = 1
  Nothing = Nothing
  Legacy = Legacy
  Nobody = Nobody
  Lost = Lost
  MaxFlight = 2
  MaxTime = 3
  MaxEdits = 2
  MaxFaults = 1
INVARIANTS BookedIsOrdered SettledBehindOverlap
CONSTRAINT InPairs
SYMMETRY PollerSymmetry
PROPERTY NeverResurrected
