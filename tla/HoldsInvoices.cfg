\* Two invoices that may hold stock for a project, cancelled, renamed, with a close.
SPECIFICATION Spec
CONSTANTS
  w1 = w1
  w2 = w2
  d1 = d1
  d2 = d2
  q1 = q1
  Rows = {w1}
  Order <- FirstRow
  InitialStock <- OneRow
  Projects = {p1, p2}
  OpenProjects = {p1, p2}
  Invoices = {d1, d2}
  RowOf <- AtFirst
  Numbers = {n1, n2}
  Amounts = {1, 2}
  Quotes = {}
  Needed <- ThreeInTwoLines
  Clerks = {c1, c2}
  Nothing = Nothing
  Cancelled = Cancelled
  MaxSold = 3
INVARIANTS TypeOK ReservedIsHolds KeysFollowNumbers StockIsExplained
PROPERTY CancelLeavesHeld
SYMMETRY Symmetry
CHECK_DEADLOCK FALSE
