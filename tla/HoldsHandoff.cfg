\* Two quotes of two lines handed off by two clerks from two rows, next to an invoice.
SPECIFICATION Spec
CONSTANTS
  w1 = w1
  w2 = w2
  d1 = d1
  d2 = d2
  q1 = q1
  Rows = {w1, w2}
  Order <- BothRows
  InitialStock <- TwoRows
  Projects = {p1, p2, p3, p4}
  OpenProjects = {p1}
  Invoices = {d1}
  RowOf <- AtFirst
  Numbers = {n1}
  Amounts = {1, 2}
  Quotes = {q1, q2}
  Needed <- ThreeInTwoLines
  Clerks = {c1, c2}
  Nothing = Nothing
  Cancelled = Cancelled
  MaxSold = 1
INVARIANTS QueuedIsFree OneProjectPerQuote
PROPERTY HandoffHoldsFreeStock
SYMMETRY Symmetry
CONSTRAINT TwoSources
CHECK_DEADLOCK FALSE
