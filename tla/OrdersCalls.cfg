\* One order, one caller of each kind, finitely many changes and faults.
SPECIFICATION FairSpec
CONSTANTS
  Ids <- OneOrder
  Keys = {"k1"}
  KeyOf <- OwnKey
  Known = {}
  Pollers = {p1}
  Clerks = {c1}
  Checkers = {w1}
  Quantities = {1}
  PageSize = 2
  Overlap = 1
  StaleAfter = 1
  Nothing = Nothing
  Legacy = Legacy
  Nobody = Nobody
  Lost = Lost
  MaxFlight = 1
  MaxTime = 3
  MaxEdits = 2
  MaxFaults = 1
PROPERTIES Converges DeletedGivesBack
INVARIANTS TypeOK BookedIsOrdered
