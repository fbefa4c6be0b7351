\* Two calls at once on two warehouses of one variant.  A batch has two rows and
\* a lease outlasts one call of setStock, as 120 s do not outlast twenty; rows may
\* be of an order that publishes its own.
SPECIFICATION Spec
CONSTANTS
  p1 = p1
  p2 = p2
  p3 = p3
  p4 = p4
  v1 = v1
  v2 = v2
  v3 = v3
  w1 = w1
  w2 = w2
  Variants <- OneVariant
  Pools <- TwoPools
  VariantOf <- TwoWarehouses
  Packages <- NoVariants
  Unmapped <- NoVariants
  Workers <- TwoWorkers
  Scheduler = w1
  Orders = {"o1"}
  BatchSize = 2
  LeaseCalls = 1
  MaxAttempts = 2
  MaxRows = 2
  MaxFaults = 0
  MaxRetries = 0
INVARIANTS TypeOK ExclusiveUntilLate PublishedIsCurrent
PROPERTIES ReopenedOnlyLate MirrorSpec
SYMMETRY WorkerSymmetry
CHECK_DEADLOCK FALSE
