\* Enqueuing over an open row.
SPECIFICATION Spec
CONSTANTS
  p1 = p1
  p2 = p2
  p3 = p3
  p4 = p4
  v1 = v1
  v2 = v2
  v3 = v3
  w1 = w1
  w2 = w2
  Variants <- OneVariant
  Pools <- OnePool
  VariantOf <- OneWarehouse
  Packages <- NoVariants
  Unmapped <- NoVariants
  Workers <- OneWorker
  Scheduler = w1
  Orders = {}
  BatchSize = 2
  LeaseCalls = 1
  MaxAttempts = 2
  MaxRows = 3
  MaxFaults = 1
  MaxRetries = 0
PROPERTY EnqueueClosesOlderRows
CHECK_DEADLOCK FALSE
