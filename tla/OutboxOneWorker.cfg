\* The scheduler alone, on two warehouses of one variant, an unmapped and a
\* package variant, with a fault and a retry by hand.
SPECIFICATION FairSpec
CONSTANTS
  p1 = p1
  p2 = p2
  p3 = p3
  p4 = p4
  v1 = v1
  v2 = v2
  v3 = v3
  w1 = w1
  w2 = w2
  Variants <- ThreeVariants
  Pools <- FourPools
  VariantOf <- FourWarehouses
  Packages <- ThirdVariant
  Unmapped <- SecondVariant
  Workers <- OneWorker
  Scheduler = w1
  Orders = {}
  BatchSize = 2
  LeaseCalls = 2
  MaxAttempts = 2
  MaxRows = 2
  MaxFaults = 1
  MaxRetries = 1
INVARIANT UnverifiedNeverPublished
PROPERTIES EveryRowSettles Converges
CHECK_DEADLOCK FALSE
