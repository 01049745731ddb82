\* Three deltas in every order, on surfaces where they overlap or overflow.
SPECIFICATION Spec
CONSTANTS
  Contributors = {1, 2}
  Contributions <- ThreeDeltas
  RefHash <- Hash
  TheGate <- CostlyGate
  Surfaces <- SomeSurfaces
  Measurements <- SomeMeasurements
  Pools = {0, 7}
  Infinite = inf
  NotANumber = nan
  MaxMicros = 100
  Uncapped = uncapped
  MaxWei = 1000000
\* A run ends settled or failed.
CHECK_DEADLOCK FALSE
INVARIANTS
  CreditsAddUpToTheLift
  PaidOnlyForCertifiedLift
  CallerOrderIsIrrelevant
