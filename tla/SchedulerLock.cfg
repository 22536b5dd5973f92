CONSTANTS
  Workers = {w1, w2}
  Interval = 3
  Ttl = 2
  RetryBackoff = 1
  MaxTime = 4
  MaxKills = 1
  CyclesFitTtl = TRUE
  DueAt = 2
SPECIFICATION AlertsSpec
SYMMETRY WorkerSymmetry
INVARIANTS OneCyclePerBucket ProductionWorkIsLocked
PROPERTIES ImplementsBucketMutex OncePushedUnlessBesideAnother
