SPECIFICATION Spec
CONSTANTS
  Objects <- mcObjects
  KindOf <- mcKindOf
  Svc = "svc"
  Targets <- mcTargets
  Backends = {"sqlite", "clickhouse"}
  Options <- mcOptions
  MaxTime <- mcMaxTime
  MaxBatch = 2
INVARIANT ProofIsShown
PROPERTY KeepsThePromise
CHECK_DEADLOCK FALSE
