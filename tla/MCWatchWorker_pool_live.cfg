\* A worker of the pool catches up when its relists and the store do not fail.
SPECIFICATION FairSpec
CONSTANTS
  o1 = o1
  o2 = o2
  NoObject = NoObject
  Objects <- TwoObjects
  MaxRV = 3
  Modes = {"pool"}
  MaxRetries <- Unlimited
  Rotation = FALSE
  Faults = {"open", "closed", "transient", "other", "compact", "crash"}
INVARIANT OffsetIsDurable
PROPERTY Converges
\* The cluster may stop changing; the worker then waits for events.
CHECK_DEADLOCK FALSE
