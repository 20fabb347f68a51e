\* A resource watched on its own or by the pool, with stream rotation; the faults that differ in what they do, none ever over.
SPECIFICATION Spec
CONSTANTS
  o1 = o1
  o2 = o2
  NoObject = NoObject
  Objects <- TwoObjects
  MaxRV = 4
  Modes = {"single", "pool"}
  MaxRetries <- Unlimited
  Rotation = TRUE
  Faults = {"refs", "store", "list", "closed", "compact", "forever"}
SYMMETRY Symmetry
INVARIANT NoFalseDelete
INVARIANT StreamCaughtUp
PROPERTY NeverRegresses
\* The cluster may stop changing; the worker then waits for events.
CHECK_DEADLOCK FALSE
