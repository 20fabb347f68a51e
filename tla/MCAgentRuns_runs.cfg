SPECIFICATION Spec
CONSTANTS
  MaxRuns = 2
  MaxNew = 1
  MaxArtifacts = 1
  MaxCrashes = 0
  Faults = {"abort","early"}
  Cancellers = {c1}
  Followers = {}
  Requests = {"new","retry","child","api","retention"}
INVARIANT CitationsResolve
PROPERTY OneOutcome
PROPERTY AnAnswerStays
PROPERTY WorkInProgressIsKept
CHECK_DEADLOCK FALSE
