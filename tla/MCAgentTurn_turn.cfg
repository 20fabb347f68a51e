SPECIFICATION Spec
CONSTANTS
  Scenarios <- All
  MaxIterations = 2
  WarnAt = 3
  RepeatAt = 2
  MaxCitations = 2
  MaxCalls = 3
  Paths = {"rows", "sums"}
  SharedPaths = FALSE
  DefaultQueries = 1
  CapQueries = 2
  Wants = {0, 3}
  MaxHelpers = 2
INVARIANT CallsAreAudited
INVARIANT LinksResolve
INVARIANT ResultsFollowCalls
INVARIANT ReadsAreWhole
PROPERTY EarlierTurnsAreKept
\* A session may have no more turns.
CHECK_DEADLOCK FALSE
