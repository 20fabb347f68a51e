SPECIFICATION Spec
CONSTANTS
  Clusters = {"k1", "k2"}
  Resources = {"pods"}
  Excluded = {}
  Inputs = {"", "shop", "eu-shop"}
  Exact <- mcExact
  Fuzzy <- mcFuzzy
  Statuses = {"listed", "retrying"}
  StaleAfter = 0
  TTL = 1
  MaxTime = 3
  MaxWrites = 2
  Clients = {"c1"}
  MaxLoops = 1
  Racing = FALSE
  Concurrency = 1
  Selections <- mcSelections
  Failures = {"setup", "listen", "stdout", "context"}
INVARIANTS AnswersAreFresh AnswersHaveEvidence CauseIsReported StopsClean
PROPERTY StopIsHeard
