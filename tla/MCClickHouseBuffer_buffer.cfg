\* Two workers, a buffer of two rows with its timer, failing insertions, crashes.
SPECIFICATION FairSpec
CONSTANTS
  w1 = w1
  w2 = w2
  Nobody = Nobody
  Workers <- TwoWorkers
  BatchSize = 2
  Timed = TRUE
  Docs = {"a", "gone"}
  Contents <- TwoDocs
  MaxObs <- TwoAndOne
  Faults = {"insert", "crash"}
INVARIANT InOnePlace
PROPERTY EverythingLands
\* The workers stop after MaxObs observations.
CHECK_DEADLOCK FALSE
