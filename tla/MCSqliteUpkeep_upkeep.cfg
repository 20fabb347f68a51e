\* Backfill, reindex and compaction beside a collector, on an old database and on
\* one with retention.
SPECIFICATION Spec
CONSTANTS
  LastObject = 2
  Docs <- ThreeDocs
  Contents <- EachContents
  Normal <- NowQuiet
  Refers = {"a"}
  Batch = 1
  Databases <- OldOrRetained
  Offline = {"reindex"}
INVARIANT PointersHold
INVARIANT EvidenceHasProof
PROPERTY StoryIsKept
CHECK_DEADLOCK FALSE
