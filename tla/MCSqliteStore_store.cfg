\* Two incarnations of a pod, a slice that refers to them, retention beside.
SPECIFICATION Spec
CONSTANTS
  p = p
  s = s
  p1 = p1
  p2 = p2
  s1 = s1
  NoUid = NoUid
  Names <- PodAndSlice
  Uids <- Three
  NameOf <- ThreeNames
  Earlier <- ThreeEarlier
  Contents <- ThreeContents
  Target <- ThreeTargets
  Rules <- GlobalAndPolicy
  MaxVersions = 3
  MaxClock = 1
INVARIANT TablesAgree
PROPERTY HistoryIsKept
\* The bounds on versions and clock end a behaviour.
CHECK_DEADLOCK FALSE
