SPECIFICATION FairSpec
CONSTANTS
  MaxRuns = 1
  MaxNew = 1
  MaxArtifacts = 0
  MaxCrashes = 1
  Faults = {}
  Cancellers = {c1}
  Followers = {"api","a2a","task"}
  Requests = {"new","a2a","delete"}
INVARIANT FollowerSkipsNothing
INVARIANT CompletedTaskHasItsAnswer
PROPERTY FollowersAreReleased
PROPERTY RunsEnd
CHECK_DEADLOCK FALSE
