\* One slot, and a high resource with errors and many objects that has to share it
\* with low ones that keep it busy: one that was selected twice, or two.
SPECIFICATION SchedulerFairSpec
CONSTANTS
  h1 = h1
  l1 = l1
  l2 = l2
  l3 = l3
  Workers <- AllWorkers
  Keys = {"kh", "ka", "kb"}
  KeyOf <- KeyOfAll
  Scored <- LastOfKey
  Selections <- TwinsOrRivals
  Priority <- Priorities
  Limit = 1
  Rotates = TRUE
  Refresh = TRUE
  StreamFails = TRUE
  Minutes = 4
  Gains <- BusyStreams
  Losses <- HighHasErrors
  Costs <- HighIsLarge
INVARIANT SlotsAreAccounted
INVARIANT NoOrphanRequest
PROPERTY IdleSlotIsTaken
PROPERTY HealthyHighIsNotStarved
\* Every worker may end.
CHECK_DEADLOCK FALSE
