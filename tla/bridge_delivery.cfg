SPECIFICATION FairSpec
CONSTANTS
  MaxQueued = 2
  MaxCoalesce = 3
  Culling = FALSE
  Throws = FALSE
  MaxPost = 2
  MaxPosted = 8
  MaxErrors = 1
  MaxResets = 1
INVARIANT NothingLost
PROPERTY EveryRequestSettles
CHECK_DEADLOCK FALSE
