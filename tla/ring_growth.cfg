SPECIFICATION FairSpec
CONSTANTS
  MaxPoints = 4
  InitialCapacity = 2
  Modes = {"drop-oldest", "drop-newest"}
  Dynamic = TRUE
  DeferGrowth = FALSE
  GrowNum = 7
  GrowDen = 4
  K = 2
  Keys = {"i"}
  NoKey = "none"
  Points <- ThreeWeights
  Inf = 9
  Cell <- MCCell
  CellKeys <- MCCellKeys
  Score <- PlainScore
  Importance <- MCImportance
  InitialField = "i"
  InitialLookahead = TRUE
  Kinds = {"binary"}
  Hints = {TRUE}
  Colors = {"i", "none"}
  MaxChunk = 3
  MaxOffered = 5
  MaxQueued = 1
  MaxTime = 0
INVARIANTS TypeOK NoEarlyDrop RangeExact
PROPERTIES IngestReturns
CHECK_DEADLOCK FALSE
