SPECIFICATION Spec
CONSTANTS
  MaxPoints = 3
  InitialCapacity = 2
  Modes = {"drop-oldest"}
  Dynamic = TRUE
  DeferGrowth = TRUE
  GrowNum = 2
  GrowDen = 1
  K = 2
  Keys = {"a"}
  NoKey = "none"
  Points <- MixedCells
  Inf = 9
  Cell <- MCCell
  CellKeys <- MCCellKeys
  Score <- MCScore
  Importance <- MCImportance
  InitialField = "a"
  InitialLookahead = FALSE
  Kinds = {"object", "binary"}
  Hints = {FALSE}
  Colors = {}
  MaxChunk = 1
  MaxOffered = 5
  MaxQueued = 2
  MaxTime = 1
INVARIANTS DropAccounting CullingComplete PendingGrowthIsQueued SnapshotFaithful GenerationsUnique
PROPERTIES KeepsPromise
CHECK_DEADLOCK FALSE
