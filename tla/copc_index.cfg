SPECIFICATION FairSpec
CONSTANTS
  Files <- MCFiles
  Servers = {"blob", "ranges", "refuses", "ignores"}
  HeadCells = 6
  InfoCells = 2
  MaxSlot = 1000
  MaxPages = 5
  Finest = 9
  RootHalf = 8
  Views <- MCViews
  NoView = NoView
  Strategy = "frustum-priority"
  LodNum = 1
  LodDen = 50
  MaxDepth = 4
  MinPoints = 10
  MaxConcurrent = 3
  MaxMoves = 2
INVARIANTS IndexComplete EachPageOnce SelectionComplete
PROPERTY ConcurrencyRecovers
CHECK_DEADLOCK FALSE
