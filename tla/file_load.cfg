SPECIFICATION FairSpec
CONSTANTS
  HeaderLen = 2
  MagicLen = 2
  RecLen = 2
  PageSize = 4
  ChunkSize = 2
  LazChunk = 2
  PointBudget = 2
  Files <- MCFiles
  Loaders = {"base", "laz", "e57"}
  MaxLoads = 2
  MaxSegment = 3
  InitialPoints = 2
INVARIANTS PushedIsPrefix ReadyIsComplete
PROPERTIES SoundFilesLoad QuietOutsideLoads EveryLoadSettles
CHECK_DEADLOCK FALSE
